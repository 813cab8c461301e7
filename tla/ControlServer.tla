---------------------------- MODULE ControlServer ----------------------------
(***************************************************************************)
(* TWAMP-Control: the server (control.rs, control_session.rs) and the      *)
(* clients of this repository (control_client.rs,                          *)
(* control_client_session.rs).                                             *)
(*                                                                         *)
(* The server has two threads, each in an event loop of its own.  The      *)
(* control thread accepts connections and runs the state machine of every  *)
(* control session; the worker owns the UDP sockets of the test sessions   *)
(* and gets them, and the order to close them, through a channel whose     *)
(* mutex both threads only try to lock.  Descriptors are numbers of one    *)
(* process-wide table that the two threads share, and both close them by   *)
(* number.                                                                 *)
(*                                                                         *)
(* A connection is named by its client, which connects once.  Messages     *)
(* carry no tag on the wire: a receiver reads what is there, and takes it  *)
(* for what its own state expects.                                         *)
(***************************************************************************)
EXTENDS Naturals, Sequences, SequencesExt, FiniteSets

CONSTANTS
    Clients,    \* client processes
    Settings,   \* descriptors the process may open, the listener not counted ->
                \* client -> port it asks the server to reflect on
    MayDie,     \* clients that may be killed at any time
    Early,      \* clients that may connect before the server has called listen(0)
    None

Limits == DOMAIN Settings

ASSUME SettingsAssumption ==
    Limits \subseteq Nat \ {0} /\ Settings \in [Limits -> [Clients -> Nat]]
ASSUME MayDieAssumption == MayDie \subseteq Clients
ASSUME EarlyAssumption == Early \subseteq Clients
ASSUME NoneAssumption == None \notin {"tcp", "udp"} \X Clients

Listener == 0

VARIABLES
    cstate,     \* SenderSessionState of each client; "idle" before it connects
    running,    \* clients inside the callback that runs the test
    cedge,      \* clients whose control loop has an unread edge
    toClient,   \* bytes the client has not read, as a sequence of messages
    toServer,   \* bytes the server has not read
    left,       \* how the client's side was closed: "no", "fin" or "rst"
    backlog,    \* connections waiting in the listener's accept queue
    owner,      \* of each descriptor: None, <<"tcp", c>> or <<"udp", c>>
    sessions,   \* control_sessions; client is the one it was made for
    listening,  \* the listener is still a source of the control loop
    thread,     \* where the control thread is
    inbox,      \* Register messages in the control loop's own channel
    polled,     \* connections in the control loop's interest list
    ready,      \* edges not yet reported to the control loop
    batch,      \* events the control loop has yet to dispatch
    replyFd,    \* descriptor whose callback holds the worker's channel
    winbox,     \* the worker's channel
    wsources,   \* descriptors in the worker's table of sources
    worker,     \* the worker's thread: "alive" or "dead"
    held        \* who holds the mutex of the worker's channel

clientVars  == <<cstate, running>>
streamVars  == <<cedge, toClient, toServer, left>>
controlVars == <<sessions, listening, thread, inbox, batch, replyFd>>
kernelVars  == <<backlog, owner, polled, ready>>
workerVars  == <<winbox, wsources, worker, held>>
vars == <<clientVars, streamVars, controlVars, kernelVars, workerVars>>

Init ==
    /\ cstate = [c \in Clients |-> "idle"]
    /\ running = {} /\ cedge = {}
    /\ toClient = [c \in Clients |-> <<>>] /\ toServer = [c \in Clients |-> <<>>]
    /\ left = [c \in Clients |-> "no"]
    /\ backlog = <<>> /\ owner \in {[f \in 1..limit |-> None] : limit \in Limits}
    /\ sessions = <<>> /\ listening = TRUE
    /\ thread = "starting" /\ inbox = <<>> /\ batch = {} /\ replyFd = None
    /\ polled = {} /\ ready = {}
    /\ winbox = <<>> /\ wsources = {} /\ worker = "alive" /\ held = "no"

-----------------------------------------------------------------------------
(* Descriptors and streams.                                                *)

\* The process's descriptors, as many as the limit in force.
Fds == DOMAIN owner

\* The port that a client asks for.
Port(c) == Settings[Cardinality(Fds)][c]

Free == {f \in Fds : owner[f] = None}

\* The kernel gives out the lowest free number.
Lowest(F) == CHOOSE f \in F : \A g \in F : f <= g

\* The table after the descriptors in F are closed, if they are open.
Closed(table, F) == [f \in Fds |-> IF f \in F THEN None ELSE table[f]]

\* Clients whose connection is among the descriptors in F.
Peers(F) == {c \in Clients : \E f \in F : owner[f] = <<"tcp", c>>}

\* close() on numbers: a connection leaves the interest list and its client
\* sees the end of the stream.
Close(F) ==
    /\ owner' = Closed(owner, F)
    /\ polled' = polled \ F
    /\ ready' = ready \ F
    /\ cedge' = cedge \cup Peers(F)

\* A message for a client.
Reply(c, m) ==
    /\ toClient' = [toClient EXCEPT ![c] = Append(@, m)]
    /\ cedge' = cedge \cup {c}

Connection(c) == {f \in Fds : owner[f] = <<"tcp", c>>}

\* A message for the server; it goes nowhere if the server has closed.
Request(c, m) ==
    /\ toServer' = IF Connection(c) = {} THEN toServer
                   ELSE [toServer EXCEPT ![c] = Append(@, m)]
    /\ ready' = ready \cup (Connection(c) \cap polled)

-----------------------------------------------------------------------------
(* The client.                                                             *)

\* Mutant: the backlog that a listener usually has.
Backlog_default == 128

\* listen(0) leaves room for one connection in the queue of accept().  The kernel
\* holds further ones back and their clients try again.
Backlog == 0

\* Until listen(0) the listener has the large backlog that bind() gave it, and is
\* not polled.
Connect(c) ==
    /\ cstate[c] = "idle" /\ thread # "ended"
    /\ IF thread = "starting" THEN c \in Early ELSE Len(backlog) <= Backlog
    /\ cstate' = [cstate EXCEPT ![c] = "AwaitingServerGreeting"]
    /\ backlog' = Append(backlog, c)
    /\ ready' = IF listening /\ thread # "starting" THEN ready \cup {Listener} ELSE ready
    /\ UNCHANGED <<running, streamVars, controlVars, owner, polled, workerVars>>

\* What the client sends in answer to a message, and the state it is then in:
\* the state after the arms of transition() that run in the same callback.
Answer ==
    [AwaitingServerGreeting    |-> <<"ClientSetupResponse", "AwaitingServerStart">>,
     AwaitingServerStart       |-> <<"RequestTwSession", "AwaitingSessionAcceptance">>,
     AwaitingSessionAcceptance |-> <<"StartSessions", "AwaitingStartAck">>]

\* A readable event of the client's control loop.
Readable(c) ==
    /\ c \in cedge \ running /\ left[c] = "no"
    /\ UNCHANGED <<left, controlVars, backlog, owner, polled, workerVars>>

ClientAnswers(c) ==
    /\ Readable(c)
    /\ cstate[c] \in DOMAIN Answer /\ toClient[c] # <<>>
    /\ cedge' = cedge \ {c}
    /\ toClient' = [toClient EXCEPT ![c] = <<>>]
    /\ Request(c, Answer[cstate[c]][1])
    /\ cstate' = [cstate EXCEPT ![c] = Answer[cstate[c]][2]]
    /\ UNCHANGED running

\* The acknowledgement starts the test, and the callback lasts until its end.
ClientStartAck(c) ==
    /\ Readable(c)
    /\ cstate[c] = "AwaitingStartAck" /\ toClient[c] # <<>>
    /\ cedge' = cedge \ {c}
    /\ toClient' = [toClient EXCEPT ![c] = <<>>]
    /\ cstate' = [cstate EXCEPT ![c] = "TestInProgress"]
    /\ running' = running \cup {c}
    /\ UNCHANGED <<toServer, ready>>

\* The end of the stream: nothing is done about it, except that a client that
\* has finished its test runs it again.
ClientEof(c) ==
    /\ Readable(c) /\ toClient[c] = <<>>
    /\ cedge' = cedge \ {c}
    /\ running' = IF cstate[c] = "TestInProgress" THEN running \cup {c} ELSE running
    /\ UNCHANGED <<cstate, toClient, toServer, ready>>

ClientStops(c) ==
    /\ c \in running
    /\ Request(c, "StopSessions")
    /\ running' = running \ {c}
    /\ UNCHANGED <<cstate, cedge, toClient, left, controlVars, backlog, owner,
                   polled, workerVars>>

\* The client's descriptor is closed: after its test, when the test fails with
\* an error, or because the process dies.  With unread bytes that is a reset.
Leave(c) ==
    /\ cstate[c] # "idle" /\ left[c] = "no"
    /\ cstate[c] = "TestInProgress" \/ c \in MayDie
    /\ left' = [left EXCEPT ![c] = IF toClient[c] = <<>> THEN "fin" ELSE "rst"]
    /\ toClient' = [toClient EXCEPT ![c] = <<>>]
    /\ running' = running \ {c} /\ cedge' = cedge \ {c}
    /\ ready' = ready \cup (Connection(c) \cap polled)
    /\ UNCHANGED <<cstate, toServer, controlVars, backlog, owner, polled, workerVars>>

-----------------------------------------------------------------------------
(* The control thread: its loop and the accepting callback.                *)

\* The backlog shrinks, which leaves the connections that are queued; then the
\* listener enters the interest list, one edge for whatever is in its queue.
Listen ==
    /\ thread = "starting" /\ thread' = "drain"
    /\ ready' = IF backlog = <<>> THEN ready ELSE ready \cup {Listener}
    /\ UNCHANGED <<clientVars, streamVars, sessions, listening, inbox, batch, replyFd,
                   backlog, owner, polled, workerVars>>

\* A Register message of the loop's own channel.  A number that has been closed
\* or taken in the meantime cannot be polled: run() returns the error and the
\* process exits.
HandleRegister ==
    /\ thread = "drain" /\ inbox # <<>>
    /\ inbox' = Tail(inbox)
    /\ LET f == Head(inbox) IN
       IF owner[f] = None \/ f \in polled
       THEN thread' = "ended" /\ UNCHANGED <<polled, ready>>
       ELSE /\ polled' = polled \cup {f}
            /\ ready' = ready \cup
                 {g \in {f} : \E c \in Peers({f}) : toServer[c] # <<>> \/ left[c] # "no"}
            /\ UNCHANGED thread
    /\ UNCHANGED <<clientVars, streamVars, sessions, listening, batch, replyFd,
                   backlog, owner, workerVars>>

Poll ==
    /\ thread = "drain" /\ inbox = <<>> /\ ready # {}
    /\ thread' = "dispatch" /\ batch' = ready /\ ready' = {}
    /\ UNCHANGED <<clientVars, streamVars, sessions, listening, inbox, replyFd,
                   backlog, owner, polled, workerVars>>

EndOfBatch ==
    /\ thread = "dispatch" /\ batch = {}
    /\ thread' = "drain"
    /\ UNCHANGED <<clientVars, streamVars, sessions, listening, inbox, batch,
                   replyFd, kernelVars, workerVars>>

\* Mutant: the session is known by the token of the listener, not by the fd.
NewControlSession_by_token(f, c) ==
    [id |-> Listener, state |-> "Negotiation", client |-> c]

\* ControlSession::new and its first transition, which sends the greeting.
NewControlSession(f, c) == [id |-> f, state |-> "Negotiation", client |-> c]

Accept ==
    /\ thread = "dispatch" /\ Listener \in batch /\ Free # {} /\ backlog # <<>>
    /\ batch' = batch \ {Listener}
    /\ LET f == Lowest(Free)
           c == Head(backlog)
       IN  /\ owner' = [owner EXCEPT ![f] = <<"tcp", c>>]
           /\ sessions' = Append(sessions, NewControlSession(f, c))
           /\ inbox' = Append(inbox, f)
           /\ IF left[c] = "no" THEN Reply(c, "ServerGreeting")
              ELSE UNCHANGED <<toClient, cedge>>
    /\ backlog' = Tail(backlog)
    /\ UNCHANGED <<clientVars, toServer, left, listening, thread, replyFd, polled,
                   ready, workerVars>>

\* accept() fails for want of a descriptor: the callback's error makes the loop
\* drop its source, which is the listener.
AcceptFails ==
    /\ thread = "dispatch" /\ Listener \in batch /\ Free = {}
    /\ batch' = batch \ {Listener}
    /\ listening' = FALSE /\ backlog' = <<>>
    /\ ready' = ready \ {Listener}
    /\ UNCHANGED <<clientVars, streamVars, sessions, thread, inbox, replyFd, owner,
                   polled, workerVars>>

-----------------------------------------------------------------------------
(* The control thread: the callback of a connection.                       *)

\* The first session with the descriptor's number.
Found(f) == SelectInSeq(sessions, LAMBDA s : s.id = f)

\* The event of descriptor f is taken by a session in the given state.
Event(f, state) ==
    /\ thread = "dispatch" /\ f \in batch \ {Listener}
    /\ batch' = batch \ {f}
    /\ Found(f) # 0 /\ sessions[Found(f)].state = state
    /\ UNCHANGED <<clientVars, left, listening, inbox, backlog>>

\* recv() returns all the bytes there are, of which the first message is read;
\* with nothing to read it blocks.
Receives(f, c, m) ==
    /\ owner[f] = <<"tcp", c>> /\ toServer[c] # <<>> /\ Head(toServer[c]) = m
    /\ toServer' = [toServer EXCEPT ![c] = <<>>]

Ended(f, how) == \E c \in Peers({f}) : toServer[c] = <<>> /\ left[c] = how

\* transition() failed: the callback closes the descriptor.
CloseConnection(f) ==
    /\ Close({f})
    /\ UNCHANGED <<toClient, sessions, thread, replyFd, workerVars>>

\* Mutant: zero bytes are passed over like an error.
ReceiveEof_passed_over(f) ==
    /\ Event(f, "Negotiation") \/ Event(f, "Monitor")
    /\ Ended(f, "fin")
    /\ UNCHANGED <<cedge, toClient, toServer, sessions, thread, replyFd, owner,
                   polled, ready, workerVars>>

\* Zero bytes: the client has closed.
ReceiveEof(f) ==
    /\ Event(f, "Negotiation") \/ Event(f, "Monitor")
    /\ Ended(f, "fin")
    /\ CloseConnection(f)
    /\ UNCHANGED toServer

\* An error of recv() is passed over.
ReceiveError(f) ==
    /\ Event(f, "Negotiation") \/ Event(f, "Monitor")
    /\ Ended(f, "rst") \/ owner[f] = None
    /\ UNCHANGED <<cedge, toClient, toServer, sessions, thread, replyFd, owner,
                   polled, ready, workerVars>>

\* A reply that leaves the worker alone.
Answers(c, m) ==
    /\ IF left[c] = "no" THEN Reply(c, m) ELSE UNCHANGED <<toClient, cedge>>
    /\ UNCHANGED <<thread, replyFd, owner, polled, ready, workerVars>>

Negotiation(f, c) ==
    /\ Event(f, "Negotiation")
    /\ Receives(f, c, "ClientSetupResponse")
    /\ Answers(c, "ServerStart")
    /\ sessions' = [sessions EXCEPT ![Found(f)].state = "Monitor"]

\* Mutant: an unknown command is answered, as the last arm does.
Forbidden_not_supported(f, c) ==
    /\ Event(f, "Monitor")
    /\ Receives(f, c, "ClientSetupResponse")
    /\ Answers(c, "AcceptSession")
    /\ UNCHANGED sessions

\* The first byte of a ClientSetupResponse is its mode, 1, which Monitor takes
\* for the command Forbidden and leaves without an answer.
Forbidden(f, c) ==
    /\ Event(f, "Monitor")
    /\ Receives(f, c, "ClientSetupResponse")
    /\ UNCHANGED <<cedge, toClient, sessions, thread, replyFd, owner, polled, ready,
                   workerVars>>

\* Mutant: the session stays in Start.
StartSessions_stays(f, c) ==
    /\ Event(f, "Monitor")
    /\ Receives(f, c, "StartSessions")
    /\ Answers(c, "StartAck")
    /\ sessions' = [sessions EXCEPT ![Found(f)].state = "Start"]

\* Monitor, Start and back to Monitor.
StartSessions(f, c) ==
    /\ Event(f, "Monitor")
    /\ Receives(f, c, "StartSessions")
    /\ Answers(c, "StartAck")
    /\ UNCHANGED sessions

\* Nothing is sent to a worker whose receiver is gone.
ToWorker(m) == winbox' = IF worker = "alive" THEN Append(winbox, m) ELSE winbox

\* try_lock()? on the worker's channel fails while the worker publishes a token.
LockFails(f) == held = "worker" /\ CloseConnection(f)

StopSessions(f, c) ==
    /\ Event(f, "Monitor")
    /\ Receives(f, c, "StopSessions")
    /\ \/ LockFails(f)
       \/ /\ held = "no"
          /\ ToWorker([kind |-> "Clean", fd |-> None])
          /\ held' = "control" /\ thread' = "stopping" /\ replyFd' = f
          /\ UNCHANGED <<cedge, toClient, sessions, owner, polled, ready, wsources,
                         worker>>

PortInUse(p) == \E f \in Fds, c \in Clients : owner[f] = <<"udp", c>> /\ Port(c) = p

\* create_udp_socket fails if the port is bound, or without a free descriptor.
RequestRefused(f, c) ==
    /\ Event(f, "Monitor")
    /\ Receives(f, c, "RequestTwSession")
    /\ PortInUse(Port(c)) \/ Free = {}
    /\ CloseConnection(f)

\* The socket is made, and passed to the worker with the mutex locked; a dead
\* worker's channel drops it, which closes it.
RequestTwSession(f, c) ==
    /\ Event(f, "Monitor")
    /\ Receives(f, c, "RequestTwSession")
    /\ ~PortInUse(Port(c)) /\ Free # {}
    /\ \/ LockFails(f)
       \/ /\ held = "no"
          /\ LET u == Lowest(Free) IN
             /\ ToWorker([kind |-> "Register", fd |-> u])
             /\ owner' = IF worker = "alive" THEN [owner EXCEPT ![u] = <<"udp", c>>]
                                             ELSE owner
          /\ held' = "control" /\ thread' = "accepting" /\ replyFd' = f
          /\ UNCHANGED <<cedge, toClient, sessions, polled, ready, wsources, worker>>

\* The statement that locked the channel ends, and the session is accepted.
Unlock ==
    /\ thread \in {"stopping", "accepting"}
    /\ held' = "no" /\ thread' = "dispatch" /\ replyFd' = None
    /\ LET to == {c \in Peers({replyFd}) : thread = "accepting" /\ left[c] = "no"}
       IN  /\ toClient' = [c \in Clients |-> IF c \in to
                             THEN Append(toClient[c], "AcceptSession") ELSE toClient[c]]
           /\ cedge' = cedge \cup to
    /\ UNCHANGED <<clientVars, toServer, left, sessions, listening, inbox, batch,
                   kernelVars, winbox, wsources, worker>>

-----------------------------------------------------------------------------
(* The worker thread.                                                      *)

WorkerReceives(kind) ==
    /\ worker = "alive" /\ held # "worker" /\ thread # "ended"
    /\ winbox # <<>> /\ Head(winbox).kind = kind
    /\ UNCHANGED <<clientVars, toClient, toServer, left, controlVars, backlog>>

\* The socket is polled, and its token published under the mutex.
WorkerRegister ==
    /\ WorkerReceives("Register") /\ held = "no" /\ owner[Head(winbox).fd] # None
    /\ winbox' = Tail(winbox)
    /\ wsources' = wsources \cup {Head(winbox).fd}
    /\ held' = "worker"
    /\ UNCHANGED <<worker, cedge, owner, polled, ready>>

WorkerPublish ==
    /\ held = "worker" /\ held' = "no" /\ thread # "ended"
    /\ UNCHANGED <<clientVars, streamVars, controlVars, kernelVars, winbox, wsources,
                   worker>>

\* The mutex is held by the control thread, or the socket's number has been
\* closed meanwhile: run() returns the error, and the loop, its sockets and the
\* messages still in its channel are dropped.
WorkerDies ==
    /\ WorkerReceives("Register")
    /\ held = "control" \/ owner[Head(winbox).fd] = None
    /\ worker' = "dead" /\ winbox' = <<>> /\ wsources' = {}
    /\ Close(wsources \cup {m.fd : m \in {x \in ToSet(winbox) : x.kind = "Register"}})
    /\ UNCHANGED held

\* Every descriptor of the table is closed, by its number; the table stays.
WorkerClean ==
    /\ WorkerReceives("Clean")
    /\ winbox' = Tail(winbox)
    /\ Close(wsources)
    /\ UNCHANGED <<wsources, worker, held>>

-----------------------------------------------------------------------------

ControlThread ==
    \/ Listen \/ HandleRegister \/ Poll \/ EndOfBatch \/ Accept \/ AcceptFails \/ Unlock
    \/ \E f \in Fds : ReceiveEof(f) \/ ReceiveError(f)
    \/ \E f \in Fds, c \in Clients :
         \/ Negotiation(f, c) \/ Forbidden(f, c) \/ StartSessions(f, c)
         \/ StopSessions(f, c) \/ RequestRefused(f, c) \/ RequestTwSession(f, c)

WorkerThread == WorkerRegister \/ WorkerPublish \/ WorkerDies \/ WorkerClean

Client(c) ==
    Connect(c) \/ ClientAnswers(c) \/ ClientStartAck(c) \/ ClientEof(c)
        \/ ClientStops(c) \/ Leave(c)

\* poll() times out: the control thread has nothing to do, or is gone.
Idle ==
    /\ thread = "ended" \/ (thread = "drain" /\ inbox = <<>> /\ ready = {})
    /\ UNCHANGED vars

Next == ControlThread \/ WorkerThread \/ (\E c \in Clients : Client(c)) \/ Idle

Spec == Init /\ [][Next]_vars

\* Both threads of the server go on as long as they have something to do.
LiveSpec == Spec /\ WF_vars(ControlThread) /\ WF_vars(WorkerThread)

-----------------------------------------------------------------------------
(* Properties.                                                             *)

Messages == {"ServerGreeting", "ClientSetupResponse", "ServerStart",
             "RequestTwSession", "AcceptSession", "StartSessions", "StartAck",
             "StopSessions"}

SenderSessionState == {"idle", "AwaitingServerGreeting", "AwaitingServerStart",
                       "AwaitingSessionAcceptance", "AwaitingStartAck",
                       "TestInProgress"}

\* Between callbacks every session is in Negotiation or in Monitor: the states
\* Greeting and Start are passed within one callback.  A client has at most one
\* connection, and only open descriptors are polled.
TypeOK ==
    /\ cstate \in [Clients -> SenderSessionState]
    /\ \A c \in Clients : toClient[c] \in Seq(Messages) /\ toServer[c] \in Seq(Messages)
    /\ left \in [Clients -> {"no", "fin", "rst"}]
    /\ thread \in {"starting", "drain", "dispatch", "stopping", "accepting", "ended"}
    /\ held \in {"no", "control", "worker"}
    /\ \A i \in DOMAIN sessions : sessions[i].state \in {"Negotiation", "Monitor"}
    /\ \A c \in Clients : Cardinality(Connection(c)) <= 1
    /\ \A f \in polled : owner[f] # None
    /\ running \subseteq Clients /\ cedge \subseteq Clients
    /\ ready \subseteq polled \cup {Listener}

\* What a client in each state takes the next message for.
Expected ==
    [AwaitingServerGreeting |-> "ServerGreeting", AwaitingServerStart |-> "ServerStart",
     AwaitingSessionAcceptance |-> "AcceptSession", AwaitingStartAck |-> "StartAck"]

\* Client and server stay in step: a client never has a message to read other
\* than the one it takes it for, and never more than one; the server never has
\* two messages of a client to read, of which recv() would lose the second, nor
\* one while the client has a reply to read.  Messages have no tag, so nothing
\* else keeps one from being read as another.
InStep ==
    \A c \in Clients :
        /\ toClient[c] # <<>> => /\ cstate[c] \in DOMAIN Expected
                                 /\ toClient[c] = <<Expected[cstate[c]]>>
        /\ Len(toServer[c]) <= 1
        /\ toServer[c] # <<>> => toClient[c] = <<>>

\* A connection is never polled without a session, so its callback never passes
\* over an event.
SessionFound == \A f \in polled : Found(f) # 0

\* Every client that connects is greeted, unless it leaves, the server ends, or
\* it has lost its listener: accept() takes one connection for an edge, however
\* many are waiting.  (At most one client is early: of two, one would wait for ever.)
EveryoneGreeted ==
    \A c \in Clients :
        cstate[c] = "AwaitingServerGreeting" ~>
            (toClient[c] # <<>> \/ left[c] # "no" \/ thread = "ended" \/ ~listening
                \/ cstate[c] # "AwaitingServerGreeting")

\* The descriptor of a client that has closed its side is given back, whichever
\* session the callback finds and whatever the worker closes meanwhile.  That
\* takes an event with the end of the stream alone: a reset, and an end that
\* comes with a last message in one edge, leave the descriptor open for ever.
LeaversReleased ==
    \A c \in Clients :
        (left[c] = "fin" /\ toServer[c] = <<>> /\ Connection(c) \cap ready # {})
            ~> (Connection(c) = {} \/ thread = "ended")

-----------------------------------------------------------------------------
(* What comments of the code say, and the code does not do.                *)

\* "create a new TWAMP control session with the initial state and TCP
\* connection": a connection is served by the session made for it.
OwnSession ==
    \A f \in polled : \A c \in Peers({f}) : sessions[Found(f)].client = c

\* "Server has accepted the start command, so we can start streaming test
\* messages": while a client whose session was accepted runs its test, the
\* server has a socket for it.
AcceptedIsServed ==
    \A c \in running : (\E f \in Fds : owner[f] = <<"udp", c>>)

\* "a function that will be called when an event is received for the registered
\* `event_source`": the callback of a connection, which reads a blocking socket on
\* the thread of all connections, is called for an event of that connection, so
\* that it has a message or the end of the stream to read.
NeverBlocks ==
    \A f \in batch \ {Listener} : \A c \in Peers({f}) :
        toServer[c] # <<>> \/ left[c] # "no"
=============================================================================
