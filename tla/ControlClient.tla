---------------------------- MODULE ControlClient ----------------------------
(***************************************************************************)
(* The TWAMP-Control client: the main thread (control_client.rs), which    *)
(* runs the control loop and in it the state machine of a control session  *)
(* (control_client_session.rs), and the worker thread that runs the test.  *)
(*                                                                         *)
(* The worker's loop is EventLoop itself, with the main thread as its      *)
(* peer.  Of the control loop the main thread only uses what LoopLife      *)
(* promises: its one source is the connection, its one timer the deadline. *)
(* While a callback of the control loop waits, that loop does nothing      *)
(* else.  The server answers each message once, refuses, closes the        *)
(* connection or keeps silent.                                             *)
(***************************************************************************)
EXTENDS EventLoop

CONSTANT
    Families   \* pairs of IP versions of source and target in configurations

ASSUME FamiliesAssumption == Families \subseteq {4, 6} \X {4, 6}

\* The worker sets the overtime of its loop and runs it.
ASSUME WorkerAssumption ==
    \A use \in Programs :
        \A i \in 1 .. Len(use.calls) : use.calls[i].op = "set_overtime"

VARIABLES
    main,       \* where the main thread is
    session,    \* SenderSessionState
    connected,  \* the connection is a source of the control loop
    owed,       \* the server has yet to answer
    closedByServer, \* the server has closed the connection
    reset,      \* and what was sent to it since was answered with a reset
    family,     \* IP versions of source and target
    stage, due  \* the control loop, as in LoopLife

ControlLoop == INSTANCE LoopLife

worker == <<phase, result, program, events, registry, kernel, ending, channel>>
connection == <<session, connected, owed, closedByServer, reset, family>>
clientVars == <<worker, main, connection, stage, due>>

ClientInit ==
    /\ Init
    /\ main = "connect" /\ session = "AwaitingServerGreeting"
    /\ connected = FALSE /\ owed = FALSE
    /\ closedByServer = FALSE /\ reset = FALSE
    /\ family \in Families
    /\ ControlLoop!LifeInit

-----------------------------------------------------------------------------
(* execute(): connection, control loop, end.                               *)

Connect ==
    /\ main = "connect"
    /\ main' = "loop" /\ connected' = TRUE /\ owed' = TRUE
    /\ ControlLoop!Start
    /\ UNCHANGED <<worker, session, closedByServer, reset, family>>

\* bind or connect failed: execute() returns, and the worker is not joined.
ConnectFails ==
    /\ main = "connect"
    /\ main' = "returned"
    /\ UNCHANGED <<worker, connection, stage, due>>

ControlDeadline ==
    /\ main \notin {"connect", "returned"}
    /\ ControlLoop!PassDeadline
    /\ UNCHANGED <<worker, main, connection>>

ControlOvertime ==
    /\ main = "loop"
    /\ ControlLoop!BeginOvertime
    /\ UNCHANGED <<worker, main, connection>>

ControlEnds ==
    /\ main = "loop"
    /\ ControlLoop!ReturnOk
    /\ main' = "join"
    /\ UNCHANGED <<worker, connection>>

\* sessions_handle.join(), and the results of the sessions.
Join ==
    /\ main = "join" /\ phase = "ended"
    /\ main' = "returned"
    /\ UNCHANGED <<worker, connection, stage, due>>

-----------------------------------------------------------------------------
(* transition(): the handshake.                                            *)

\* The callback of the connection runs with an answer of the server.
Hear(state) ==
    /\ main = "loop" /\ connected /\ session = state /\ owed
    /\ UNCHANGED <<worker, reset, family, stage, due>>

\* A callback that returns an error costs the control loop its only source.
Dropped ==
    /\ connected' = FALSE /\ main' = "loop"
    /\ UNCHANGED <<session, owed, closedByServer>>

Advance(state) ==
    session' = state /\ UNCHANGED <<main, connected, owed, closedByServer>>

\* The mode is not supported, the bytes do not parse or the reply is not sent.
ReceiveGreeting ==
    /\ Hear("AwaitingServerGreeting")
    /\ Advance("AwaitingServerStart") \/ Dropped

\* RequestTwSessionBuilder::build: the addresses must be of the version given,
\* and that is the version of the source.
build(versions) == versions[1] = versions[2]

\* NotSupported is an error; the other refusals are todo!(), which ends the
\* thread and the process.
ReceiveServerStart ==
    /\ Hear("AwaitingServerStart")
    /\ \/ build(family) /\ Advance("AwaitingSessionAcceptance")
       \/ Dropped
       \/ main' = "returned" /\ UNCHANGED <<session, connected, owed, closedByServer>>

\* Accepted: StartSessions is sent.  Otherwise SessionRefused, an error.
ReceiveAcceptance ==
    /\ Hear("AwaitingSessionAcceptance")
    /\ Advance("AwaitingStartAck") \/ Dropped

\* A negative answer is ignored, bytes that do not parse end the session.  The
\* server may close the connection behind its acknowledgement: one event for both.
ReceiveStartAck ==
    /\ Hear("AwaitingStartAck")
    /\ \/ /\ session' = "TestInProgress" /\ main' = "bind" /\ owed' = FALSE
          /\ closedByServer' \in {closedByServer, TRUE}
          /\ UNCHANGED connected
       \/ /\ session' \in {"AwaitingStartAck", "FinalState"} /\ owed' = FALSE
          /\ UNCHANGED <<main, connected, closedByServer>>
       \/ Dropped

\* The end of the stream, or a reset that overtakes it.  Zero bytes are not looked
\* at, and an error of receive() only while the acknowledgement is awaited: a test
\* that is done is run once more.
ReceiveEof ==
    /\ main = "loop" /\ connected /\ ~closedByServer
    /\ closedByServer' = TRUE /\ owed' = FALSE /\ reset' \in BOOLEAN
    /\ main' = IF session = "TestInProgress" THEN "bind" ELSE "loop"
    /\ connected' = ~(reset' /\ session = "AwaitingStartAck")
    /\ UNCHANGED <<worker, session, family, stage, due>>

\* StopSessions was sent on a connection that the server has closed: the reset that
\* answers it is an event of its own, and the test is run again (if the bound on
\* messages allows for one more).
ReceiveReset ==
    /\ main = "loop" /\ connected /\ closedByServer /\ ~reset
    /\ session = "TestInProgress" /\ sends >= 3
    /\ reset' = TRUE
    /\ main' = "bind"
    /\ UNCHANGED <<worker, session, connected, owed, closedByServer, family, stage,
                   due>>

-----------------------------------------------------------------------------
(* transition() in TestInProgress: the test is handed to the worker.       *)

At(place) == main = place /\ UNCHANGED <<phase, result, program, events, registry,
                                         kernel, ending, stage, due>>

Go(place) == main' = place /\ UNCHANGED connection

\* transition() returns an error; a guard of the mutex is dropped.
Err ==
    /\ Dropped /\ held' = FALSE
    /\ UNCHANGED <<reset, family, inbox, cell, unparked, sends>>

create_udp_socket ==
    /\ At("bind")
    /\ \/ Go("lockRegister") /\ UNCHANGED channel
       \/ Err

\* The worker publishes a token with the mutex locked, for a moment in which
\* the try_lock()? of the main thread fails.
WorkerPublishes == phase = "drain" /\ inbox # <<>>

TryLock(place, next) ==
    /\ At(place)
    /\ \/ /\ held' = TRUE /\ Go(next)
          /\ UNCHANGED <<inbox, cell, unparked, sends>>
       \/ WorkerPublishes /\ Err

\* A worker whose run() has returned has dropped the receiver.
Send(place, next, message) ==
    /\ At(place)
    /\ \/ /\ phase # "ended" /\ sends > 0
          /\ inbox' = Append(inbox, message) /\ sends' = sends - 1
          /\ Go(next)
          /\ UNCHANGED <<cell, held, unparked>>
       \/ phase = "ended" /\ Err

Unlock(place, next) ==
    /\ At(place)
    /\ held' = FALSE
    /\ Go(next)
    /\ UNCHANGED <<inbox, cell, unparked, sends>>

\* Mutant: the timer that is to end the test has it_value zero.
TestMessage_disarmed(kind, tok) ==
    [kind |-> kind, tok |-> tok,
     spec |-> CASE kind = "Register" -> "oneshot"
                [] kind = "RegisterTimed" -> "periodic"
                [] OTHER -> "zero"]

TestMessage(kind, tok) ==
    [kind |-> kind, spec |-> IF kind = "Register" THEN "oneshot" ELSE "periodic",
     tok |-> tok]

LockRegister == TryLock("lockRegister", "sendRegister")
SendRegister == Send("sendRegister", "unlockRegister", TestMessage("Register", 0))
UnlockRegister == Unlock("unlockRegister", "poll")

LockPoll == TryLock("poll", "ask")

\* Mutant: the timer is registered without waiting for the token.
GetToken_unchecked == At("ask") /\ Go("sendTimed") /\ UNCHANGED channel

\* The loop that sleeps and asks for a token ends with the first one it gets,
\* and keeps the mutex; a token of an earlier test counts.
GetToken == cell # NoToken /\ At("ask") /\ Go("sendTimed") /\ UNCHANGED channel

\* No token yet: the mutex is released and the thread sleeps again.
PollAgain == cell = NoToken /\ Unlock("ask", "poll")

SendTimed ==
    Send("sendTimed", "unlockTimed",
         TestMessage("RegisterTimed", IF cell = NoToken THEN 0 ELSE cell))

\* Mutant: the test is started and nothing is sent that ends it.
UnlockTimed_forgets_cleanup == Unlock("unlockTimed", "asleep")

UnlockTimed == Unlock("unlockTimed", "lockCleanup")

LockCleanup == TryLock("lockCleanup", "sendCleanup")
SendCleanup == Send("sendCleanup", "unlockCleanup", TestMessage("TimedCleanup", 0))

\* Mutant: drop(sender_lock) is missing before park().
UnlockCleanup_keeps_guard == At("unlockCleanup") /\ Go("parked") /\ UNCHANGED channel

UnlockCleanup == Unlock("unlockCleanup", "parked")

\* park() returns with the permit that the worker's unpark() left.
Unpark ==
    /\ At("parked") /\ unparked
    /\ unparked' = FALSE
    /\ Go("asleep")
    /\ UNCHANGED <<inbox, cell, held, sends>>

\* sleep(timeout), then StopSessions, which a connection that was reset refuses;
\* the connection stays a source.
StopSessions ==
    /\ At("asleep")
    /\ \/ ~reset /\ Go("loop") /\ UNCHANGED channel
       \/ Err

-----------------------------------------------------------------------------
(* The worker: the branches that this use of the loop can take.            *)

\* The callbacks of the test return Ok: both threads never hold the lock on the
\* sessions at the same time.  Those of the reflected packets change nothing
\* that the main thread waits for; they are in TwampLight.
WorkerLoop ==
    /\ \/ Setup \/ StartRun
       \/ HandleRegister \/ HandleRegisterTimed \/ HandleTimedCleanup
       \/ RegistrationFails
       \/ PollStep \/ PollFails
       \/ \E tok \in events :
             \/ TimerOk(tok)
             \/ FinishCleanup(tok) \/ EnterOvertime(tok) \/ OvertimeFails(tok)
       \/ Sweep
    /\ UNCHANGED <<main, connection, stage, due>>

WorkerTimer(tok) == Expire(tok) /\ UNCHANGED <<main, connection, stage, due>>

Handshake ==
    \/ ReceiveGreeting \/ ReceiveServerStart \/ ReceiveAcceptance
    \/ ReceiveStartAck \/ ReceiveEof \/ ReceiveReset

MainStep ==
    \/ Connect \/ ConnectFails
    \/ create_udp_socket
    \/ LockRegister \/ SendRegister \/ UnlockRegister
    \/ LockPoll \/ GetToken \/ PollAgain \/ SendTimed \/ UnlockTimed
    \/ LockCleanup \/ SendCleanup \/ UnlockCleanup
    \/ Unpark \/ StopSessions
    \/ ControlOvertime \/ ControlEnds \/ Join

ExecuteReturned == main = "returned" /\ UNCHANGED clientVars

\* The main thread waits in join() or park(), or in poll() of the control loop,
\* and the worker in its own poll().
Waits == main \in {"join", "parked", "loop"} /\ UNCHANGED clientVars

ClientNext ==
    \/ Handshake \/ MainStep
    \/ ControlDeadline
    \/ WorkerLoop
    \/ \E tok \in armed : WorkerTimer(tok)
    \/ Waits \/ ExecuteReturned

\* Tokens the worker can hand out: one for a message, and the overtime timer.
WorkerTokens == 0..MaxSends

\* Both threads go on (connect() comes to an end too) and timers expire; nothing is
\* assumed of the server.
ClientSpec ==
    /\ ClientInit /\ [][ClientNext]_clientVars
    /\ WF_clientVars(MainStep)
    /\ WF_clientVars(ControlDeadline)
    /\ WF_clientVars(WorkerLoop)
    /\ \A tok \in WorkerTokens : WF_clientVars(WorkerTimer(tok))

-----------------------------------------------------------------------------
(* Properties.                                                             *)

Pending(kind) == phase # "ended" /\ \E i \in DOMAIN inbox : inbox[i].kind = kind

\* The main thread holds the mutex exactly between try_lock() and the end of
\* the guard's scope.
ClientTypeOK ==
    /\ TypeOK
    /\ stage \in {"setup", "running", "overtime", "ok"} /\ due \in BOOLEAN
    /\ session = "TestInProgress" => build(family)
    /\ held <=> main \in {"sendRegister", "unlockRegister", "ask", "sendTimed",
                          "unlockTimed", "sendCleanup", "unlockCleanup"}

\* The worker's run() failed before it came to the cleanup: the race for the mutex,
\* or an error of the system.
Failed == result \in {"Lock", "Io"}

\* The ways in which the worker ends with the main thread left behind: its run()
\* failed, or came to its own cleanup while the end of the stream has the test run
\* once more.
Abandoned == Failed \/ (closedByServer /\ result = "NotFound")

\* Whenever the main thread waits for the worker, in the loop that asks for a
\* token or in park(), the worker still has the message that it will answer,
\* unless it has ended in one of these ways.
WaitsForSomeone ==
    /\ main \in {"poll", "ask"} /\ cell = NoToken => Pending("Register") \/ Failed
    /\ main = "parked" => unparked \/ Pending("TimedCleanup") \/ Abandoned

\* join() waits for a worker that will end, or else the test was not handed over:
\* the handshake was not finished, or the callback that ran it failed.
JoinEnds ==
    main = "join" =>
        \/ phase = "ended" \/ Ending \cap (armed \cup ready \cup events) # {}
        \/ session # "TestInProgress" \/ ~connected

\* As long as the server has not closed the connection, the sending timer is
\* registered with the token of the test's socket.
TimerOnSocket ==
    \A i \in DOMAIN inbox :
        (inbox[i].kind = "RegisterTimed" /\ ~closedByServer)
            => inbox[i].tok \in sources

\* A test whose end the worker has taken over comes to that end and execute()
\* returns, unless the worker is gone when the main thread parks.
HandedOverReturns ==
    (main # "returned" /\ cleanup)
        ~> (main = "returned" \/ (main = "parked" /\ Abandoned))
=============================================================================
