------------------------ MODULE ControlClientProofs ------------------------
(***************************************************************************)
(* Proofs about the control client: two threads, the channel between them  *)
(* and its mutex, for every number of messages and whatever the server     *)
(* does.  The worker's loop keeps the invariant that EventLoopProofs        *)
(* proves of it; what is added here relates it to where the main thread is. *)
(***************************************************************************)
EXTENDS ControlClient, EventLoopProofs

\* last_message_timeout is not zero.  (With zero the overtime that the worker
\* enters has a timer that never expires.)
OvertimeNotZero ==
    \A use \in Programs : \A i \in 1 .. Len(use.calls) : use.calls[i].spec # "zero"

-----------------------------------------------------------------------------
(* The inductive invariant.                                                *)

BeforeTimer == {"bind", "lockRegister", "sendRegister", "unlockRegister", "poll",
                "ask", "sendTimed"}

InTest == BeforeTimer \cup
    {"unlockTimed", "lockCleanup", "sendCleanup", "unlockCleanup", "parked", "asleep"}

Guarded == {"sendRegister", "unlockRegister", "ask", "sendTimed", "unlockTimed",
            "sendCleanup", "unlockCleanup"}

TestKinds == {"Register", "RegisterTimed", "TimedCleanup"}

\* A timer that ends the worker's run will be heard of.
EndInSight == Ending \cap (armed \cup ready \cup events) # {}

\* The threads and the handshake: the mutex is held between try_lock() and the
\* end of the guard's scope, and a test only runs on a connection that was
\* accepted.
Threads ==
    /\ main \in InTest \cup {"connect", "loop", "join", "returned"}
    /\ stage \in {"setup", "running", "overtime", "ok"} /\ due \in BOOLEAN
    /\ held <=> main \in Guarded
    /\ session \in {"AwaitingSessionAcceptance", "AwaitingStartAck", "TestInProgress"}
          => build(family)
    /\ main \in InTest => session = "TestInProgress"
    /\ main = "connect" => session # "TestInProgress" /\ ~closedByServer
    /\ closedByServer => ~owed

\* The worker only ever gets messages of a test, and none before the first test.
Messages ==
    /\ \A i \in 1 .. Len(program) : program[i].op = "set_overtime"
    /\ OvertimeNotZero =>
          overtime # "zero" /\ \A i \in 1 .. Len(program) : program[i].spec # "zero"
    /\ \A i \in 1 .. Len(inbox) : inbox[i].kind \in TestKinds /\ inbox[i].spec # "zero"
    /\ session # "TestInProgress" => inbox = <<>> /\ cell = NoToken /\ ~cleanup

\* Until the first test has its timer, the only token that the worker can have
\* published is that of the socket.
FirstToken ==
    (~closedByServer /\ main \in BeforeTimer) =>
        /\ cell # NoToken => cell \in sources
        /\ \A i \in 1 .. Len(inbox) : inbox[i].kind = "Register"

\* The main thread is past the first test, and no callback of it has failed.
TestHandedOver ==
    \/ main = "asleep"
    \/ session = "TestInProgress" /\ connected /\ main \in {"loop", "join"}

\* The end of a test, once the worker has taken it over, is published, lets the
\* main thread go on, and comes.
TakenOver ==
    /\ unparked => cleanup
    /\ cleanup => /\ cell # NoToken \/ Failed
                  /\ OvertimeNotZero => phase = "ended" \/ EndInSight
    /\ (cleanup /\ ~Failed /\ ~unparked)
          => closedByServer \/ main \in {"asleep", "loop", "join", "returned"}
    /\ TestHandedOver => cleanup

\* What the main thread waits for, from the moment at which it has sent for it.
Waiting ==
    /\ (main \in {"unlockRegister", "poll", "ask"} /\ cell = NoToken)
          => Pending("Register") \/ Failed
    /\ main = "sendTimed" => cell # NoToken
    /\ main \in {"unlockCleanup", "parked"}
          => unparked \/ Pending("TimedCleanup") \/ Abandoned

ClientInv ==
    /\ IndInv /\ Threads /\ Messages /\ FirstToken /\ TimerOnSocket
    /\ TakenOver /\ Waiting

-----------------------------------------------------------------------------
(* The worker's loop, whatever the main thread does.                       *)

\* What the main thread does leaves the tables of the loop alone, and with them
\* the invariant of the loop.
LEMMA LoopUntouched ==
    ASSUME IndInv, ChannelType',
           UNCHANGED <<phase, result, program, events, registry, kernel, ending>>
    PROVE  /\ IndInv' /\ (EndInSight' <=> EndInSight)
           /\ UNCHANGED <<sources, cleanup, overtime>>
<1> USE DEF registry, kernel, ending
<1>1. TypeOK'
  BY DEF IndInv, TypeOK, RegistryType, ControlType, Timed
<1>2. Issued' /\ Polled' /\ EdgesExpired' /\ BatchDispatched' /\ Stage'
  BY DEF IndInv, Issued, Polled, EdgesExpired, BatchDispatched, Stage, Timed
<1>3. /\ CleanupUnlisted' /\ NoPanic' /\ OvertimeDropsTimers' /\ BatchFresh'
      /\ OvertimeAfterDeadline'
  BY DEF IndInv, CleanupUnlisted, NoPanic, OvertimeDropsTimers, BatchFresh,
         OvertimeAfterDeadline, DeadlinePassed, OvertimeTimer, Ending, Timed
<1>4. EndInSight' <=> EndInSight
  BY DEF EndInSight, Ending, Timed
<1> QED BY <1>1, <1>2, <1>3, <1>4 DEF IndInv

\* The channel is well typed.
LEMMA ChannelTyped ==
    ASSUME IndInv
    PROVE  /\ ChannelType /\ inbox \in Seq(Message) /\ Len(inbox) \in Nat
           /\ DOMAIN inbox = 1 .. Len(inbox) /\ cell \in Token \cup {NoToken}
  BY DEF IndInv, TypeOK, ChannelType

\* A step of the worker is a step of the loop.
LEMMA WorkerKeepsLoop ==
    ASSUME IndInv, WorkerLoop \/ \E tok \in armed : WorkerTimer(tok) PROVE IndInv'
<1>1. Next
  BY DEF WorkerLoop, WorkerTimer, Next, Loop, Drain, DispatchStep, Environment
<1> QED BY <1>1, NextInv

-----------------------------------------------------------------------------
(* Steps of the main thread that the worker does not see.                  *)

\* Where the main thread may go when it leaves the channel alone.
Move ==
    /\ Threads' /\ (TestHandedOver' => cleanup)
    /\ session' # "TestInProgress" => session # "TestInProgress"
    /\ (~closedByServer' /\ main' \in BeforeTimer) =>
          /\ cell # NoToken => cell \in sources
          /\ \A i \in 1 .. Len(inbox) : inbox[i].kind = "Register"
    /\ closedByServer => closedByServer'
    /\ \/ closedByServer' \/ main' \in {"asleep", "loop", "join", "returned"}
       \/ main \notin {"asleep", "loop", "join", "returned"} \/ ~cleanup
    /\ main' \in {"unlockRegister", "poll", "ask"}
          => main \in {"unlockRegister", "poll", "ask"}
    /\ main' \in {"unlockCleanup", "parked"} => main \in {"unlockCleanup", "parked"}
    /\ main' = "sendTimed" => cell # NoToken

\* With the channel and the loop unchanged, only the places matter.
LEMMA Unseen ==
    ASSUME ClientInv, Move, held' \in BOOLEAN,
           UNCHANGED <<phase, result, program, events, registry, kernel, ending>>,
           UNCHANGED <<inbox, cell, unparked, sends>>
    PROVE  ClientInv'
<1> USE DEF Move
<1>1. IndInv /\ Threads /\ Messages /\ FirstToken /\ TimerOnSocket /\ TakenOver /\ Waiting
  BY DEF ClientInv
<1>2. ChannelType'
  BY <1>1, ChannelTyped DEF ChannelType
<1>3. IndInv' /\ (EndInSight' <=> EndInSight) /\ UNCHANGED <<sources, cleanup, overtime>>
  BY <1>1, <1>2, LoopUntouched
<1>4. Messages'
  BY <1>1, <1>3 DEF Messages
<1>5. FirstToken'
  BY <1>3 DEF FirstToken
<1>6. TimerOnSocket'
  BY <1>1, <1>3 DEF TimerOnSocket
<1>7. TakenOver'
  BY <1>1, <1>3 DEF TakenOver, Failed
<1>8. Waiting'
  BY <1>1 DEF Waiting, Pending, Abandoned, Failed
<1> QED BY <1>3, <1>4, <1>5, <1>6, <1>7, <1>8 DEF ClientInv

\* The connection, the control loop and the handshake.
LEMMA ControlKeeps ==
    ASSUME ClientInv,
           \/ Connect \/ ConnectFails \/ Handshake \/ ControlDeadline
           \/ ControlOvertime \/ ControlEnds \/ Join
    PROVE  ClientInv'
<1> USE DEF connection, ControlLoop!Start, ControlLoop!PassDeadline,
            ControlLoop!BeginOvertime, ControlLoop!ReturnOk, InTest, BeforeTimer,
            Guarded
<1>1. /\ IndInv /\ Threads /\ Messages /\ TakenOver
  BY DEF ClientInv
<1>2. /\ held' = held /\ held' \in BOOLEAN
      /\ UNCHANGED <<phase, result, program, events, registry, kernel, ending>>
      /\ UNCHANGED <<inbox, cell, unparked, sends>>
  BY ChannelTyped
     DEF ChannelType, ClientInv, Connect, ConnectFails, Handshake, ControlDeadline,
         ControlOvertime,
         ControlEnds, Join, ReceiveGreeting, ReceiveServerStart, ReceiveAcceptance,
         ReceiveStartAck, ReceiveEof, ReceiveReset, Hear, worker, channel
<1> USE DEF Move, Threads, TestHandedOver
<1>3. CASE Connect
  BY <1>1, <1>2, <1>3, Unseen DEF Connect
<1>4. CASE ConnectFails
  BY <1>1, <1>2, <1>4, Unseen DEF ConnectFails
<1>5. CASE ControlDeadline \/ ControlOvertime
  <2>1. UNCHANGED <<main, session, connected, owed, closedByServer, reset, family>>
    BY <1>5 DEF ControlDeadline, ControlOvertime
  <2>2. Threads'
    BY <1>1, <1>2, <1>5, <2>1 DEF ControlDeadline, ControlOvertime
  <2>3. Move
    BY <2>1, <2>2 DEF ClientInv, FirstToken, TakenOver, Waiting
  <2> QED BY <1>2, <2>3, Unseen
<1>6. CASE ControlEnds
  <2>1. Move
    BY <1>1, <1>2, <1>6 DEF ControlEnds, TakenOver
  <2> QED BY <1>2, <2>1, Unseen
<1>7. CASE Join
  <2>1. Move
    BY <1>1, <1>2, <1>7 DEF Join
  <2> QED BY <1>2, <2>1, Unseen
<1>8. CASE ReceiveGreeting
  <2>0. UNCHANGED <<owed, closedByServer, stage, due, family>>
    BY <1>8 DEF ReceiveGreeting, Hear, Advance, Dropped
  <2>1. Move
    BY <1>1, <1>2, <1>8, <2>0 DEF ReceiveGreeting, Hear, Advance, Dropped
  <2> QED BY <1>2, <2>1, Unseen
<1>9. CASE ReceiveServerStart
  <2>0. UNCHANGED <<owed, closedByServer, stage, due, family>>
    BY <1>9 DEF ReceiveServerStart, Hear, Advance, Dropped
  <2>1. Move
    BY <1>1, <1>2, <1>9, <2>0 DEF ReceiveServerStart, Hear, Advance, Dropped
  <2> QED BY <1>2, <2>1, Unseen
<1>10. CASE ReceiveAcceptance
  <2>0. UNCHANGED <<owed, closedByServer, stage, due, family>>
    BY <1>10 DEF ReceiveAcceptance, Hear, Advance, Dropped
  <2>1. Move
    BY <1>1, <1>2, <1>10, <2>0 DEF ReceiveAcceptance, Hear, Advance, Dropped
  <2> QED BY <1>2, <2>1, Unseen
<1>11. CASE ReceiveStartAck
  <2>1. inbox = <<>> /\ cell = NoToken /\ ~cleanup
    BY <1>1, <1>11 DEF Messages, ReceiveStartAck, Hear
  <2>2. \A i \in 1 .. Len(inbox) : inbox[i].kind = "Register"
    BY <2>1
  <2>3. /\ main = "loop" /\ owed /\ UNCHANGED <<stage, due, family>>
        /\ session = "AwaitingStartAck" /\ ~closedByServer
    BY <1>1, <1>11 DEF ReceiveStartAck, Hear
  <2>4. \/ session' = "TestInProgress" /\ main' = "bind" /\ owed' = FALSE
        \/ /\ session' \in {"AwaitingStartAck", "FinalState"} /\ main' = "loop"
           /\ ~closedByServer'
    BY <1>11, <2>3 DEF ReceiveStartAck, Hear, Dropped
  <2>5. Threads'
    BY <1>1, <1>2, <2>3, <2>4
  <2>6. Move
    BY <2>1, <2>2, <2>3, <2>4, <2>5
  <2> QED BY <1>2, <2>6, Unseen
<1>12. CASE ReceiveEof
  <2>1. Move
    BY <1>1, <1>2, <1>12 DEF ReceiveEof, TakenOver
  <2> QED BY <1>2, <2>1, Unseen
<1>13. CASE ReceiveReset
  <2>1. Move
    BY <1>1, <1>2, <1>13 DEF ReceiveReset, TakenOver
  <2> QED BY <1>2, <2>1, Unseen
<1> QED
  BY <1>3, <1>4, <1>5, <1>6, <1>7, <1>8, <1>9, <1>10, <1>11, <1>12, <1>13
     DEF Handshake

-----------------------------------------------------------------------------
(* The test, as the main thread goes through it.                           *)

\* transition() returns an error.
LEMMA ErrKeeps == ASSUME ClientInv, NEW place, At(place), Err PROVE ClientInv'
<1>1. Move /\ held' \in BOOLEAN
  BY DEF At, Err, Dropped, Move, ClientInv, Threads, TestHandedOver, InTest,
         BeforeTimer, Guarded
<1>2. /\ UNCHANGED <<phase, result, program, events, registry, kernel, ending>>
      /\ UNCHANGED <<inbox, cell, unparked, sends>>
  BY DEF At, Err
<1> QED BY <1>1, <1>2, Unseen

\* The guard of the mutex is taken or dropped, or nothing but the place changes.
LEMMA GuardKeeps ==
    ASSUME ClientInv, NEW place \in InTest, NEW next \in InTest, At(place), Go(next),
           held' \in BOOLEAN, held' <=> next \in Guarded,
           UNCHANGED <<inbox, cell, unparked, sends>>,
           next \in BeforeTimer => place \in BeforeTimer,
           next = "asleep" => place = "asleep",
           next \in {"unlockRegister", "poll", "ask"}
               => place \in {"unlockRegister", "poll", "ask"},
           next \in {"unlockCleanup", "parked"} => place \in {"unlockCleanup", "parked"},
           next = "sendTimed" => cell # NoToken, place # "asleep"
    PROVE  ClientInv'
<1>1. /\ main = place /\ main' = next /\ UNCHANGED <<stage, due>>
      /\ UNCHANGED <<session, connected, owed, closedByServer, reset, family>>
      /\ UNCHANGED <<phase, result, program, events, registry, kernel, ending>>
  BY DEF At, Go, connection
<1>2. Threads /\ FirstToken /\ TakenOver
  BY DEF ClientInv
<1>3. Threads'
  BY <1>1, <1>2 DEF Threads, InTest, BeforeTimer
<1>4. TestHandedOver' => cleanup
  BY <1>1, <1>2 DEF TestHandedOver, TakenOver, InTest, BeforeTimer
<1>5. Move
  BY <1>1, <1>2, <1>3, <1>4 DEF Move, FirstToken, InTest, BeforeTimer
<1> QED BY <1>1, <1>5, Unseen

\* Attempts to lock the mutex.
LEMMA LockKeeps ==
    ASSUME ClientInv, LockRegister \/ LockPoll \/ LockCleanup PROVE ClientInv'
<1> USE DEF InTest, BeforeTimer, Guarded
<1>1. ASSUME NEW place \in {"lockRegister", "poll", "lockCleanup"}, NEW next,
             TryLock(place, next),
             \/ place = "lockRegister" /\ next = "sendRegister"
             \/ place = "poll" /\ next = "ask"
             \/ place = "lockCleanup" /\ next = "sendCleanup"
      PROVE  ClientInv'
  <2>1. CASE Err
    BY <1>1, <2>1, ErrKeeps DEF TryLock
  <2>2. CASE held' = TRUE /\ Go(next) /\ UNCHANGED <<inbox, cell, unparked, sends>>
    <3>1. At(place)
      BY <1>1 DEF TryLock
    <3> QED BY <1>1, <2>2, <3>1, GuardKeeps
  <2> QED BY <1>1, <2>1, <2>2 DEF TryLock
<1> QED BY <1>1 DEF LockRegister, LockPoll, LockCleanup

\* The guard is dropped.
LEMMA UnlockKeeps ==
    ASSUME ClientInv, UnlockRegister \/ PollAgain \/ UnlockTimed \/ UnlockCleanup
    PROVE  ClientInv'
<1> USE DEF InTest, BeforeTimer, Guarded
<1>1. ASSUME NEW place \in {"unlockRegister", "ask", "unlockTimed", "unlockCleanup"},
             NEW next, Unlock(place, next),
             \/ place = "unlockRegister" /\ next = "poll"
             \/ place = "ask" /\ next = "poll"
             \/ place = "unlockTimed" /\ next = "lockCleanup"
             \/ place = "unlockCleanup" /\ next = "parked"
      PROVE  ClientInv'
  <2>1. /\ At(place) /\ Go(next) /\ held' = FALSE
        /\ UNCHANGED <<inbox, cell, unparked, sends>>
    BY <1>1 DEF Unlock
  <2> QED BY <1>1, <2>1, GuardKeeps
<1> QED BY <1>1 DEF UnlockRegister, PollAgain, UnlockTimed, UnlockCleanup

\* A socket, a token, and the end of the sleep.
LEMMA PlaceKeeps ==
    ASSUME ClientInv, create_udp_socket \/ GetToken \/ StopSessions PROVE ClientInv'
<1> USE DEF InTest, BeforeTimer, Guarded
<1>0. held \in BOOLEAN /\ (held <=> main \in Guarded)
  BY ChannelTyped DEF ClientInv, Threads, ChannelType
<1>1. CASE Err
  BY <1>1, ErrKeeps DEF create_udp_socket, GetToken, StopSessions, Go
<1>2. CASE At("bind") /\ Go("lockRegister") /\ UNCHANGED channel
  BY <1>0, <1>2, GuardKeeps DEF channel, At
<1>3. CASE GetToken
  BY <1>0, <1>3, GuardKeeps DEF GetToken, channel, At
<1>4. CASE At("asleep") /\ Go("loop") /\ UNCHANGED channel
  <2>1. /\ UNCHANGED <<phase, result, program, events, registry, kernel, ending>>
        /\ UNCHANGED <<inbox, cell, unparked, sends>>
    BY <1>4 DEF At, channel
  <2>2. cleanup
    BY <1>4 DEF ClientInv, TakenOver, TestHandedOver, At
  <2>3. Move
    BY <1>0, <1>4, <2>2 DEF At, Go, connection, channel, Move, ClientInv, Threads
  <2> QED BY <1>0, <1>4, <2>1, <2>3, Unseen DEF channel
<1> QED BY <1>1, <1>2, <1>3, <1>4 DEF create_udp_socket, StopSessions

\* park() returns.
LEMMA UnparkKeeps == ASSUME ClientInv, Unpark PROVE ClientInv'
<1>1. /\ IndInv /\ Threads /\ Messages /\ FirstToken /\ TimerOnSocket /\ TakenOver
      /\ Waiting
  BY DEF ClientInv
<1>2. /\ main = "parked" /\ main' = "asleep" /\ unparked /\ unparked' = FALSE
      /\ UNCHANGED <<phase, result, program, events, registry, kernel, ending>>
      /\ UNCHANGED <<stage, due, session, connected, owed, closedByServer, reset, family>>
      /\ UNCHANGED <<inbox, cell, held, sends>>
  BY DEF Unpark, At, Go, connection
<1>3. ChannelType'
  BY <1>1, <1>2, ChannelTyped DEF ChannelType
<1>4. IndInv' /\ (EndInSight' <=> EndInSight) /\ UNCHANGED <<sources, cleanup, overtime>>
  BY <1>1, <1>2, <1>3, LoopUntouched
<1>5. Threads'
  BY <1>1, <1>2 DEF Threads, InTest, BeforeTimer, Guarded
<1>6. Messages' /\ TimerOnSocket'
  BY <1>1, <1>2, <1>4 DEF Messages, TimerOnSocket
<1>7. FirstToken' /\ Waiting'
  BY <1>2 DEF FirstToken, Waiting, BeforeTimer
<1>8. TakenOver'
  BY <1>1, <1>2, <1>4 DEF TakenOver, Failed
<1> QED BY <1>4, <1>5, <1>6, <1>7, <1>8 DEF ClientInv

\* A message is put in the channel.
LEMMA SendKeeps ==
    ASSUME ClientInv, NEW place \in {"sendRegister", "sendTimed", "sendCleanup"},
           NEW next, NEW kind, NEW tok \in Token,
           \/ place = "sendRegister" /\ next = "unlockRegister" /\ kind = "Register"
           \/ place = "sendTimed" /\ next = "unlockTimed" /\ kind = "RegisterTimed"
           \/ place = "sendCleanup" /\ next = "unlockCleanup" /\ kind = "TimedCleanup",
           kind = "RegisterTimed" /\ ~closedByServer => tok \in sources,
           Send(place, next, TestMessage(kind, tok))
    PROVE  ClientInv'
<1> USE DEF InTest, BeforeTimer, Guarded
<1>1. CASE Err
  BY <1>1, ErrKeeps DEF Send
<1> DEFINE m == TestMessage(kind, tok)
<1>2. CASE /\ phase # "ended" /\ sends > 0
           /\ inbox' = Append(inbox, m) /\ sends' = sends - 1
           /\ Go(next) /\ UNCHANGED <<cell, held, unparked>>
  <2>1. /\ IndInv /\ Threads /\ Messages /\ FirstToken /\ TimerOnSocket /\ TakenOver
        /\ Waiting
    BY DEF ClientInv
  <2>2. /\ main = place /\ main' = next
        /\ UNCHANGED <<phase, result, program, events, registry, kernel, ending>>
        /\ UNCHANGED <<stage, due, session, connected, owed, closedByServer, reset, family>>
    BY <1>2 DEF Send, At, Go, connection
  <2>3. /\ m \in Message /\ m.kind = kind /\ m.tok = tok /\ m.spec # "zero"
        /\ kind \in TestKinds
    BY DEF TestMessage, Message, Kinds, Specs, TestKinds
  <2> HIDE DEF m
  <2>4. /\ inbox \in Seq(Message) /\ DOMAIN inbox = 1 .. Len(inbox)
        /\ ChannelType /\ Len(inbox) \in Nat
    BY <2>1, ChannelTyped
  <2>5. /\ inbox' \in Seq(Message) /\ Len(inbox') = Len(inbox) + 1
        /\ DOMAIN inbox' = 1 .. Len(inbox) + 1
        /\ \A i \in 1 .. Len(inbox) : inbox'[i] = inbox[i]
        /\ inbox'[Len(inbox) + 1] = m
    BY <1>2, <2>3, <2>4
  <2>6. \A i \in 1 .. Len(inbox) + 1 :
           inbox'[i] = m \/ \E j \in 1 .. Len(inbox) : inbox'[i] = inbox[j]
    <3> SUFFICES ASSUME NEW i \in 1 .. Len(inbox) + 1
                 PROVE  inbox'[i] = m \/ \E j \in 1 .. Len(inbox) : inbox'[i] = inbox[j]
      OBVIOUS
    <3>1. i \in 1 .. Len(inbox) \/ i = Len(inbox) + 1
      BY <2>4
    <3> QED BY <2>5, <3>1
  <2>7. ChannelType'
    <3>1. sends' \in 0 .. MaxSends
      BY <1>2, <2>4, BoundAssumption DEF ChannelType
    <3> QED BY <1>2, <2>4, <2>5, <3>1 DEF ChannelType
  <2>8. /\ IndInv' /\ (EndInSight' <=> EndInSight)
        /\ UNCHANGED <<sources, cleanup, overtime>>
    BY <2>1, <2>2, <2>7, LoopUntouched
  <2>9. Threads'
    BY <1>2, <2>1, <2>2 DEF Threads
  <2>10. Messages'
    <3>1. \A i \in 1 .. Len(inbox') :
             inbox'[i].kind \in TestKinds /\ inbox'[i].spec # "zero"
      BY <2>1, <2>3, <2>5, <2>6 DEF Messages
    <3>2. session' = "TestInProgress"
      BY <2>1, <2>2 DEF Threads
    <3> QED BY <2>1, <2>2, <2>8, <3>1, <3>2 DEF Messages
  <2>11. FirstToken'
    <3>1. CASE place = "sendRegister"
      <4>1. (~closedByServer') =>
               /\ cell' # NoToken => cell' \in sources'
               /\ \A i \in 1 .. Len(inbox') : inbox'[i].kind = "Register"
        BY <1>2, <2>1, <2>2, <2>3, <2>5, <2>6, <2>8, <3>1 DEF FirstToken
      <4> QED BY <4>1 DEF FirstToken
    <3>2. CASE place # "sendRegister"
      BY <2>2, <3>2 DEF FirstToken
    <3> QED BY <3>1, <3>2
  <2>12. TimerOnSocket'
    BY <2>1, <2>2, <2>3, <2>4, <2>5, <2>6, <2>8 DEF TimerOnSocket
  <2>13. TakenOver'
    <3>1. TestHandedOver' => TestHandedOver
      BY <2>1, <2>2 DEF TestHandedOver, Threads
    <3> QED BY <1>2, <2>1, <2>2, <2>8, <3>1 DEF TakenOver, Failed
  <2>14. \E i \in DOMAIN inbox' : inbox'[i].kind = kind
    <3>1. Len(inbox) + 1 \in DOMAIN inbox'
      BY <2>4, <2>5
    <3> QED BY <2>3, <2>5, <3>1
  <2>15. Waiting'
    <3>1. phase' # "ended"
      BY <1>2, <2>2
    <3> QED BY <2>2, <2>14, <3>1 DEF Waiting, Pending
  <2> QED BY <2>8, <2>9, <2>10, <2>11, <2>12, <2>13, <2>15 DEF ClientInv
<1> QED BY <1>1, <1>2 DEF Send, m

\* The three messages of a test.
LEMMA SendsKeep ==
    ASSUME ClientInv, SendRegister \/ SendTimed \/ SendCleanup PROVE ClientInv'
<1>1. CASE SendRegister
  BY <1>1, SendKeeps DEF SendRegister, Token
<1>2. CASE SendCleanup
  BY <1>2, SendKeeps DEF SendCleanup, Token
<1>3. CASE SendTimed
  <2> DEFINE tok == IF cell = NoToken THEN 0 ELSE cell
  <2>1. Send("sendTimed", "unlockTimed", TestMessage("RegisterTimed", tok))
    BY <1>3 DEF SendTimed
  <2>2. main = "sendTimed"
    BY <2>1 DEF Send, At
  <2>3. cell # NoToken /\ (~closedByServer => cell \in sources)
    BY <2>2 DEF ClientInv, Waiting, FirstToken, BeforeTimer
  <2>4. tok \in Token /\ (~closedByServer => tok \in sources)
    BY <2>3, ChannelTyped DEF ClientInv
  <2> HIDE DEF tok
  <2> QED BY <2>1, <2>4, SendKeeps
<1> QED BY <1>1, <1>2, <1>3

-----------------------------------------------------------------------------
(* The worker.                                                             *)

\* Steps of the worker that leave the channel alone and go on.
LEMMA LoopGoesOn ==
    ASSUME ClientInv, IndInv', UNCHANGED <<main, connection, stage, due>>,
           UNCHANGED <<channel, sources, cleanup, result>>,
           phase # "ended", phase' # "ended",
           \A i \in 1 .. Len(program') : program'[i].op = "set_overtime",
           OvertimeNotZero =>
              /\ overtime' # "zero"
              /\ \A i \in 1 .. Len(program') : program'[i].spec # "zero"
              /\ EndInSight => EndInSight'
    PROVE  ClientInv'
<1> USE DEF connection, channel
<1>1. /\ Threads /\ Messages /\ FirstToken /\ TimerOnSocket /\ TakenOver /\ Waiting
  BY DEF ClientInv
<1>2. Threads' /\ FirstToken' /\ TimerOnSocket'
  BY <1>1 DEF Threads, FirstToken, TimerOnSocket
<1>3. Messages'
  BY <1>1 DEF Messages
<1>4. TakenOver'
  BY <1>1 DEF TakenOver, TestHandedOver, Failed
<1>5. Waiting'
  BY <1>1 DEF Waiting, Pending, Abandoned, Failed
<1> QED BY <1>2, <1>3, <1>4, <1>5 DEF ClientInv

\* What is left in the channel after a message was received.
LEMMA Received ==
    ASSUME NEW q \in Seq(Message), q # <<>>
    PROVE  /\ Head(q) = q[1] /\ 1 \in 1 .. Len(q)
           /\ Tail(q) \in Seq(Message)
           /\ \A i \in 1 .. Len(Tail(q)) : \E j \in 1 .. Len(q) : Tail(q)[i] = q[j]
           /\ \A kind : (kind # Head(q).kind /\ \E i \in DOMAIN q : q[i].kind = kind)
                           => \E i \in DOMAIN Tail(q) : Tail(q)[i].kind = kind
<1>1. Len(q) \in Nat /\ Len(q) # 0 /\ DOMAIN q = 1 .. Len(q) /\ Head(q) = q[1]
  OBVIOUS
<1>2. /\ Tail(q) \in Seq(Message) /\ Len(Tail(q)) = Len(q) - 1
      /\ DOMAIN Tail(q) = 1 .. Len(q) - 1
      /\ \A i \in 1 .. Len(q) - 1 : Tail(q)[i] = q[i + 1]
  <2>1. Tail(q) \in Seq(Message) /\ Len(Tail(q)) = Len(q) - 1
    OBVIOUS
  <2>2. \A i \in 1 .. Len(q) - 1 : Tail(q)[i] = q[i + 1]
    OBVIOUS
  <2>3. DOMAIN Tail(q) = 1 .. Len(Tail(q))
    BY <2>1
  <2> QED BY <2>1, <2>2, <2>3
<1>3. ASSUME NEW i \in 1 .. Len(Tail(q)) PROVE \E j \in 1 .. Len(q) : Tail(q)[i] = q[j]
  <2>1. i + 1 \in 1 .. Len(q) /\ i \in 1 .. Len(q) - 1
    BY <1>1, <1>2
  <2> QED BY <1>2, <2>1
<1>4. ASSUME NEW kind, kind # Head(q).kind, NEW i \in DOMAIN q, q[i].kind = kind
      PROVE  \E j \in DOMAIN Tail(q) : Tail(q)[j].kind = kind
  <2>1. i # 1
    BY <1>1, <1>4
  <2>2. i - 1 \in 1 .. Len(q) - 1 /\ (i - 1) + 1 = i
    BY <1>1, <2>1
  <2>3. Tail(q)[i - 1] = q[i]
    BY <1>2, <2>2
  <2> QED BY <1>2, <1>4, <2>2, <2>3
<1>5. 1 \in 1 .. Len(q)
  BY <1>1
<1> QED BY <1>1, <1>2, <1>3, <1>4, <1>5

\* A message is handled: its token is published and the loop goes on, or the main
\* thread holds the mutex and the worker ends.
LEMMA HandleKeeps ==
    ASSUME ClientInv, IndInv', UNCHANGED <<main, connection, stage, due>>,
           NEW kind, Receive(kind), Publish(nextToken), UNCHANGED overtime,
           sources \subseteq sources', cleanup => cleanup',
           kind = "Register" => nextToken \in sources' /\ UNCHANGED <<cleanup, unparked>>,
           kind = "RegisterTimed" => UNCHANGED <<cleanup, unparked>>,
           kind = "TimedCleanup" => cleanup' /\ unparked' = (unparked \/ ~held),
           OvertimeNotZero /\ cleanup' => EndInSight'
    PROVE  ClientInv'
<1> USE DEF connection
<1>1. /\ IndInv /\ Threads /\ Messages /\ FirstToken /\ TimerOnSocket /\ TakenOver
      /\ Waiting
  BY DEF ClientInv
<1>2. /\ phase = "drain" /\ inbox \in Seq(Message) /\ inbox # <<>>
      /\ Head(inbox).kind = kind /\ inbox' = Tail(inbox)
      /\ UNCHANGED <<program, events, held, sends>> /\ held \in BOOLEAN
  BY <1>1, ChannelTyped DEF Receive, ChannelType
<1>3. /\ Head(inbox) = inbox[1] /\ 1 \in 1 .. Len(inbox)
      /\ inbox' \in Seq(Message)
      /\ \A i \in 1 .. Len(inbox') : \E j \in 1 .. Len(inbox) : inbox'[i] = inbox[j]
      /\ \A k : (k # kind /\ \E i \in DOMAIN inbox : inbox[i].kind = k)
                   => \E i \in DOMAIN inbox' : inbox'[i].kind = k
      /\ DOMAIN inbox = 1 .. Len(inbox) /\ DOMAIN inbox' = 1 .. Len(inbox')
  <2>1. inbox' \in Seq(Message)
    BY <1>2, Received
  <2>2. DOMAIN inbox = 1 .. Len(inbox) /\ DOMAIN inbox' = 1 .. Len(inbox')
    BY <1>2, <2>1
  <2> QED BY <1>2, <2>2, Received
<1>4. kind \in TestKinds /\ session = "TestInProgress"
  BY <1>1, <1>2, <1>3 DEF Messages
<1>5. nextToken \in Token /\ nextToken # NoToken
  BY <1>1, NoTokenAssumption DEF IndInv, TypeOK, RegistryType
<1>6. \/ held /\ phase' = "ended" /\ result' = "Lock" /\ cell' = cell
      \/ ~held /\ cell' = nextToken /\ UNCHANGED <<phase, result>>
  BY DEF Publish, Return
<1>7. Threads'
  BY <1>1, <1>2 DEF Threads
<1>8. Messages'
  BY <1>1, <1>2, <1>3, <1>4 DEF Messages
<1>9. FirstToken'
  <2>1. SUFFICES ASSUME ~closedByServer, main \in BeforeTimer
        PROVE  /\ cell' # NoToken => cell' \in sources'
               /\ \A i \in 1 .. Len(inbox') : inbox'[i].kind = "Register"
    BY DEF FirstToken
  <2>2. /\ cell # NoToken => cell \in sources
        /\ \A i \in 1 .. Len(inbox) : inbox[i].kind = "Register"
    BY <1>1, <2>1 DEF FirstToken
  <2>3. kind = "Register"
    BY <1>2, <1>3, <2>2
  <2>4. cell' # NoToken => cell' \in sources'
    BY <1>6, <2>2, <2>3
  <2> QED BY <1>3, <2>2, <2>4
<1>10. TimerOnSocket'
  BY <1>1, <1>3 DEF TimerOnSocket
<1>11. TakenOver'
  <2>1. unparked' => cleanup'
    BY <1>1, <1>4 DEF TakenOver, TestKinds
  <2>2. cleanup' => cell' # NoToken \/ Failed'
    BY <1>5, <1>6 DEF Failed
  <2>3. (cleanup' /\ ~Failed' /\ ~unparked')
           => closedByServer' \/ main' \in {"asleep", "loop", "join", "returned"}
    <3>1. CASE kind = "TimedCleanup"
      BY <1>2, <1>6, <3>1 DEF Failed
    <3>2. CASE kind # "TimedCleanup"
      BY <1>1, <1>2, <1>4, <1>6, <3>2 DEF TakenOver, TestKinds, Failed
    <3> QED BY <3>1, <3>2
  <2>4. TestHandedOver' => cleanup'
    BY <1>1 DEF TakenOver, TestHandedOver
  <2> QED BY <2>1, <2>2, <2>3, <2>4 DEF TakenOver
<1>12. Waiting'
  <2>1. CASE held
    BY <1>1, <1>5, <1>6, <2>1 DEF Waiting, Abandoned, Failed
  <2>2. CASE ~held
    <3>1. phase' # "ended" /\ cell' # NoToken /\ UNCHANGED <<phase, result>>
      BY <1>2, <1>5, <1>6, <2>2
    <3>2. CASE kind = "TimedCleanup"
      BY <2>2, <3>1, <3>2 DEF Waiting
    <3>3. CASE kind # "TimedCleanup"
      <4>1. Pending("TimedCleanup") => Pending("TimedCleanup")'
        BY <1>3, <3>1, <3>3 DEF Pending
      <4> QED BY <1>1, <1>4, <3>1, <3>3, <4>1
            DEF Waiting, Abandoned, Failed, TestKinds
    <3> QED BY <3>2, <3>3
  <2> QED BY <2>1, <2>2
<1> QED BY <1>7, <1>8, <1>9, <1>10, <1>11, <1>12 DEF ClientInv

\* The worker handles a message.
LEMMA DrainKeeps ==
    ASSUME ClientInv, UNCHANGED <<main, connection, stage, due>>,
           HandleRegister \/ HandleRegisterTimed \/ HandleTimedCleanup
    PROVE  ClientInv'
<1>1. IndInv /\ IndInv'
  <2>1. Next
    BY DEF Next, Loop, Drain
  <2> QED BY <2>1, NextInv DEF ClientInv
<1>2. /\ nextToken \in Nat /\ nextToken \notin sources \cup Timed
      /\ \A tok \in armed \cup ready \cup events : tok # nextToken
  BY <1>1 DEF IndInv, TypeOK, RegistryType, Issued, Polled, EdgesExpired, Token
<1>3. OvertimeNotZero /\ cleanup => phase = "ended" \/ EndInSight
  BY DEF ClientInv, TakenOver
<1>4. phase # "ended"
  BY DEF HandleRegister, HandleRegisterTimed, HandleTimedCleanup, Receive
<1>5. CASE HandleRegister
  <2>1. OvertimeNotZero /\ cleanup' => EndInSight'
    BY <1>2, <1>3, <1>4, <1>5
       DEF HandleRegister, Receive, register_event_source, generate_token, EndInSight,
           Ending, Timed, ending
  <2> QED
    BY <1>1, <1>5, <2>1, HandleKeeps
       DEF HandleRegister, register_event_source, ending
<1>6. CASE HandleRegisterTimed
  <2>1. OvertimeNotZero /\ cleanup' => EndInSight'
    BY <1>2, <1>3, <1>4, <1>6
       DEF HandleRegisterTimed, Receive, register_timer, new_timer, generate_token,
           EndInSight, Ending, Timed, ending
  <2> QED
    BY <1>1, <1>6, <2>1, HandleKeeps
       DEF HandleRegisterTimed, register_timer, new_timer, ending
<1>7. CASE HandleTimedCleanup
  <2>1. Head(inbox).spec # "zero"
    <3>1. inbox \in Seq(Message) /\ inbox # <<>>
      BY <1>1, <1>7, ChannelTyped DEF HandleTimedCleanup, Receive
    <3>2. Head(inbox) = inbox[1] /\ 1 \in 1 .. Len(inbox)
      BY <3>1, Received
    <3> QED BY <3>2 DEF ClientInv, Messages
  <2>2. EndInSight'
    BY <1>2, <1>7, <2>1
       DEF HandleTimedCleanup, Receive, add_cleanup, add_duration, new_timer,
           generate_token, EndInSight, Ending, Timed
  <2> QED
    BY <1>1, <1>7, <2>2, HandleKeeps
       DEF HandleTimedCleanup, add_cleanup, add_duration, new_timer
<1> QED BY <1>5, <1>6, <1>7

\* The worker's event for the end of the test finds no timer of that name.
LEMMA FinishCleanupKeeps ==
    ASSUME ClientInv, UNCHANGED <<main, connection, stage, due>>,
           NEW tok, FinishCleanup(tok)
    PROVE  ClientInv'
<1>1. IndInv /\ IndInv'
  <2>1. Next
    BY DEF Next, Loop, DispatchStep, FinishCleanup
  <2> QED BY <2>1, NextInv DEF ClientInv
<1>2. cleanupToken \notin Timed /\ phase = "dispatch" /\ cleanup /\ ~Failed
  BY <1>1 DEF IndInv, CleanupUnlisted, Stage, FinishCleanup, Failed
<1>3. /\ phase' = "ended" /\ result' = "NotFound"
      /\ UNCHANGED <<program, sources, overtime, cleanup>> /\ UNCHANGED channel
  BY <1>2 DEF FinishCleanup, Return
<1> USE DEF connection, channel
<1>4. /\ Threads /\ Messages /\ FirstToken /\ TimerOnSocket /\ TakenOver /\ Waiting
  BY DEF ClientInv
<1>5. Threads' /\ FirstToken' /\ TimerOnSocket' /\ Messages'
  BY <1>3, <1>4 DEF Threads, FirstToken, TimerOnSocket, Messages
<1>6. /\ cell # NoToken
      /\ \/ unparked \/ closedByServer
         \/ main \in {"asleep", "loop", "join", "returned"}
  BY <1>2, <1>4 DEF TakenOver
<1>7. TakenOver'
  BY <1>3, <1>4, <1>6 DEF TakenOver, TestHandedOver, Failed
<1>8. Waiting'
  BY <1>3, <1>6 DEF Waiting, Abandoned
<1> QED BY <1>1, <1>5, <1>7, <1>8 DEF ClientInv

\* An error of the system ends the worker: the main thread may wait for it.
LEMMA FailureKeeps ==
    ASSUME ClientInv, UNCHANGED <<main, connection, stage, due>>,
           \/ RegistrationFails \/ PollFails
           \/ \E tok \in events : OvertimeFails(tok)
    PROVE  ClientInv'
<1>1. IndInv /\ IndInv'
  <2>1. Next
    BY DEF Next, Loop, Drain, DispatchStep
  <2> QED BY <2>1, NextInv DEF ClientInv
<1>2. /\ phase' = "ended" /\ result' = "Io" /\ UNCHANGED program
      /\ UNCHANGED <<sources, cell, held, unparked, sends>>
      /\ overtime' \in {overtime, "none"} /\ (cleanup => cleanup')
      /\ UNCHANGED <<inbox, cleanup>> \/ (inbox # <<>> /\ inbox' = Tail(inbox))
  <2>1. cleanup \in BOOLEAN
    BY <1>1 DEF IndInv, TypeOK, ControlType
  <2>2. CASE RegistrationFails
    BY <2>1, <2>2 DEF RegistrationFails, Return
  <2>3. CASE PollFails
    BY <2>3 DEF PollFails, Return, registry, ending, channel
  <2>4. CASE \E tok \in events : OvertimeFails(tok)
    BY <2>4 DEF OvertimeFails, Take, Return, channel
  <2> QED BY <2>2, <2>3, <2>4
<1>3. Failed'
  BY <1>2 DEF Failed
<1> USE DEF connection
<1>4. /\ Threads /\ Messages /\ FirstToken /\ TimerOnSocket /\ TakenOver
  BY DEF ClientInv
<1>5. /\ \A i \in 1 .. Len(inbox') : \E j \in 1 .. Len(inbox) : inbox'[i] = inbox[j]
      /\ DOMAIN inbox = 1 .. Len(inbox) /\ DOMAIN inbox' = 1 .. Len(inbox')
  <2>1. inbox \in Seq(Message) /\ inbox' \in Seq(Message)
    BY <1>1, ChannelTyped DEF IndInv, TypeOK, ChannelType
  <2>2. DOMAIN inbox = 1 .. Len(inbox) /\ DOMAIN inbox' = 1 .. Len(inbox')
    BY <2>1
  <2>3. CASE inbox' = inbox
    BY <2>3
  <2>4. CASE inbox # <<>> /\ inbox' = Tail(inbox)
    BY <2>1, <2>4, Received
  <2> QED BY <1>2, <2>2, <2>3, <2>4
<1>6. session # "TestInProgress" => UNCHANGED <<inbox, cleanup>>
  BY <1>2, <1>4 DEF Messages
<1>7. Threads'
  BY <1>2, <1>4 DEF Threads
<1>8. Messages'
  <2>1. \A i \in 1 .. Len(inbox') : inbox'[i].kind \in TestKinds /\ inbox'[i].spec # "zero"
    BY <1>4, <1>5 DEF Messages
  <2>2. /\ \A i \in 1 .. Len(program') : program'[i].op = "set_overtime"
        /\ OvertimeNotZero =>
             overtime' # "zero" /\ \A i \in 1 .. Len(program') : program'[i].spec # "zero"
    BY <1>2, <1>4 DEF Messages
  <2>3. session' # "TestInProgress" => inbox' = <<>> /\ cell' = NoToken /\ ~cleanup'
    BY <1>2, <1>4, <1>6 DEF Messages
  <2> QED BY <2>1, <2>2, <2>3 DEF Messages
<1>9. FirstToken' /\ TimerOnSocket'
  BY <1>2, <1>4, <1>5 DEF FirstToken, TimerOnSocket
<1>10. TakenOver'
  BY <1>2, <1>3, <1>4 DEF TakenOver, TestHandedOver
<1>11. Waiting'
  <2>1. main = "sendTimed" => cell # NoToken
    BY DEF ClientInv, Waiting
  <2> QED BY <1>2, <1>3, <2>1 DEF Waiting, Abandoned
<1> QED BY <1>1, <1>7, <1>8, <1>9, <1>10, <1>11 DEF ClientInv

\* The worker sets its overtime.
LEMMA SetupKeeps ==
    ASSUME ClientInv, UNCHANGED <<main, connection, stage, due>>, Setup PROVE ClientInv'
<1> DEFINE c == Head(program)
<1>1. IndInv /\ IndInv'
  <2>1. Next
    BY DEF Next, Loop
  <2> QED BY <2>1, NextInv DEF ClientInv
<1>2. /\ program \in Seq(Call) /\ program # <<>> /\ program' = Tail(program)
      /\ phase = "setup" /\ UNCHANGED <<phase, result, events, channel>>
  BY <1>1 DEF Setup, IndInv, TypeOK, ControlType
<1>3. /\ c = program[1] /\ 1 \in 1 .. Len(program)
      /\ \A i \in 1 .. Len(program') :
           program'[i] = program[i + 1] /\ i + 1 \in 1 .. Len(program)
  <2>1. Len(program) \in Nat /\ Len(program) # 0 /\ c = program[1]
    BY <1>2
  <2>2. /\ Len(program') = Len(program) - 1
        /\ \A i \in 1 .. Len(program) - 1 : program'[i] = program[i + 1]
    BY <1>2
  <2> QED BY <2>1, <2>2
<1>4. /\ \A i \in 1 .. Len(program) : program[i].op = "set_overtime"
      /\ OvertimeNotZero => \A i \in 1 .. Len(program) : program[i].spec # "zero"
      /\ OvertimeNotZero => overtime # "zero"
  BY DEF ClientInv, Messages
<1>5. c.op = "set_overtime" /\ (OvertimeNotZero => c.spec # "zero")
  BY <1>3, <1>4
<1>6. ApplyCall(c)
  BY DEF Setup
<1> HIDE DEF c
<1>7. /\ overtime' = c.spec
      /\ UNCHANGED <<registry, kernel, exceptions, cleanup, cleanupToken>>
  BY <1>5, <1>6 DEF ApplyCall
<1>8. EndInSight => EndInSight'
  BY <1>2, <1>7 DEF EndInSight, Ending, Timed, registry, kernel
<1>9. UNCHANGED <<sources, cleanup>>
  BY <1>7 DEF registry
<1> QED BY <1>1, <1>2, <1>3, <1>4, <1>5, <1>7, <1>8, <1>9, LoopGoesOn

\* The loop begins, polls, sends, sweeps, and a timer expires.
LEMMA TurnKeeps ==
    ASSUME ClientInv, UNCHANGED <<main, connection, stage, due>>,
           \/ StartRun \/ PollStep \/ Sweep
           \/ \E tok \in events : TimerOk(tok)
           \/ \E tok \in armed : Expire(tok)
    PROVE  ClientInv'
<1>1. IndInv /\ IndInv'
  <2>1. Next
    BY DEF Next, Loop, DispatchStep, Environment
  <2> QED BY <2>1, NextInv DEF ClientInv
<1>2. /\ UNCHANGED <<sources, cleanup, overtime, result>> /\ UNCHANGED program
      /\ UNCHANGED channel /\ phase # "ended" /\ phase' # "ended"
  BY DEF StartRun, PollStep, Sweep, unregister_timers, TimerOk, Take, Expire, registry,
         ending
<1>3. EndInSight => EndInSight'
  <2> USE DEF EndInSight, Ending, Timed, registry, kernel
  <2>1. CASE StartRun
    BY <2>1 DEF StartRun
  <2>2. CASE PollStep
    <3>1. events = {}
      BY <1>1, <2>2 DEF IndInv, BatchDispatched, PollStep
    <3> QED BY <2>2, <3>1 DEF PollStep
  <2>3. CASE Sweep
    <3>1. closed \cap Timed = {}
      BY <1>1 DEF IndInv, TypeOK, RegistryType, Polled
    <3> QED BY <2>3, <3>1 DEF Sweep, unregister_timers, Without
  <2>4. CASE \E tok \in events : TimerOk(tok)
    BY <2>4 DEF TimerOk, Take
  <2>5. CASE \E tok \in armed : Expire(tok)
    BY <2>5 DEF Expire
  <2> QED BY <2>1, <2>2, <2>3, <2>4, <2>5
<1>4. /\ \A i \in 1 .. Len(program') : program'[i].op = "set_overtime"
      /\ OvertimeNotZero =>
            overtime' # "zero" /\ \A i \in 1 .. Len(program') : program'[i].spec # "zero"
  BY <1>2 DEF ClientInv, Messages
<1> QED BY <1>1, <1>2, <1>3, <1>4, LoopGoesOn

\* The worker enters overtime: the timer of the overtime is the next to end it.
LEMMA OvertimeKeeps ==
    ASSUME ClientInv, UNCHANGED <<main, connection, stage, due>>,
           NEW tok \in events, EnterOvertime(tok)
    PROVE  ClientInv'
<1>1. IndInv /\ IndInv'
  <2>1. Next
    BY DEF Next, Loop, DispatchStep
  <2> QED BY <2>1, NextInv DEF ClientInv
<1>2. overtime # "none"
  BY <1>1 DEF IndInv, Stage, EnterOvertime, Take
<1>3. /\ UNCHANGED <<sources, cleanup, result, phase>> /\ UNCHANGED program
      /\ UNCHANGED channel /\ phase = "dispatch" /\ overtime' = "none"
  BY <1>2 DEF EnterOvertime, Take
<1>4. OvertimeNotZero => EndInSight'
  <2>1. nextToken \in Nat /\ nextToken \notin sources \cup Timed
    BY <1>1 DEF IndInv, TypeOK, RegistryType, Issued, Token
  <2>2. OvertimeNotZero => nextToken \in armed' /\ nextToken \in epoll'
    BY <1>2 DEF EnterOvertime, ClientInv, Messages
  <2>3. nextToken \notin sources' \cup Timed'
    BY <1>3, <2>1 DEF EnterOvertime, Without, Timed
  <2> QED BY <2>2, <2>3 DEF EndInSight, Ending
<1>5. /\ \A i \in 1 .. Len(program') : program'[i].op = "set_overtime"
      /\ OvertimeNotZero =>
            overtime' # "zero" /\ \A i \in 1 .. Len(program') : program'[i].spec # "zero"
  BY <1>3 DEF ClientInv, Messages
<1> QED BY <1>1, <1>3, <1>4, <1>5, LoopGoesOn

-----------------------------------------------------------------------------
(* Theorems.                                                               *)

\* The invariant holds when the process starts.
LEMMA ClientInitInv == ClientInit => ClientInv
<1> SUFFICES ASSUME ClientInit PROVE ClientInv
  OBVIOUS
<1>1. IndInv
  BY InitInv DEF ClientInit
<1>2. /\ Init /\ ControlLoop!LifeInit
      /\ main = "connect" /\ session = "AwaitingServerGreeting"
  BY DEF ClientInit
<1>3. Threads
  BY <1>2 DEF ClientInit, Init, Threads, InTest, BeforeTimer, Guarded,
              ControlLoop!LifeInit
<1>4. Messages
  <2>1. PICK use \in Programs : program = use.calls
    BY <1>2 DEF Init
  <2>2. /\ inbox = <<>> /\ Len(inbox) = 0 /\ cell = NoToken
        /\ ~cleanup /\ overtime = "oneshot"
    BY <1>2 DEF Init
  <2>3. \A i \in 1 .. Len(program) : program[i].op = "set_overtime"
    BY <2>1, WorkerAssumption
  <2>4. OvertimeNotZero => \A i \in 1 .. Len(program) : program[i].spec # "zero"
    BY <2>1 DEF OvertimeNotZero
  <2> QED BY <2>2, <2>3, <2>4 DEF Messages
<1>5. FirstToken /\ TimerOnSocket /\ TakenOver /\ Waiting
  BY <1>2 DEF Init, FirstToken, TimerOnSocket, TakenOver, TestHandedOver, Waiting,
              BeforeTimer, InTest
<1> QED BY <1>1, <1>3, <1>4, <1>5 DEF ClientInv

\* Every step of either thread keeps the invariant.
LEMMA ClientNextInv == ClientInv /\ [ClientNext]_clientVars => ClientInv'
<1> SUFFICES ASSUME ClientInv, [ClientNext]_clientVars PROVE ClientInv'
  OBVIOUS
<1>1. CASE Handshake \/ ControlDeadline
  BY <1>1, ControlKeeps
<1>2. CASE MainStep
  BY <1>2, PlaceKeeps, LockKeeps, SendsKeep, UnlockKeeps, UnparkKeeps, ControlKeeps
     DEF MainStep
<1>3. CASE WorkerLoop
  BY <1>3, SetupKeeps, TurnKeeps, DrainKeeps, FinishCleanupKeeps, OvertimeKeeps,
     FailureKeeps DEF WorkerLoop
<1>4. CASE \E tok \in armed : WorkerTimer(tok)
  BY <1>4, TurnKeeps DEF WorkerTimer
<1>5. CASE UNCHANGED clientVars
  <2>1. /\ UNCHANGED <<phase, result, program, events, registry, kernel, ending>>
        /\ UNCHANGED <<inbox, cell, held, unparked, sends>>
        /\ UNCHANGED <<main, stage, due>>
        /\ UNCHANGED <<session, connected, owed, closedByServer, reset, family>>
    BY <1>5 DEF clientVars, worker, connection, channel
  <2>2. held' \in BOOLEAN
    BY <2>1, ChannelTyped DEF ClientInv, ChannelType
  <2>3. Threads'
    BY <2>1 DEF ClientInv, Threads
  <2>4. Move
    BY <2>1, <2>3 DEF Move, ClientInv, FirstToken, TakenOver, TestHandedOver, Waiting
  <2> QED BY <2>1, <2>2, <2>4, Unseen
<1> QED
  BY <1>1, <1>2, <1>3, <1>4, <1>5 DEF ClientNext, Waits, ExecuteReturned

\* The invariant holds of every reachable state.
LEMMA ClientInductive == ClientSpec => []ClientInv
  BY ClientInitInv, ClientNextInv, PTL DEF ClientSpec

\* The types of the client: the main thread holds the mutex exactly between
\* try_lock() and the end of the guard's scope, on every path of transition(),
\* and a test only runs between addresses of one version.
THEOREM ClientTypeCorrect == ClientSpec => []ClientTypeOK
<1>1. ClientInv => ClientTypeOK
  BY DEF ClientInv, IndInv, Threads, Guarded, ClientTypeOK
<1> QED BY <1>1, ClientInductive, PTL

\* Whenever the main thread waits for a token or in park(), the worker still has
\* the message that it will answer, unless its run() failed (it lost the race for
\* the mutex, or on an error of the system) or, with the stream closed, came to its
\* own cleanup.  Any number of messages may be
\* sent, and the server may do as it likes.
THEOREM NeverWaitsForNobody == ClientSpec => []WaitsForSomeone
<1>1. ClientInv => WaitsForSomeone
  BY DEF ClientInv, Waiting, WaitsForSomeone
<1> QED BY <1>1, ClientInductive, PTL

\* As long as the server has not closed the connection, the token that the main
\* thread has polled for is that of the test's socket, and the worker still has
\* that socket when it registers the sending timer.
THEOREM TimerFindsSocket == ClientSpec => []TimerOnSocket
<1>1. ClientInv => TimerOnSocket
  BY DEF ClientInv
<1> QED BY <1>1, ClientInductive, PTL

\* If last_message_timeout is not zero, join() waits for a worker that has a timer
\* left to end it, or else the test was never handed over.
THEOREM JoinWillEnd == ASSUME OvertimeNotZero PROVE ClientSpec => []JoinEnds
<1>1. ASSUME ClientInv PROVE JoinEnds
  BY <1>1 DEF ClientInv, TakenOver, TestHandedOver, JoinEnds, EndInSight
<1> QED BY <1>1, ClientInductive, PTL

\* In the hands of the two threads the worker's loop lives as LoopLife says: what
\* the main thread does to the channel is no step of that life.
THEOREM WorkerLives == ClientSpec => L!LifeSafe
<1>1. ClientInit => L!LifeInit
  BY DEF ClientInit, Init, L!LifeInit, LoopStage, DeadlinePassed
<1>2. ASSUME ClientInv, ClientInv', [ClientNext]_clientVars
      PROVE  [L!LifeNext]_(L!lifeVars)
  <2>1. \/ Next
        \/ UNCHANGED <<phase, result, program, events, registry, kernel, ending>>
    <3>1. CASE Handshake \/ ControlDeadline
      BY <3>1 DEF Handshake, ControlDeadline, ReceiveGreeting, ReceiveServerStart,
                  ReceiveAcceptance, ReceiveStartAck, ReceiveEof, ReceiveReset,
                  Hear, worker
    <3>2. CASE MainStep
      BY <3>2 DEF MainStep, Connect, ConnectFails, create_udp_socket, LockRegister, SendRegister,
                  UnlockRegister, LockPoll, GetToken, PollAgain, SendTimed, UnlockTimed,
                  LockCleanup, SendCleanup, UnlockCleanup, Unpark, StopSessions, TryLock,
                  Send, Unlock, At, ControlOvertime, ControlEnds, Join, worker
    <3>3. CASE WorkerLoop \/ \E tok \in armed : WorkerTimer(tok)
      BY <3>3 DEF WorkerLoop, WorkerTimer, Next, Loop, Drain, DispatchStep, Environment
    <3>4. CASE UNCHANGED clientVars
      BY <3>4 DEF clientVars, worker
    <3> QED
      BY <1>2, <3>1, <3>2, <3>3, <3>4 DEF ClientNext, Waits, ExecuteReturned
  <2>2. CASE Next
    BY <1>2, <2>2, NextLife DEF ClientInv
  <2>3. CASE UNCHANGED <<phase, result, program, events, registry, kernel, ending>>
    BY <2>3 DEF L!lifeVars, LoopStage, DeadlinePassed, OvertimeTimer, Ending, Timed,
                registry, kernel, ending
  <2> QED BY <2>1, <2>2, <2>3
<1> QED BY <1>1, <1>2, ClientInductive, PTL DEF ClientSpec, L!LifeSafe
=============================================================================
