-------------------------- MODULE EventLoopProofs --------------------------
(***************************************************************************)
(* Proofs about the event loop, for every set of programs and messages and *)
(* every bound on the number of messages.                                  *)
(***************************************************************************)
EXTENDS EventLoop, TLAPS

-----------------------------------------------------------------------------
(* Types.                                                                  *)

\* The initial state is well typed.
LEMMA InitType == Init => TypeOK
<1> SUFFICES ASSUME Init PROVE TypeOK
  OBVIOUS
<1>1. RegistryType
  BY DEF Init, RegistryType, Token, Timed
<1>2. ControlType
  BY ProgramsAssumption DEF Init, ControlType, Specs
<1>3. ChannelType
  <2>1. inbox \in Seq(Message)
    BY DEF Init
  <2>2. sends \in 0..MaxSends
    BY ProgramsAssumption DEF Init
  <2> QED BY <2>1, <2>2 DEF Init, ChannelType
<1> QED BY <1>1, <1>2, <1>3 DEF TypeOK

\* Registering a source keeps the tables well typed.
LEMMA RegisterType ==
    ASSUME RegistryType, register_event_source
    PROVE  RegistryType'
  BY DEF RegistryType, register_event_source, generate_token, Token, Timed

\* Registering a timer keeps the tables well typed.
LEMMA RegisterTimerType ==
    ASSUME RegistryType, NEW spec, NEW tok \in Token, register_timer(spec, tok)
    PROVE  RegistryType'
  BY DEF RegistryType, register_timer, new_timer, generate_token, Token, Timed

\* Adding a deadline keeps the tables well typed.
LEMMA DurationType ==
    ASSUME RegistryType, NEW spec, add_duration(spec)
    PROVE  RegistryType'
  BY DEF RegistryType, add_duration, new_timer, generate_token, Token, Timed

\* Unregistering a source keeps the tables well typed.
LEMMA UnregisterType ==
    ASSUME RegistryType, NEW tok, unregister_event_source(tok)
    PROVE  RegistryType'
  BY DEF RegistryType, unregister_event_source, Token, Timed

\* Receiving a message yields a message and leaves a well typed channel.
LEMMA ReceiveType ==
    ASSUME ChannelType, NEW kind, Receive(kind)
    PROVE  /\ Head(inbox) \in Message /\ Head(inbox).tok \in Token
           /\ inbox' \in Seq(Message) /\ held' \in BOOLEAN /\ sends' \in 0..MaxSends
<1>1. inbox \in Seq(Message) /\ inbox # <<>>
  BY DEF ChannelType, Receive
<1>2. Head(inbox) \in Message /\ Tail(inbox) \in Seq(Message)
  BY <1>1
<1>3. Head(inbox).tok \in Token
  BY <1>2 DEF Message
<1> QED BY <1>2, <1>3 DEF ChannelType, Receive

\* A call made before run() keeps the tables and the options well typed.
LEMMA CallType ==
    ASSUME TypeOK, NEW c \in Call, ApplyCall(c)
    PROVE  /\ RegistryType'
           /\ overtime' \in Specs \cup {"none"} /\ exceptions' \subseteq Token
           /\ cleanup' \in BOOLEAN /\ cleanupToken' \in Token \cup {NoToken}
<1>1. CASE c.op = "register_event_source" /\ register_event_source /\ UNCHANGED ending
  BY <1>1, RegisterType DEF TypeOK, ControlType, ending
<1>2. CASE c.op = "register_timer" /\ register_timer(c.spec, c.tok) /\ UNCHANGED ending
  BY <1>2, RegisterTimerType DEF TypeOK, ControlType, ending, Call
<1>3. CASE c.op = "add_duration" /\ add_duration(c.spec) /\ UNCHANGED ending
  BY <1>3, DurationType DEF TypeOK, ControlType, ending
<1>4. CASE c.op = "add_cleanup" /\ add_cleanup(c.spec)
  BY <1>4, DurationType DEF TypeOK, RegistryType, ControlType, add_cleanup
<1>5. CASE /\ c.op = "set_overtime" /\ overtime' = c.spec
           /\ UNCHANGED <<registry, kernel, exceptions, cleanup, cleanupToken>>
  BY <1>5 DEF TypeOK, RegistryType, ControlType, Call, Timed, registry, kernel
<1>6. CASE /\ c.op = "add_overtime_exception" /\ exceptions' = exceptions \cup {c.tok}
           /\ UNCHANGED <<registry, kernel, overtime, cleanup, cleanupToken>>
  BY <1>6 DEF TypeOK, RegistryType, ControlType, Call, Timed, registry, kernel
<1> QED BY <1>1, <1>2, <1>3, <1>4, <1>5, <1>6 DEF ApplyCall

\* Every step of the loop and of its environment keeps the state well typed.
LEMMA NextType == TypeOK /\ [Next]_vars => TypeOK'
<1> SUFFICES ASSUME TypeOK, [Next]_vars PROVE TypeOK'
  OBVIOUS
<1> USE DEF TypeOK
<1>1. CASE StartRun
  BY <1>1 DEF StartRun, RegistryType, ControlType, ChannelType, Timed,
              registry, kernel, ending, channel
<1>2. CASE Setup
  <2>1. Head(program) \in Call /\ program' \in Seq(Call)
    BY <1>2 DEF Setup, ControlType
  <2> QED
    BY <1>2, <2>1, CallType DEF Setup, ControlType, ChannelType, channel
<1>3. CASE HandleRegister
  BY <1>3, RegisterType, ReceiveType
     DEF HandleRegister, Publish, Return, Receive, RegistryType, ControlType,
         ChannelType, ending
<1>4. CASE HandleUnregister
  <2>1. RegistryType'
    <3>1. CASE Head(inbox).tok \in sources
      BY <1>4, <3>1, UnregisterType DEF HandleUnregister
    <3>2. CASE Head(inbox).tok \notin sources
      BY <1>4, <3>2 DEF HandleUnregister, RegistryType, Timed, registry, kernel
    <3> QED BY <3>1, <3>2
  <2>2. ControlType' /\ ChannelType'
    BY <1>4, ReceiveType
       DEF HandleUnregister, Return, Receive, ControlType, ChannelType, ending
  <2> QED BY <2>1, <2>2
<1>5. CASE HandleRegisterTimed
  BY <1>5, RegisterTimerType, ReceiveType
     DEF HandleRegisterTimed, Publish, Return, Receive, RegistryType,
         ControlType, ChannelType, ending
<1>6. CASE HandleClean
  BY <1>6, ReceiveType
     DEF HandleClean, Receive, RegistryType, ControlType, ChannelType, ending, Timed
<1>7. CASE HandleAddDuration
  BY <1>7, DurationType, ReceiveType
     DEF HandleAddDuration, Publish, Return, Receive, RegistryType,
         ControlType, ChannelType, ending
<1>8. CASE HandleTimedCleanup
  BY <1>8, DurationType, ReceiveType
     DEF HandleTimedCleanup, add_cleanup, Publish, Return, Receive,
         RegistryType, ControlType, ChannelType
<1>9. CASE PollStep
  BY <1>9 DEF PollStep, RegistryType, ControlType, ChannelType, Timed,
              registry, ending, channel
<1>10. CASE DispatchStep
  <2> PICK tok \in events :
        \/ SourceOk(tok) \/ SourceCloses(tok) \/ SourceSends(tok)
        \/ SourceErr(tok) \/ TimerOk(tok) \/ TimerErr(tok)
        \/ TimerWithoutSource(tok) \/ Finish(tok) \/ FinishCleanup(tok)
        \/ EnterOvertime(tok) \/ OvertimeFails(tok)
    BY <1>10 DEF DispatchStep
  <2> USE DEF Take, Return
  <2>1. CASE SourceOk(tok) \/ TimerErr(tok) \/ TimerWithoutSource(tok) \/ Finish(tok)
    BY <2>1 DEF SourceOk, TimerErr, TimerWithoutSource, Finish, RegistryType,
                ControlType, ChannelType, Timed, registry, kernel, ending, channel
  <2>2. CASE SourceCloses(tok) \/ TimerOk(tok)
    BY <2>2 DEF SourceCloses, TimerOk, RegistryType, ControlType, ChannelType,
                Timed, registry, ending, channel
  <2>3. CASE SourceSends(tok)
    <3>1. inbox' \in Seq(Message)
      BY <2>3, MessagesAssumption
         DEF SourceSends, ChannelType, ControlType, Message, Template
    <3>2. sends' \in 0..MaxSends
      BY <2>3, BoundAssumption DEF SourceSends, ChannelType
    <3> QED
      BY <2>3, <3>1, <3>2 DEF SourceSends, RegistryType, ControlType,
            ChannelType, Timed, registry, kernel, ending
  <2>4. CASE SourceErr(tok)
    BY <2>4, UnregisterType DEF SourceErr, ControlType, ChannelType, ending, channel
  <2>5. CASE FinishCleanup(tok)
    BY <2>5 DEF FinishCleanup, unregister_timers, Without, RegistryType,
                ControlType, ChannelType, Timed, channel
  <2>6. CASE EnterOvertime(tok)
    <3>1. RegistryType'
      BY <2>6 DEF EnterOvertime, Without, generate_token, RegistryType, Timed, Token
    <3>2. ControlType' /\ ChannelType'
      BY <2>6 DEF EnterOvertime, ControlType, ChannelType, RegistryType, channel
    <3> QED BY <3>1, <3>2
  <2>7. CASE OvertimeFails(tok)
    BY <2>7 DEF OvertimeFails, unregister_timers, Without, generate_token,
          RegistryType, ControlType, ChannelType, Timed, Token, channel
  <2> QED BY <2>1, <2>2, <2>3, <2>4, <2>5, <2>6, <2>7
<1>11. CASE Sweep
  BY <1>11 DEF Sweep, unregister_timers, Without, RegistryType, ControlType,
               ChannelType, Timed, ending, channel
<1>12. CASE \E tok \in armed : Expire(tok)
  BY <1>12 DEF Expire, RegistryType, ControlType, ChannelType, Timed, registry,
               ending, channel
<1>13. CASE \E tok \in sources : Arrive(tok)
  BY <1>13 DEF Arrive, RegistryType, ControlType, ChannelType, Timed, registry,
               ending, channel
<1>14. CASE PeerLock \/ PeerUnlock
  BY <1>14 DEF PeerLock, PeerUnlock, RegistryType, ControlType, ChannelType,
               Timed, registry, kernel, ending
<1>15. CASE PeerSend
  <2>1. inbox' \in Seq(Message)
    BY <1>15, MessagesAssumption
       DEF PeerSend, ChannelType, Message, Template, Token
  <2>2. sends' \in 0..MaxSends
    BY <1>15, BoundAssumption DEF PeerSend, ChannelType
  <2> QED
    BY <1>15, <2>1, <2>2 DEF PeerSend, RegistryType, ControlType, ChannelType,
          Timed, registry, kernel, ending
<1>16. CASE Returned \/ UNCHANGED vars
  BY <1>16 DEF Returned, vars, RegistryType, ControlType, ChannelType, Timed,
               registry, kernel, ending, channel
<1>17. CASE RegistrationFails
  <2>1. inbox' \in Seq(Message)
    BY <1>17 DEF RegistrationFails, ChannelType
  <2> QED
    BY <1>17, <2>1 DEF RegistrationFails, Return, generate_token, RegistryType,
          ControlType, ChannelType, Timed, Token, kernel
<1>18. CASE PollFails
  BY <1>18 DEF PollFails, Return, RegistryType, ControlType, ChannelType, Timed,
               registry, kernel, ending, channel
<1> QED
  BY <1>1, <1>2, <1>3, <1>4, <1>5, <1>6, <1>7, <1>8, <1>9, <1>10, <1>11, <1>12,
     <1>13, <1>14, <1>15, <1>16, <1>17, <1>18 DEF Next, Loop, Drain, Environment

\* The tables of the event loop, the kernel's lists and the channel always hold
\* values of their types.
THEOREM TypeCorrect == Spec => []TypeOK
  BY InitType, NextType, PTL DEF Spec

-----------------------------------------------------------------------------
(* The tables agree with the interest list.                                *)

\* What the tables, the interest list and the armed timers satisfy together.
Tables == Issued /\ Polled /\ EdgesExpired

\* Registering a source keeps the tables in agreement with the interest list.
LEMMA RegisterTables ==
    ASSUME TypeOK, Tables, register_event_source,
           UNCHANGED events, UNCHANGED cleanupToken
    PROVE  Tables'
  BY DEF TypeOK, RegistryType, ControlType, Tables, Issued, Polled, EdgesExpired,
         register_event_source, generate_token, Timed, Token

\* Registering a timer keeps the tables in agreement with the interest list.
LEMMA RegisterTimerTables ==
    ASSUME TypeOK, Tables, NEW spec, NEW tok \in Token,
           register_timer(spec, tok), UNCHANGED events, UNCHANGED cleanupToken
    PROVE  Tables'
  BY DEF TypeOK, RegistryType, ControlType, Tables, Issued, Polled, EdgesExpired,
         register_timer, new_timer, generate_token, Timed, Token

\* Adding a timer that is in no table keeps them in agreement.
LEMMA DurationTables ==
    ASSUME TypeOK, Tables, NEW spec, add_duration(spec), UNCHANGED events,
           cleanupToken' \in {cleanupToken, nextToken}
    PROVE  Tables'
  BY DEF TypeOK, RegistryType, ControlType, Tables, Issued, Polled, EdgesExpired,
         add_duration, new_timer, generate_token, Timed, Token

\* Unregistering a source keeps the tables in agreement with the interest list.
LEMMA UnregisterTables ==
    ASSUME TypeOK, Tables, NEW tok \in sources, unregister_event_source(tok),
           events' \subseteq events \ {tok}, UNCHANGED cleanupToken
    PROVE  Tables'
  BY DEF TypeOK, RegistryType, ControlType, Tables, Issued, Polled, EdgesExpired,
         unregister_event_source, Timed, Token

\* There is a batch only while it is dispatched.
LEMMA NextBatch == BatchDispatched /\ [Next]_vars => BatchDispatched'
<1> SUFFICES ASSUME BatchDispatched, [Next]_vars PROVE BatchDispatched'
  OBVIOUS
<1> USE DEF BatchDispatched
<1>1. CASE StartRun \/ Setup \/ PollStep \/ PollFails \/ Sweep
  BY <1>1 DEF StartRun, Setup, PollStep, PollFails, Return, Sweep
<1>2. CASE Drain
  BY <1>2 DEF Drain, HandleRegister, HandleUnregister, HandleRegisterTimed,
              HandleClean, HandleAddDuration, HandleTimedCleanup,
              RegistrationFails, Receive, Publish, Return
<1>3. CASE DispatchStep
  BY <1>3 DEF DispatchStep, SourceOk, SourceCloses, SourceSends, SourceErr,
              TimerOk, TimerErr, TimerWithoutSource, Finish, FinishCleanup,
              EnterOvertime, OvertimeFails, Take, Return
<1>4. CASE Environment \/ Returned \/ UNCHANGED vars
  BY <1>4 DEF Environment, Expire, Arrive, PeerLock, PeerSend, PeerUnlock,
              Returned, vars
<1> QED BY <1>1, <1>2, <1>3, <1>4 DEF Next, Loop

\* Every step keeps the tables in agreement with the interest list.
LEMMA NextTables ==
    TypeOK /\ BatchDispatched /\ Tables /\ [Next]_vars => Tables'
<1> SUFFICES ASSUME TypeOK, BatchDispatched, Tables, [Next]_vars PROVE Tables'
  OBVIOUS
<1> DEFINE Same == UNCHANGED <<nextToken, sources, closed, Timed, unlisted,
                               armed, expired, periodic, epoll, cleanupToken>>
<1>0. ASSUME Same, ready' \cup events' \subseteq ready \cup events, 
             events' \subseteq events \cup ready
      PROVE  Tables'
  BY <1>0 DEF TypeOK, RegistryType, ControlType, Tables, Issued, Polled,
              EdgesExpired, Timed, Token
<1>1. CASE StartRun
  BY <1>1, <1>0 DEF StartRun, registry, kernel, ending, Timed
<1>2. CASE Setup
  <2> DEFINE c == Head(program)
  <2>1. c \in Call /\ UNCHANGED events /\ ApplyCall(c)
    BY <1>2 DEF Setup, TypeOK, ControlType
  <2>2. CASE register_event_source /\ UNCHANGED ending
    BY <2>1, <2>2, RegisterTables DEF ending
  <2>3. CASE register_timer(c.spec, c.tok) /\ UNCHANGED ending
    BY <2>1, <2>3, RegisterTimerTables DEF ending, Call
  <2>4. CASE add_duration(c.spec) /\ UNCHANGED ending
    BY <2>1, <2>4, DurationTables DEF ending
  <2>5. CASE add_cleanup(c.spec)
    BY <2>1, <2>5, DurationTables DEF add_cleanup
  <2>6. CASE UNCHANGED <<registry, kernel, cleanupToken>>
    BY <2>1, <2>6, <1>0 DEF registry, kernel, Timed
  <2> QED BY <2>1, <2>2, <2>3, <2>4, <2>5, <2>6 DEF ApplyCall
<1>3. CASE HandleRegister
  BY <1>3, RegisterTables DEF HandleRegister, Receive, ending
<1>4. CASE HandleUnregister
  <2>1. CASE Head(inbox).tok \in sources
    BY <1>4, <2>1, UnregisterTables
       DEF HandleUnregister, Receive, BatchDispatched, ending
  <2>2. CASE Head(inbox).tok \notin sources
    BY <1>4, <2>2, <1>0 DEF HandleUnregister, Receive, registry, kernel, ending, Timed
  <2> QED BY <2>1, <2>2
<1>5. CASE HandleRegisterTimed
  BY <1>5, RegisterTimerTables, ReceiveType
     DEF HandleRegisterTimed, Receive, ending, TypeOK
<1>6. CASE HandleClean
  BY <1>6 DEF HandleClean, Receive, ending, TypeOK, RegistryType, ControlType,
              Tables, Issued, Polled, EdgesExpired, Timed, Token
<1>7. CASE HandleAddDuration
  BY <1>7, DurationTables DEF HandleAddDuration, Receive, ending
<1>8. CASE HandleTimedCleanup
  BY <1>8, DurationTables DEF HandleTimedCleanup, add_cleanup, Receive
<1>9. CASE PollStep \/ PollFails
  BY <1>9, <1>0 DEF PollStep, PollFails, registry, kernel, ending, Timed
<1>10. CASE DispatchStep
  <2> PICK tok \in events :
        \/ SourceOk(tok) \/ SourceCloses(tok) \/ SourceSends(tok)
        \/ SourceErr(tok) \/ TimerOk(tok) \/ TimerErr(tok)
        \/ TimerWithoutSource(tok) \/ Finish(tok) \/ FinishCleanup(tok)
        \/ EnterOvertime(tok) \/ OvertimeFails(tok)
    BY <1>10 DEF DispatchStep
  <2> USE DEF Take
  <2>1. CASE \/ SourceOk(tok) \/ SourceSends(tok) \/ TimerErr(tok)
             \/ TimerWithoutSource(tok) \/ Finish(tok)
    BY <2>1, <1>0 DEF SourceOk, SourceSends, TimerErr,
          TimerWithoutSource, Finish, registry, kernel, ending, Timed
  <2>2. CASE SourceCloses(tok)
    BY <2>2 DEF SourceCloses, ending, TypeOK, RegistryType, ControlType, Tables,
                Issued, Polled, EdgesExpired, Timed, Token
  <2>3. CASE SourceErr(tok)
    BY <2>3, UnregisterTables DEF SourceErr, ending
  <2>4. CASE FinishCleanup(tok)
    BY <2>4 DEF FinishCleanup, Return, unregister_timers, Without, TypeOK,
                RegistryType, ControlType, Tables, Issued, Polled, EdgesExpired,
                Timed, Token
  <2>5. CASE EnterOvertime(tok)
    BY <2>5 DEF EnterOvertime, Without, generate_token, TypeOK, RegistryType,
                ControlType, Tables, Issued, Polled, EdgesExpired, Timed, Token
  <2>6. CASE TimerOk(tok)
    BY <2>6 DEF TimerOk, registry, ending, TypeOK, RegistryType, ControlType,
                Tables, Issued, Polled, EdgesExpired, Timed, Token
  <2>7. CASE OvertimeFails(tok)
    BY <2>7 DEF OvertimeFails, unregister_timers, Without, generate_token, TypeOK,
                RegistryType, ControlType, Tables, Issued, Polled, EdgesExpired,
                Timed, Token
  <2> QED BY <2>1, <2>2, <2>3, <2>4, <2>5, <2>6, <2>7
<1>11. CASE Sweep
  BY <1>11 DEF Sweep, unregister_timers, Without, ending, TypeOK, RegistryType,
               ControlType, Tables, Issued, Polled, EdgesExpired, Timed, Token
<1>12. CASE \E tok \in armed : Expire(tok)
  BY <1>12 DEF Expire, registry, ending, TypeOK, RegistryType, ControlType,
               Tables, Issued, Polled, EdgesExpired, Timed, Token
<1>13. CASE \E tok \in sources : Arrive(tok)
  BY <1>13 DEF Arrive, registry, ending, TypeOK, RegistryType, ControlType,
               Tables, Issued, Polled, EdgesExpired, Timed, Token
<1>14. CASE PeerLock \/ PeerUnlock \/ PeerSend \/ Returned \/ UNCHANGED vars
  BY <1>14, <1>0 DEF PeerLock, PeerUnlock, PeerSend, Returned, vars, registry,
                     kernel, ending, Timed
<1>15. CASE RegistrationFails
  BY <1>15 DEF RegistrationFails, generate_token, kernel, TypeOK, RegistryType,
               ControlType, Tables, Issued, Polled, EdgesExpired, Timed, Token
<1> QED
  BY <1>1, <1>2, <1>3, <1>4, <1>5, <1>6, <1>7, <1>8, <1>9, <1>10, <1>11, <1>12,
     <1>13, <1>14, <1>15 DEF Next, Loop, Drain, Environment

-----------------------------------------------------------------------------
(* How the run ends.                                                       *)

\* The invariant holds initially.
LEMMA InitInv == Init => IndInv
<1> SUFFICES ASSUME Init PROVE IndInv
  OBVIOUS
<1>1. TypeOK
  BY InitType
<1>2. Tables /\ BatchDispatched
  BY DEF Init, Tables, Issued, Polled, EdgesExpired, BatchDispatched, Timed
<1>3. /\ Stage /\ NoPanic /\ OvertimeDropsTimers /\ BatchFresh
      /\ OvertimeAfterDeadline /\ CleanupUnlisted
  BY DEF Init, Stage, NoPanic, OvertimeDropsTimers, BatchFresh,
         OvertimeAfterDeadline, CleanupUnlisted, Timed
<1> QED BY <1>1, <1>2, <1>3 DEF IndInv, Tables

\* The parts of the invariant that say how far the run has come.
Progress ==
    /\ Stage /\ CleanupUnlisted /\ NoPanic /\ OvertimeDropsTimers /\ BatchFresh
    /\ OvertimeAfterDeadline

\* Every step keeps what the invariant says of overtime, cleanup and result.
LEMMA NextProgress ==
    TypeOK /\ BatchDispatched /\ Tables /\ Progress /\ [Next]_vars => Progress'
<1> SUFFICES ASSUME TypeOK, BatchDispatched, Tables, Progress, [Next]_vars
             PROVE  Progress'
  OBVIOUS
<1>a. TypeOK' /\ Tables'
  BY NextType, NextTables
<1> USE <1>a DEF TypeOK, RegistryType, ControlType, Tables, Issued, Polled,
         EdgesExpired, Progress, Stage, CleanupUnlisted, NoPanic,
         OvertimeDropsTimers, BatchFresh, OvertimeAfterDeadline, DeadlinePassed,
         OvertimeTimer, Ending, Timed, Token
<1>1. CASE StartRun
  BY <1>1 DEF StartRun, registry, kernel, ending
<1>2. CASE Setup
  <2> DEFINE c == Head(program)
  <2>1. /\ c \in Call /\ UNCHANGED <<events, phase, result>> /\ ApplyCall(c)
        /\ phase = "setup"
    BY <1>2 DEF Setup
  <2>2. overtime' # "none" 
    BY <2>1 DEF ApplyCall, add_cleanup, ending, Call, Specs
  <2>3. CASE add_cleanup(c.spec)
    BY <2>1, <2>2, <2>3, NoTokenAssumption DEF add_cleanup
  <2>4. CASE UNCHANGED <<cleanup, cleanupToken>>
    BY <2>1, <2>2, <2>4, NoTokenAssumption
  <2> QED BY <2>1, <2>3, <2>4 DEF ApplyCall, ending
<1>3. CASE HandleRegister
  BY <1>3 DEF HandleRegister, Receive, Publish, Return, register_event_source,
              generate_token, ending
<1>4. CASE HandleUnregister
  BY <1>4 DEF HandleUnregister, Receive, Return, unregister_event_source,
              registry, kernel, ending
<1>5. CASE HandleRegisterTimed
  BY <1>5, NoTokenAssumption
     DEF HandleRegisterTimed, Receive, Publish, Return, register_timer,
         new_timer, generate_token, ending
<1>6. CASE HandleClean
  BY <1>6 DEF HandleClean, Receive, ending
<1>7. CASE HandleAddDuration
  BY <1>7 DEF HandleAddDuration, Receive, Publish, Return, add_duration,
              new_timer, generate_token, ending
<1>8. CASE HandleTimedCleanup
  BY <1>8, NoTokenAssumption
     DEF HandleTimedCleanup, Receive, Publish, Return, add_cleanup,
         add_duration, new_timer, generate_token
<1>9. CASE PollStep \/ PollFails
  BY <1>9 DEF PollStep, PollFails, Return, registry, kernel, ending
<1>10. CASE DispatchStep
  <2> PICK tok \in events :
        \/ SourceOk(tok) \/ SourceCloses(tok) \/ SourceSends(tok)
        \/ SourceErr(tok) \/ TimerOk(tok) \/ TimerErr(tok)
        \/ TimerWithoutSource(tok) \/ Finish(tok) \/ FinishCleanup(tok)
        \/ EnterOvertime(tok) \/ OvertimeFails(tok)
    BY <1>10 DEF DispatchStep
  <2> USE DEF Take, Return
  <2>1. CASE \/ SourceOk(tok) \/ SourceSends(tok) \/ TimerOk(tok) \/ TimerErr(tok)
             \/ TimerWithoutSource(tok) \/ Finish(tok)
    BY <2>1 DEF SourceOk, SourceSends, TimerOk, TimerErr, TimerWithoutSource,
          Finish, registry, kernel, ending
  <2>2. CASE SourceCloses(tok)
    BY <2>2 DEF SourceCloses, ending
  <2>3. CASE SourceErr(tok)
    BY <2>3 DEF SourceErr, unregister_event_source, ending
  <2>4. CASE FinishCleanup(tok)
    BY <2>4 DEF FinishCleanup
  <2>5. CASE EnterOvertime(tok)
    BY <2>5, NoTokenAssumption DEF EnterOvertime, Unknown, Without, generate_token
  <2>6. CASE OvertimeFails(tok)
    BY <2>6 DEF OvertimeFails, unregister_timers, Without, generate_token
  <2> QED BY <2>1, <2>2, <2>3, <2>4, <2>5, <2>6
<1>11. CASE Sweep
  BY <1>11 DEF Sweep, unregister_timers, Without, ending
<1>12. CASE \E tok \in armed : Expire(tok)
  BY <1>12 DEF Expire, registry, ending
<1>13. CASE \E tok \in sources : Arrive(tok)
  BY <1>13 DEF Arrive, registry, ending
<1>14. CASE PeerLock \/ PeerUnlock \/ PeerSend \/ Returned \/ UNCHANGED vars
  BY <1>14 DEF PeerLock, PeerUnlock, PeerSend, Returned, vars, registry, kernel,
               ending
<1>15. CASE RegistrationFails
  BY <1>15 DEF RegistrationFails, Return, generate_token, kernel
<1> QED
  BY <1>1, <1>2, <1>3, <1>4, <1>5, <1>6, <1>7, <1>8, <1>9, <1>10, <1>11, <1>12,
     <1>13, <1>14, <1>15 DEF Next, Loop, Drain, Environment

\* The invariant is inductive.
LEMMA NextInv == IndInv /\ [Next]_vars => IndInv'
<1> SUFFICES ASSUME IndInv, [Next]_vars PROVE IndInv'
  OBVIOUS
<1>1. TypeOK /\ BatchDispatched /\ Tables /\ Progress
  BY DEF IndInv, Tables, Progress
<1>2. TypeOK' /\ BatchDispatched' /\ Tables' /\ Progress'
  BY <1>1, NextType, NextBatch, NextTables, NextProgress
<1> QED BY <1>2 DEF IndInv, Tables, Progress

\* The invariant holds of every reachable state.
THEOREM Inductive == Spec => []IndInv
  BY InitInv, NextInv, PTL DEF Spec

\* While it runs, the loop polls every open source and every timer in its table,
\* and no token names two descriptors.
THEOREM AlwaysPolled == Spec => []Polled
<1>1. IndInv => Polled
  BY DEF IndInv
<1> QED BY <1>1, Inductive, PTL

\* take().expect("No overtime") never panics.
THEOREM NeverPanics == Spec => []NoPanic
<1>1. IndInv => NoPanic
  BY DEF IndInv
<1> QED BY <1>1, Inductive, PTL

\* In overtime only the excepted timers, and those registered since, remain.
THEOREM OvertimeIsQuiet == Spec => []OvertimeDropsTimers
<1>1. IndInv => OvertimeDropsTimers
  BY DEF IndInv
<1> QED BY <1>1, Inductive, PTL

\* Before overtime, no event of a batch outlives its registration.
THEOREM NoStaleEvents == Spec => []BatchFresh
<1>1. IndInv => BatchFresh
  BY DEF IndInv
<1> QED BY <1>1, Inductive, PTL

\* run() returns Ok only after a timer that ends the run, other than the
\* overtime timer, has expired.
THEOREM NeverTooEarly == Spec => []OkAfterDeadline
<1>1. IndInv => OkAfterDeadline
  BY DEF IndInv, Stage, OvertimeAfterDeadline, DeadlinePassed, OvertimeTimer,
         OkAfterDeadline
<1> QED BY <1>1, Inductive, PTL

-----------------------------------------------------------------------------
(* The loop implements the abstract life of a loop.                        *)

\* The timers that end the run and have expired.
Due == Ending \cap expired

\* Only the expiry of a timer changes which ending timers have expired.
LEMMA DueChanges ==
    ASSUME IndInv, [Next]_vars, ~ \E tok \in armed : Expire(tok)
    PROVE  Due' = Due
<1> USE DEF IndInv, TypeOK, RegistryType, Issued, Polled, Due, Ending, Timed, Token
<1>1. CASE StartRun \/ PollStep \/ PollFails
  BY <1>1 DEF StartRun, PollStep, PollFails, registry, kernel
<1>2. CASE Setup
  BY <1>2 DEF Setup, ApplyCall, register_event_source, register_timer, new_timer,
              add_duration, add_cleanup, generate_token, registry, kernel
<1>3. CASE Drain
  <2>1. CASE HandleRegister
    BY <2>1 DEF HandleRegister, register_event_source, generate_token
  <2>2. CASE HandleUnregister
    BY <2>2 DEF HandleUnregister, unregister_event_source, registry, kernel
  <2>3. CASE HandleRegisterTimed
    BY <2>3 DEF HandleRegisterTimed, register_timer, new_timer, generate_token
  <2>4. CASE HandleClean
    BY <2>4 DEF HandleClean
  <2>5. CASE HandleAddDuration \/ HandleTimedCleanup
    BY <2>5 DEF HandleAddDuration, HandleTimedCleanup, add_cleanup, add_duration,
                new_timer, generate_token
  <2>6. CASE RegistrationFails
    BY <2>6 DEF RegistrationFails, kernel
  <2> QED BY <1>3, <2>1, <2>2, <2>3, <2>4, <2>5, <2>6 DEF Drain
<1>4. CASE DispatchStep
  <2> PICK tok \in events :
        \/ SourceOk(tok) \/ SourceCloses(tok) \/ SourceSends(tok)
        \/ SourceErr(tok) \/ TimerOk(tok) \/ TimerErr(tok)
        \/ TimerWithoutSource(tok) \/ Finish(tok) \/ FinishCleanup(tok)
        \/ EnterOvertime(tok) \/ OvertimeFails(tok)
    BY <1>4 DEF DispatchStep
  <2>1. CASE \/ SourceOk(tok) \/ SourceSends(tok) \/ TimerOk(tok) \/ TimerErr(tok)
             \/ TimerWithoutSource(tok) \/ Finish(tok)
    BY <2>1 DEF SourceOk, SourceSends, TimerOk, TimerErr, TimerWithoutSource,
                Finish, registry, kernel
  <2>2. CASE SourceCloses(tok)
    BY <2>2 DEF SourceCloses
  <2>3. CASE SourceErr(tok)
    BY <2>3 DEF SourceErr, unregister_event_source
  <2>4. CASE FinishCleanup(tok)
    BY <2>4 DEF FinishCleanup, unregister_timers, Without
  <2>5. CASE EnterOvertime(tok)
    BY <2>5 DEF EnterOvertime, Without, generate_token
  <2>6. CASE OvertimeFails(tok)
    BY <2>6 DEF OvertimeFails, unregister_timers, Without
  <2> QED BY <2>1, <2>2, <2>3, <2>4, <2>5, <2>6
<1>5. CASE Sweep
  BY <1>5 DEF Sweep, unregister_timers, Without
<1>6. CASE \/ \E tok \in sources : Arrive(tok)
           \/ PeerLock \/ PeerSend \/ PeerUnlock \/ Returned \/ UNCHANGED vars
  BY <1>6 DEF Arrive, PeerLock, PeerSend, PeerUnlock, Returned, vars, registry,
              kernel
<1> QED BY <1>1, <1>2, <1>3, <1>4, <1>5, <1>6 DEF Next, Loop, Environment

\* A step that is not the expiry of a timer leaves it as it is whether a deadline
\* has passed, overtime entered or not.
LEMMA DueStays ==
    ASSUME IndInv, IndInv', [Next]_vars, ~ \E tok \in armed : Expire(tok),
           overtime' = overtime
    PROVE  DeadlinePassed' = DeadlinePassed
<1>1. Due' = Due
  BY DueChanges
<1>2. DeadlinePassed' <=> DeadlinePassed
  BY <1>1 DEF IndInv, OvertimeAfterDeadline, DeadlinePassed, OvertimeTimer, Due
<1> QED BY <1>2 DEF DeadlinePassed

\* A step that leaves the stage alone is a step, or a stutter, of the life.
LEMMA StageStays ==
    ASSUME IndInv, IndInv', [Next]_vars, UNCHANGED <<phase, result, overtime>>
    PROVE  [L!LifeNext]_(L!lifeVars)
<1>1. LoopStage' = LoopStage
  BY DEF LoopStage
<1>2. CASE \E tok \in armed : Expire(tok)
  <2>1. DeadlinePassed => DeadlinePassed'
    BY <1>2 DEF Expire, DeadlinePassed, OvertimeTimer, Ending, Timed, registry, ending
  <2>2. LoopStage \in {"setup", "running", "overtime"}
    BY <1>2 DEF Expire, LoopStage, IndInv, TypeOK, ControlType, Stage
  <2> QED BY <1>1, <2>1, <2>2 DEF L!LifeNext, L!PassDeadline, L!lifeVars, DeadlinePassed
<1>3. CASE ~ \E tok \in armed : Expire(tok)
  BY <1>1, <1>3, DueStays DEF L!lifeVars
<1> QED BY <1>2, <1>3

\* Every step of the loop is a step of the abstract life, or a stutter.
LEMMA NextLife == IndInv /\ IndInv' /\ [Next]_vars => [L!LifeNext]_(L!lifeVars)
<1> SUFFICES ASSUME IndInv, IndInv', [Next]_vars
             PROVE  [L!LifeNext]_(L!lifeVars)
  OBVIOUS
<1> USE DEF L!LifeNext, L!lifeVars
<1>1. CASE UNCHANGED <<phase, result, overtime>>
  BY <1>1, StageStays
<1>2. ASSUME ~ \E tok \in armed : Expire(tok), UNCHANGED overtime,
             phase # "setup", phase' # "setup", UNCHANGED result
      PROVE  [L!LifeNext]_(L!lifeVars)
  BY <1>2, DueStays DEF LoopStage
<1>3. ASSUME ~ \E tok \in armed : Expire(tok), UNCHANGED overtime,
             phase \in {"drain", "dispatch"}, phase' = "ended",
             result' \in {"Lock", "NotFound", "Callback", "Io"}
      PROVE  [L!LifeNext]_(L!lifeVars)
  <2>1. LoopStage \in {"running", "overtime"} /\ LoopStage' = "failed"
    BY <1>3 DEF LoopStage, IndInv, Stage
  <2> QED BY <1>3, <2>1, DueStays DEF L!Fail
<1>4. CASE StartRun
  <2>1. LoopStage = "setup" /\ LoopStage' = "running"
    BY <1>4 DEF StartRun, LoopStage, IndInv, Stage, ending
  <2>2. ~ \E tok \in armed : Expire(tok)
    BY <1>4 DEF StartRun, Expire
  <2> QED BY <1>4, <2>1, <2>2, DueStays DEF StartRun, ending, L!Start
<1>5. CASE Setup
  <2>1. LoopStage = "setup" /\ LoopStage' = "setup"
    BY <1>5 DEF Setup, LoopStage, IndInv, Stage
  <2>2. ~ \E tok \in armed : Expire(tok)
    BY <1>5 DEF Setup, Expire, IndInv, TypeOK, ControlType
  <2>3. overtime # "none" /\ overtime' # "none"
    BY <1>5 DEF Setup, IndInv, Stage
  <2>4. DeadlinePassed' = DeadlinePassed
    BY <2>2, <2>3, DueChanges DEF DeadlinePassed, OvertimeTimer, Due
  <2> QED BY <2>1, <2>4
<1>6. CASE Drain
  <2>1. inbox \in Seq(Message) /\ inbox # <<>> /\ inbox' = Tail(inbox)
    BY <1>6 DEF Drain, Receive, HandleRegister, HandleUnregister,
          HandleRegisterTimed, HandleClean, HandleAddDuration,
          HandleTimedCleanup, RegistrationFails, IndInv, TypeOK, ChannelType
  <2>2. inbox' # inbox
    <3>1. Len(inbox') = Len(inbox) - 1 /\ Len(inbox) \in Nat
      BY <2>1
    <3>2. Len(inbox') # Len(inbox)
      BY <3>1
    <3> QED BY <3>2, Zenon
  <2>3. ~ \E tok \in armed : Expire(tok)
    BY <2>2 DEF Expire, channel
  <2> QED
    BY <1>2, <1>3, <1>6, <2>3 DEF Drain, Receive, HandleRegister,
          HandleUnregister, HandleRegisterTimed, HandleClean,
          HandleAddDuration, HandleTimedCleanup, RegistrationFails, add_cleanup,
          Publish, Return, ending
<1>7. CASE PollStep \/ Sweep
  <2>1. ~ \E tok \in armed : Expire(tok)
    BY <1>7 DEF PollStep, Sweep, Expire
  <2> QED BY <1>2, <1>7, <2>1 DEF PollStep, Sweep, ending
<1>10. CASE PollFails
  <2>1. ~ \E tok \in armed : Expire(tok)
    BY <1>10 DEF PollFails, Return, Expire
  <2> QED BY <1>3, <1>10, <2>1 DEF PollFails, Return, ending
<1>8. CASE Environment \/ Returned \/ UNCHANGED vars
  BY <1>1, <1>8 DEF Environment, Expire, Arrive, PeerLock, PeerSend, PeerUnlock,
        Returned, vars, ending
<1>9. CASE DispatchStep
  <2> PICK tok \in events :
        \/ SourceOk(tok) \/ SourceCloses(tok) \/ SourceSends(tok)
        \/ SourceErr(tok) \/ TimerOk(tok) \/ TimerErr(tok)
        \/ TimerWithoutSource(tok) \/ Finish(tok) \/ FinishCleanup(tok)
        \/ EnterOvertime(tok) \/ OvertimeFails(tok)
    BY <1>9 DEF DispatchStep
  <2>0. events' # events
    BY DEF SourceOk, SourceCloses, SourceSends, SourceErr, TimerOk, TimerErr,
           TimerWithoutSource, Finish, FinishCleanup, EnterOvertime,
           OvertimeFails, Take
  <2>1. ~ \E t \in armed : Expire(t)
    BY <2>0 DEF Expire
  <2>2. CASE \/ SourceOk(tok) \/ SourceCloses(tok) \/ SourceSends(tok)
             \/ SourceErr(tok) \/ TimerOk(tok) \/ TimerWithoutSource(tok)
    BY <1>1, <2>2 DEF SourceOk, SourceCloses, SourceSends, SourceErr, TimerOk,
          TimerWithoutSource, ending
  <2>3. CASE TimerErr(tok) \/ FinishCleanup(tok)
    BY <1>2, <1>3, <2>1, <2>3 DEF TimerErr, FinishCleanup, Take, Return, ending
  <2>4. CASE Finish(tok)
    <3>1. LoopStage = "overtime" /\ LoopStage' = "ok"
      BY <2>4 DEF Finish, Take, Return, LoopStage, IndInv, Stage
    <3> QED BY <2>1, <2>4, <3>1, DueStays DEF Finish, ending, L!ReturnOk
  <2>5. CASE EnterOvertime(tok)
    <3>1. overtime # "none" /\ UNCHANGED <<phase, result>> /\ overtime' = "none"
      BY <2>5 DEF EnterOvertime, IndInv, Stage, NoPanic, Return
    <3>2. LoopStage = "running" /\ LoopStage' = "overtime"
      BY <2>5, <3>1 DEF EnterOvertime, Take, LoopStage, IndInv, Stage
    <3>3. tok \in Ending /\ tok \in expired
      BY <2>5, <3>1 DEF EnterOvertime, Take, Unknown, IndInv, BatchFresh,
            EdgesExpired, Ending
    <3>4. DeadlinePassed /\ DeadlinePassed'
      <4>1. result # "Io" /\ result' # "Io"
        BY <2>5, <3>1 DEF EnterOvertime, Take, IndInv, Stage
      <4> QED BY <3>1, <3>3, <4>1 DEF DeadlinePassed, OvertimeTimer, IndInv,
                OvertimeAfterDeadline
    <3> QED BY <3>2, <3>4 DEF L!BeginOvertime, DeadlinePassed
  <2>6. CASE OvertimeFails(tok)
    <3>1. LoopStage \in {"running", "overtime"} /\ LoopStage' = "failed"
      BY <2>6 DEF OvertimeFails, Take, Return, LoopStage, IndInv, Stage
    <3>2. Due' = Due
      BY <2>1, DueChanges
    <3>3. DeadlinePassed' = DeadlinePassed
      BY <2>6, <3>2 DEF OvertimeFails, Return, DeadlinePassed, OvertimeTimer, Due
    <3> QED BY <3>1, <3>3 DEF L!Fail
  <2> QED BY <2>2, <2>3, <2>4, <2>5, <2>6
<1> QED
  BY <1>4, <1>5, <1>6, <1>7, <1>8, <1>9, <1>10 DEF Next, Loop

\* The event loop implements the life of a loop: whatever is registered and
\* whatever callbacks and peer do, it enters overtime only after a deadline and
\* returns Ok only from overtime.
THEOREM ImplementsLife == Spec => L!LifeSafe
<1>1. Init => L!LifeInit
  BY DEF Init, L!LifeInit, LoopStage, DeadlinePassed
<1>2. IndInv /\ IndInv' /\ [Next]_vars => [L!LifeNext]_(L!lifeVars)
  BY NextLife
<1> QED BY <1>1, <1>2, Inductive, PTL DEF Spec, L!LifeSafe
=============================================================================
