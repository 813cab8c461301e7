---------------------------- MODULE MCEventLoop ----------------------------
(***************************************************************************)
(* The uses the repository makes of the event loop, as programs.           *)
(***************************************************************************)
EXTENDS EventLoop

call(op, spec, tok) == [op |-> op, spec |-> spec, tok |-> tok]

\* SessionSender::execute: the socket, the sending timer, the timestamp
\* correction timer, which survives overtime, and the deadline.
LightSender ==
    << call("set_overtime", "oneshot", 0),
       call("register_event_source", "oneshot", 0),
       call("register_timer", "periodic", 0),
       call("register_timer", "periodic", 0),
       call("add_overtime_exception", "oneshot", 2),
       call("add_duration", "oneshot", 0) >>

\* Reflector::execute: the socket and the timer that drops stale sessions.
LightReflector ==
    << call("register_event_source", "oneshot", 0),
       call("register_timer", "periodic", 0) >>

\* The worker loop of ControlClient::execute and of Control::execute.
Worker == << call("set_overtime", "oneshot", 0) >>

\* The control loop of Control::execute: the listening socket.
ControlServer == << call("register_event_source", "oneshot", 0) >>

\* The control loop of ControlClient::execute.
ControlClient ==
    << call("register_event_source", "oneshot", 0),
       call("set_overtime", "oneshot", 0),
       call("add_duration", "oneshot", 0) >>

\* Only the workers have a peer that sends messages.
WithoutPeer ==
    [calls : {LightSender, LightReflector, ControlServer, ControlClient}, sends : {0}]
WorkerOnly == [calls : {Worker}, sends : {MaxSends}]
AllPrograms == WithoutPeer \cup WorkerOnly

NoMessages == {}
msg(kind, spec) == [kind |-> kind, spec |-> spec]
AllMessages ==
    { msg("Register", "oneshot"), msg("Unregister", "oneshot"),
      msg("RegisterTimed", "periodic"), msg("Clean", "oneshot"),
      msg("AddDuration", "oneshot"), msg("TimedCleanup", "periodic") }
RegisterOnly == { msg("Register", "oneshot") }

\* No run of these instances hands out a token above this one: a program makes
\* at most four registrations, a message one, and overtime one.
LastToken == MaxSends + 4

\* Fairness: the owner thread keeps running (nothing in the loop blocks for
\* longer than the 100 ms of poll), and an armed timerfd expires.  Nothing is
\* assumed of descriptors or of the peer.
LiveSpec ==
    Spec /\ WF_vars(Loop) /\ \A tok \in 0..LastToken : WF_vars(Expire(tok))
=============================================================================
