------------------------------ MODULE EventLoop ------------------------------
(***************************************************************************)
(* The event loop of network_commons/src/epoll_loop.rs: one thread that    *)
(* owns a table of sources and a table of timers, drains a channel of      *)
(* registration messages, polls epoll and dispatches the batch it got.     *)
(*                                                                         *)
(* What is kept: every table of LinuxEventLoop, the channel and its mutex, *)
(* the published token, the kernel's interest list, its list of ready      *)
(* descriptors, and which timerfds are armed.  What is abstracted: a       *)
(* descriptor is named by the token it was registered with, a callback is  *)
(* the set of outcomes it may have, and time is the order in which armed   *)
(* timers expire.  Since a batch lists events in the order in which their  *)
(* descriptors became ready, and that order is arbitrary, the batch is a   *)
(* set whose members are dispatched in any order.                          *)
(***************************************************************************)
EXTENDS Naturals, Sequences

CONSTANTS
    Programs,      \* uses of the loop: the calls made before run(), and how many
                   \* messages are then put in the channel
    PeerMessages,  \* [kind, spec] of what the thread with the channel may send
    SelfMessages,  \* the same, for the loop's own callbacks
    MaxSends,      \* bound on these messages
    NoToken        \* usize::MAX in the token cell, None in cleanup_token

\* Itimerspec, as far as timerfd_settime tells them apart: it_value zero
\* disarms the timer, it_interval zero makes it fire once.
Specs == {"zero", "oneshot", "periodic"}

Token == Nat

Kinds == {"Register", "Unregister", "RegisterTimed", "Clean", "AddDuration",
          "TimedCleanup"}

Message == [kind : Kinds, spec : Specs, tok : Token]

Template == [kind : Kinds, spec : Specs]

Calls == {"register_event_source", "register_timer", "add_duration",
          "add_cleanup", "set_overtime", "add_overtime_exception"}

Call == [op : Calls, spec : Specs, tok : Token]

ASSUME ProgramsAssumption ==
    Programs \subseteq [calls : Seq(Call), sends : 0..MaxSends]
ASSUME MessagesAssumption == /\ PeerMessages \subseteq Template
                             /\ SelfMessages \subseteq Template
ASSUME BoundAssumption == MaxSends \in Nat
ASSUME NoTokenAssumption == NoToken \notin Token

VARIABLES
    phase,         \* where the owner thread is
    result,        \* how run() returned
    program,       \* calls still to be made before run()
    nextToken,     \* next_token
    sources,       \* tokens in the sources map
    closed,        \* those of them whose descriptor has been closed
    timedSources,  \* timed_sources: token of a timer -> token of its source
    unlisted,      \* timerfds made by add_duration and add_cleanup: in no map
    armed,         \* timerfds the kernel will let expire
    expired,       \* timerfds that have expired, for the properties
    periodic,      \* timerfds with a non-zero interval
    epoll,         \* the interest list
    ready,         \* edges not yet reported by epoll_wait
    events,        \* what is left of the batch being dispatched
    overtime,      \* the overtime option; "none" once taken
    exceptions,    \* overtime_exceptions
    cleanup,       \* cleanup.is_some()
    cleanupToken,  \* cleanup_token
    inbox,         \* the registration channel
    cell,          \* the token published in the DuplexChannel
    held,          \* a peer thread holds the DuplexChannel's mutex
    unparked,      \* the peer's park permit, set by TimedCleanup
    sends          \* messages that may still be sent

registry == <<nextToken, sources, closed, timedSources, unlisted>>
kernel   == <<armed, expired, periodic, epoll, ready>>
ending   == <<overtime, exceptions, cleanup, cleanupToken>>
channel  == <<inbox, cell, held, unparked, sends>>
vars == <<phase, result, program, events, registry, kernel, ending, channel>>

Init ==
    /\ phase = "setup" /\ result = "running"
    /\ \E use \in Programs : program = use.calls /\ sends = use.sends
    /\ nextToken = 0 /\ sources = {} /\ closed = {}
    /\ timedSources = [t \in {} |-> 0]
    /\ unlisted = {}
    /\ armed = {} /\ expired = {} /\ periodic = {}
    /\ epoll = {} /\ ready = {} /\ events = {}
    /\ overtime = "oneshot" /\ exceptions = {}
    /\ cleanup = FALSE /\ cleanupToken = NoToken
    /\ inbox = <<>> /\ cell = NoToken /\ held = FALSE /\ unparked = FALSE

-----------------------------------------------------------------------------
(* The operations of the loop on its own tables.                           *)

Timed == DOMAIN timedSources

\* A table of timers without the tokens in T.
Without(table, T) == [t \in DOMAIN table \ T |-> table[t]]

\* Mutant: the counter is read and not advanced.
generate_token_no_increment == nextToken' = nextToken

generate_token == nextToken' = nextToken + 1

register_event_source ==
    /\ generate_token
    /\ sources' = sources \cup {nextToken}
    /\ epoll' = epoll \cup {nextToken}
    /\ UNCHANGED <<closed, timedSources, unlisted, armed, expired, periodic,
                   ready>>

\* timerfd_create, timerfd_settime and registration, under a fresh token.
new_timer(spec) ==
    /\ generate_token
    /\ armed' = IF spec = "zero" THEN armed ELSE armed \cup {nextToken}
    /\ periodic' = IF spec = "periodic" THEN periodic \cup {nextToken}
                                        ELSE periodic
    /\ epoll' = epoll \cup {nextToken}
    /\ UNCHANGED <<sources, closed, expired, ready>>

\* The timer is created and polled whether or not its source exists; only a
\* timer of an existing source enters the table.
register_timer(spec, tok) ==
    /\ new_timer(spec)
    /\ timedSources' = IF tok \in sources
                       THEN [t \in Timed \cup {nextToken} |->
                               IF t = nextToken THEN tok ELSE timedSources[t]]
                       ELSE timedSources
    /\ UNCHANGED unlisted

add_duration(spec) ==
    /\ new_timer(spec)
    /\ unlisted' = unlisted \cup {nextToken}
    /\ UNCHANGED timedSources

add_cleanup(spec) ==
    /\ add_duration(spec)
    /\ cleanup' = TRUE
    /\ cleanupToken' = nextToken
    /\ UNCHANGED <<overtime, exceptions>>

\* Mutant: an edge of the source stays in the ready list.
unregister_event_source_keeps_edge(tok) ==
    /\ sources' = sources \ {tok}
    /\ closed' = closed \ {tok}
    /\ epoll' = epoll \ {tok}
    /\ UNCHANGED <<nextToken, timedSources, unlisted, armed, expired, periodic,
                   ready>>

\* Dropping the source closes its descriptor, which also ends its edges.
unregister_event_source(tok) ==
    /\ sources' = sources \ {tok}
    /\ closed' = closed \ {tok}
    /\ epoll' = epoll \ {tok}
    /\ ready' = ready \ {tok}
    /\ UNCHANGED <<nextToken, timedSources, unlisted, armed, expired, periodic>>

\* The timerfds of T leave the table and the interest list; they are not
\* closed, but nobody hears their next expiry.
unregister_timers(T) ==
    /\ timedSources' = Without(timedSources, T)
    /\ epoll' = epoll \ (T \cap Timed)
    /\ ready' = ready \ (T \cap Timed)

-----------------------------------------------------------------------------
(* Before run(): the owner thread makes the calls of its program.          *)

ApplyCall(c) ==
    \/ /\ c.op = "register_event_source"
       /\ register_event_source
       /\ UNCHANGED ending
    \/ /\ c.op = "register_timer"
       /\ register_timer(c.spec, c.tok)
       /\ UNCHANGED ending
    \/ /\ c.op = "add_duration"
       /\ add_duration(c.spec)
       /\ UNCHANGED ending
    \/ /\ c.op = "add_cleanup"
       /\ add_cleanup(c.spec)
    \/ /\ c.op = "set_overtime"
       /\ overtime' = c.spec
       /\ UNCHANGED <<registry, kernel, exceptions, cleanup, cleanupToken>>
    \/ /\ c.op = "add_overtime_exception"
       /\ exceptions' = exceptions \cup {c.tok}
       /\ UNCHANGED <<registry, kernel, overtime, cleanup, cleanupToken>>

Setup ==
    /\ phase = "setup" /\ program # <<>>
    /\ program' = Tail(program)
    /\ ApplyCall(Head(program))
    /\ UNCHANGED <<phase, result, events, channel>>

StartRun ==
    /\ phase = "setup" /\ program = <<>>
    /\ phase' = "drain"
    /\ UNCHANGED <<result, program, events, registry, kernel, ending, channel>>

-----------------------------------------------------------------------------
(* run(): the drain of the registration channel, one message at a time.    *)

Return(r) == phase' = "ended" /\ result' = r

\* registration_sender.try_lock()?.set_token(token): with the mutex held by
\* the peer, run() returns the error although the registration was made.
Publish(tok) ==
    IF held
    THEN Return("Lock") /\ UNCHANGED cell
    ELSE cell' = tok /\ UNCHANGED <<phase, result>>

Receive(kind) ==
    /\ phase = "drain" /\ inbox # <<>> /\ Head(inbox).kind = kind
    /\ inbox' = Tail(inbox)
    /\ UNCHANGED <<program, events, held, sends>>

HandleRegister ==
    /\ Receive("Register")
    /\ register_event_source
    /\ Publish(nextToken)
    /\ UNCHANGED <<ending, unparked>>

\* An unknown token, or one whose descriptor was closed, is an error that
\* ends run().
HandleUnregister ==
    /\ Receive("Unregister")
    /\ LET tok == Head(inbox).tok IN
       /\ IF tok \in sources THEN unregister_event_source(tok)
                            ELSE UNCHANGED <<registry, kernel>>
       /\ IF tok \in sources \ closed THEN UNCHANGED <<phase, result>>
                                     ELSE Return("NotFound")
    /\ UNCHANGED <<ending, cell, unparked>>

HandleRegisterTimed ==
    /\ Receive("RegisterTimed")
    /\ register_timer(Head(inbox).spec, Head(inbox).tok)
    /\ Publish(nextToken)
    /\ UNCHANGED <<ending, unparked>>

\* Clean closes the descriptors and leaves the table as it is.
HandleClean ==
    /\ Receive("Clean")
    /\ closed' = sources
    /\ epoll' = epoll \ sources
    /\ ready' = ready \ sources
    /\ UNCHANGED <<phase, result, nextToken, sources, timedSources, unlisted,
                   armed, expired, periodic, ending, cell, unparked>>

HandleAddDuration ==
    /\ Receive("AddDuration")
    /\ add_duration(Head(inbox).spec)
    /\ Publish(nextToken)
    /\ UNCHANGED <<ending, unparked>>

\* Mutant: the sending thread is not unparked.
HandleTimedCleanup_no_unpark ==
    /\ Receive("TimedCleanup")
    /\ add_cleanup(Head(inbox).spec)
    /\ Publish(nextToken)
    /\ UNCHANGED unparked

\* The sending thread is unparked only when the token could be published.
HandleTimedCleanup ==
    /\ Receive("TimedCleanup")
    /\ add_cleanup(Head(inbox).spec)
    /\ Publish(nextToken)
    /\ unparked' = (unparked \/ ~held)

\* epoll_ctl refuses the descriptor (none was left for the timerfd, or the one
\* to poll is closed already): the token is used up and run() returns the error.
RegistrationFails ==
    /\ phase = "drain" /\ inbox # <<>>
    /\ Head(inbox).kind \in {"Register", "RegisterTimed", "AddDuration",
                             "TimedCleanup"}
    /\ inbox' = Tail(inbox)
    /\ generate_token
    /\ cleanup' = (cleanup \/ Head(inbox).kind = "TimedCleanup")
    /\ Return("Io")
    /\ UNCHANGED <<program, events, sources, closed, timedSources, unlisted, kernel,
                   overtime, exceptions, cleanupToken, cell, held, unparked, sends>>

Drain ==
    \/ HandleRegister
    \/ HandleUnregister
    \/ HandleRegisterTimed
    \/ HandleClean
    \/ HandleAddDuration
    \/ HandleTimedCleanup
    \/ RegistrationFails

\* poll() takes every edge there is, or times out after 100 ms with none.
PollStep ==
    /\ phase = "drain" /\ inbox = <<>>
    /\ phase' = "dispatch"
    /\ events' = ready
    /\ ready' = {}
    /\ UNCHANGED <<result, program, registry, armed, expired, periodic, epoll,
                   ending, channel>>

\* A signal interrupts epoll_wait, and run() returns the error.
PollFails ==
    /\ phase = "drain" /\ inbox = <<>>
    /\ Return("Io")
    /\ UNCHANGED <<program, events, registry, kernel, ending, channel>>

-----------------------------------------------------------------------------
(* run(): the dispatch of one event of the batch.                          *)

Take(tok) ==
    /\ phase = "dispatch" /\ tok \in events
    /\ events' = events \ {tok}
    /\ UNCHANGED program

SourceOk(tok) ==
    /\ Take(tok) /\ tok \in sources
    /\ UNCHANGED <<phase, result, registry, kernel, ending, channel>>

\* The control server's callback closes its descriptor on a protocol error
\* and still returns Ok.
SourceCloses(tok) ==
    /\ Take(tok) /\ tok \in sources
    /\ closed' = closed \cup {tok}
    /\ epoll' = epoll \ {tok}
    /\ ready' = ready \ {tok}
    /\ UNCHANGED <<phase, result, nextToken, sources, timedSources, unlisted,
                   armed, expired, periodic, ending, channel>>

\* A callback may put a message in its own loop's channel: the accepting
\* callback registers the connection that way.
SourceSends(tok) ==
    /\ Take(tok) /\ tok \in sources
    /\ ~held /\ sends > 0
    /\ \E m \in SelfMessages :
          inbox' = Append(inbox, [kind |-> m.kind, spec |-> m.spec, tok |-> tok])
    /\ sends' = sends - 1
    /\ UNCHANGED <<phase, result, registry, kernel, ending, cell, held, unparked>>

\* Mutant: the timers of the failed source are unregistered with it.
SourceErr_drops_timers(tok) ==
    /\ Take(tok) /\ tok \in sources
    /\ sources' = sources \ {tok}
    /\ closed' = closed \ {tok}
    /\ LET gone == {t \in Timed : timedSources[t] = tok}
       IN  /\ timedSources' = Without(timedSources, gone)
           /\ epoll' = epoll \ (gone \cup {tok})
           /\ ready' = ready \ (gone \cup {tok})
    /\ UNCHANGED <<phase, result, nextToken, unlisted, armed, expired, periodic,
                   ending, channel>>

SourceErr(tok) ==
    /\ Take(tok) /\ tok \in sources
    /\ unregister_event_source(tok)
    /\ UNCHANGED <<phase, result, ending, channel>>

\* A timer's callback ran on its source: reset_timer reads the time to the next
\* expiry and sets it again, which is what starts a periodic timer anew.
TimerOk(tok) ==
    /\ Take(tok) /\ tok \notin sources /\ tok \in Timed
    /\ timedSources[tok] \in sources
    /\ armed' = armed \cup ({tok} \cap periodic)
    /\ UNCHANGED <<phase, result, registry, expired, periodic, epoll, ready,
                   ending, channel>>

\* The error of a timer's callback is the error of run().
TimerErr(tok) ==
    /\ Take(tok) /\ tok \notin sources /\ tok \in Timed
    /\ timedSources[tok] \in sources
    /\ Return("Callback")
    /\ UNCHANGED <<registry, kernel, ending, channel>>

TimerWithoutSource(tok) ==
    /\ Take(tok) /\ tok \notin sources /\ tok \in Timed
    /\ timedSources[tok] \notin sources
    /\ UNCHANGED <<phase, result, registry, kernel, ending, channel>>

\* Mutant: a timer whose source is gone counts as unknown.
Unknown_without_source(tok) ==
    tok \notin sources /\ (tok \in Timed => timedSources[tok] \notin sources)

\* An event that is in neither table.
Unknown(tok) == tok \notin sources /\ tok \notin Timed

\* Mutant: overtime is not looked at.
Finish_skips_overtime(tok) ==
    /\ Take(tok) /\ Unknown(tok)
    /\ ~cleanup
    /\ Return("ok")
    /\ UNCHANGED <<registry, kernel, ending, channel>>

\* Mutant: break leaves the batch and not the loop.
Finish_inner_break(tok) ==
    /\ phase = "dispatch" /\ tok \in events /\ Unknown(tok)
    /\ overtime = "none" /\ ~cleanup
    /\ events' = {}
    /\ UNCHANGED <<phase, result, program, registry, kernel, ending, channel>>

Finish(tok) ==
    /\ Take(tok) /\ Unknown(tok)
    /\ overtime = "none" /\ ~cleanup
    /\ Return("ok")
    /\ UNCHANGED <<registry, kernel, ending, channel>>

\* Mutant: the failure to unregister the cleanup token is ignored.
FinishCleanup_ignores_error(tok) ==
    /\ phase = "dispatch" /\ tok \in events /\ Unknown(tok)
    /\ overtime = "none" /\ cleanup /\ cleanupToken # NoToken
    /\ cleanupToken' = NoToken
    /\ events' = {}
    /\ phase' = "drain"
    /\ UNCHANGED <<result, program, registry, kernel, overtime, exceptions,
                   cleanup, channel>>

FinishCleanup(tok) ==
    /\ phase = "dispatch" /\ tok \in events /\ Unknown(tok)
    /\ overtime = "none" /\ cleanup /\ cleanupToken # NoToken
    /\ IF cleanupToken \in Timed
       THEN /\ unregister_timers({cleanupToken})
            /\ cleanupToken' = NoToken
            /\ events' = {}
            /\ phase' = "drain"
            /\ UNCHANGED result
       ELSE /\ Return("NotFound")
            /\ events' = events \ {tok}
            /\ UNCHANGED <<timedSources, epoll, ready, cleanupToken>>
    /\ UNCHANGED <<program, nextToken, sources, closed, unlisted, armed, expired,
                   periodic, overtime, exceptions, cleanup, channel>>

\* Mutant: the timers stay in the table.
EnterOvertime_keeps_timers(tok) ==
    /\ Take(tok) /\ Unknown(tok) /\ overtime # "none"
    /\ add_duration(overtime)
    /\ overtime' = "none"
    /\ cleanupToken' = nextToken
    /\ UNCHANGED <<phase, result, exceptions, cleanup, channel>>

\* Every timer but the exceptions leaves the table, and the overtime timer is
\* started.  With no overtime left, take().expect() panics.
EnterOvertime(tok) ==
    /\ Take(tok) /\ Unknown(tok)
    /\ overtime = "none" => cleanup /\ cleanupToken = NoToken
    /\ LET dropped == Timed \ exceptions
       IN  /\ timedSources' = Without(timedSources, dropped)
           /\ ready' = ready \ dropped
           /\ epoll' = (epoll \ dropped) \cup {nextToken}
    /\ generate_token
    /\ unlisted' = unlisted \cup {nextToken}
    /\ armed' = IF overtime = "zero" THEN armed ELSE armed \cup {nextToken}
    /\ periodic' = IF overtime = "periodic" THEN periodic \cup {nextToken}
                                            ELSE periodic
    /\ overtime' = "none"
    /\ cleanupToken' = nextToken
    /\ IF overtime = "none" THEN Return("panic") ELSE UNCHANGED <<phase, result>>
    /\ UNCHANGED <<sources, closed, expired, exceptions, cleanup, channel>>

\* The registration of the overtime timer is refused: the timers are gone and the
\* overtime is taken, and run() returns the error.
OvertimeFails(tok) ==
    /\ Take(tok) /\ Unknown(tok) /\ overtime # "none"
    /\ unregister_timers(Timed \ exceptions)
    /\ generate_token
    /\ overtime' = "none"
    /\ Return("Io")
    /\ UNCHANGED <<sources, closed, unlisted, armed, expired, periodic, exceptions,
                   cleanup, cleanupToken, channel>>

DispatchStep ==
    \E tok \in events :
        \/ SourceOk(tok)
        \/ SourceCloses(tok)
        \/ SourceSends(tok)
        \/ SourceErr(tok)
        \/ TimerOk(tok)
        \/ TimerErr(tok)
        \/ TimerWithoutSource(tok)
        \/ Finish(tok)
        \/ FinishCleanup(tok)
        \/ EnterOvertime(tok)
        \/ OvertimeFails(tok)

\* The sweep for closed descriptors runs under a read guard on the sources,
\* so unregister_event_source cannot lock them and returns Ok with nothing
\* done; unregister_timed_event_source then looks the token up among timers.
Sweep ==
    /\ phase = "dispatch" /\ events = {}
    /\ phase' = "drain"
    /\ unregister_timers(closed)
    /\ UNCHANGED <<result, program, events, nextToken, sources, closed,
                   unlisted, armed, expired, periodic, ending, channel>>

-----------------------------------------------------------------------------
(* The environment: timers, descriptors and the thread with the channel.   *)

\* A timerfd that has expired stays silent, a periodic one too, until its timer is
\* read or set again.
Expire(tok) ==
    /\ phase # "ended" /\ tok \in armed \cap epoll
    /\ ready' = ready \cup {tok}
    /\ armed' = armed \ {tok}
    /\ expired' = expired \cup {tok}
    /\ UNCHANGED <<phase, result, program, events, registry, periodic, epoll,
                   ending, channel>>

Arrive(tok) ==
    /\ phase # "ended" /\ tok \in (sources \cap epoll) \ ready
    /\ ready' = ready \cup {tok}
    /\ UNCHANGED <<phase, result, program, events, registry, armed, expired,
                   periodic, epoll, ending, channel>>

PeerLock ==
    /\ ~held /\ sends > 0 /\ PeerMessages # {} /\ phase # "ended"
    /\ held' = TRUE
    /\ UNCHANGED <<phase, result, program, events, registry, kernel, ending,
                   inbox, cell, unparked, sends>>

\* Messages that name a token carry the one get_token() returns.
PeerSend ==
    /\ held /\ sends > 0 /\ phase # "ended"
    /\ \E m \in PeerMessages :
          /\ m.kind \in {"Unregister", "RegisterTimed"} => cell # NoToken
          /\ inbox' = Append(inbox,
                        [kind |-> m.kind, spec |-> m.spec,
                         tok |-> IF cell = NoToken THEN 0 ELSE cell])
    /\ sends' = sends - 1
    /\ UNCHANGED <<phase, result, program, events, registry, kernel, ending,
                   cell, held, unparked>>

PeerUnlock ==
    /\ held
    /\ held' = FALSE
    /\ UNCHANGED <<phase, result, program, events, registry, kernel, ending,
                   inbox, cell, unparked, sends>>

Loop == StartRun \/ Setup \/ Drain \/ PollStep \/ PollFails \/ DispatchStep \/ Sweep

Environment ==
    \/ \E tok \in armed : Expire(tok)
    \/ \E tok \in sources : Arrive(tok)
    \/ PeerLock \/ PeerSend \/ PeerUnlock

\* run() has returned: nothing more happens in the loop.
Returned == phase = "ended" /\ UNCHANGED vars

Next == Loop \/ Environment \/ Returned

Spec == Init /\ [][Next]_vars

-----------------------------------------------------------------------------
(* Properties.                                                             *)

\* The timers that are polled and in no table: those of add_duration and of
\* add_cleanup, and those registered for a source that did not exist.  Their
\* events take the last branch of the dispatch.
Ending == epoll \ (sources \cup Timed)

RegistryType ==
    /\ nextToken \in Token
    /\ sources \subseteq Token /\ closed \subseteq sources
    /\ Timed \subseteq Token /\ timedSources \in [Timed -> Token]
    /\ unlisted \subseteq Token
    /\ armed \subseteq Token /\ expired \subseteq Token
    /\ periodic \subseteq Token
    /\ epoll \subseteq Token /\ ready \subseteq epoll

ControlType ==
    /\ phase \in {"setup", "drain", "dispatch", "ended"}
    /\ result \in {"running", "ok", "Lock", "NotFound", "Callback", "Io", "panic"}
    /\ program \in Seq(Call)
    /\ events \subseteq Token
    /\ overtime \in Specs \cup {"none"} /\ exceptions \subseteq Token
    /\ cleanup \in BOOLEAN /\ cleanupToken \in Token \cup {NoToken}

ChannelType ==
    /\ inbox \in Seq(Message) /\ cell \in Token \cup {NoToken}
    /\ held \in BOOLEAN /\ unparked \in BOOLEAN /\ sends \in 0..MaxSends

\* The tables, the kernel's lists and the channel hold values of their types; an
\* edge is only kept for a descriptor that is polled, and only a registered
\* source is remembered as closed.
TypeOK == RegistryType /\ ControlType /\ ChannelType

\* While run() is going, the loop is never deaf to what it has registered: every
\* source with an open descriptor and every timer in the table is polled, and
\* nothing else is except the timers that end the run and timers whose source
\* was missing; a token names one descriptor only.
Polled ==
    /\ sources \ closed \subseteq epoll
    /\ Timed \subseteq epoll
    /\ unlisted \subseteq epoll
    /\ closed \cap epoll = {}
    /\ sources \cap (Timed \cup unlisted) = {}
    /\ Timed \cap unlisted = {}

\* take().expect("No overtime") never panics: whenever overtime was taken and a
\* cleanup is installed there is a cleanup token, so that path is not reached.
NoPanic == result # "panic"

\* Once overtime was entered, the timers still in the table are exceptions or
\* were registered later, by a message.
OvertimeDropsTimers ==
    (overtime = "none" /\ ~cleanup) =>
        \A tok \in Timed : tok \in exceptions \/ tok > cleanupToken

\* Until overtime is entered, no event of a batch outlives its registration:
\* what the dispatch of one event does never makes a later event of the same
\* batch look like an ending event.
BatchFresh ==
    (phase = "dispatch" /\ overtime # "none") => events \subseteq epoll

\* run() never returns Ok before one of the timers meant to end it, other than
\* the overtime timer, has expired.
OkAfterDeadline ==
    result = "ok" => (Ending \ {cleanupToken}) \cap expired # {}

\* The overtime timer, once there is one.
OvertimeTimer == IF overtime = "none" /\ result # "Io" THEN {cleanupToken} ELSE {}

\* A timer that ends the run, other than the overtime timer, has expired.
DeadlinePassed == (Ending \ OvertimeTimer) \cap expired # {}

\* How far the loop has come, as the code that runs it sees it.
LoopStage ==
    CASE phase = "setup"                       -> "setup"
      [] result = "running" /\ phase # "setup" ->
            IF overtime = "none" THEN "overtime" ELSE "running"
      [] result = "ok"                         -> "ok"
      [] OTHER                                 -> "failed"

L == INSTANCE LoopLife WITH stage <- LoopStage, due <- DeadlinePassed

\* The loop lives as LoopLife says: no overtime before a deadline, no Ok without
\* an overtime entered, nothing after the return; and a deadline that has
\* passed does start overtime, and overtime does end, or the run fails first.
LivesAsPromised == L!Life

\* A timer that ends the run and is armed does end it, unless the overtime
\* that it starts is of length zero.
DeadlineEndsRun ==
    (phase \in {"drain", "dispatch"} /\ overtime # "zero"
        /\ Ending \cap armed # {})
    ~> (phase = "ended")

-----------------------------------------------------------------------------
(* The strengthening that makes the invariants inductive.                  *)

\* Every token in use was handed out by generate_token: below next_token.
Issued ==
    /\ \A tok \in sources \cup Timed \cup unlisted \cup epoll \cup events
                 \cup armed \cup expired : tok < nextToken
    /\ cleanupToken # NoToken => cleanupToken \in unlisted

\* A source is not a timer, and the edge of a timer means that it has expired.
EdgesExpired ==
    /\ sources \cap (armed \cup expired) = {}
    /\ ready \cup events \subseteq sources \cup expired

\* There is a batch only while it is dispatched.
BatchDispatched == phase \in {"setup", "drain"} => events = {}

\* run() has a result exactly when it returned, and neither the overtime nor a
\* cleanup is ever given up without a token for the timer that replaces it.
Stage ==
    /\ (phase = "ended") <=> (result # "running")
    /\ phase = "setup" => overtime # "none"
    /\ (phase # "ended" /\ (overtime = "none" \/ cleanup)) => cleanupToken # NoToken
    /\ result = "ok" => overtime = "none"

\* Overtime was entered on the event of a timer that ends the run.
OvertimeAfterDeadline ==
    (overtime = "none" /\ result # "Io") => DeadlinePassed

\* The token that the end of the run unregisters as a timer is in no table.
CleanupUnlisted == cleanupToken \notin Timed

IndInv ==
    /\ TypeOK /\ Issued /\ Polled /\ EdgesExpired /\ BatchDispatched /\ Stage
    /\ CleanupUnlisted /\ NoPanic /\ OvertimeDropsTimers /\ BatchFresh
    /\ OvertimeAfterDeadline

-----------------------------------------------------------------------------
(* What comments of the code say, and the code does not do.                *)

\* "The overtime period removes all timed events, but keeps listening for
\* readable events": run() does not return Ok while the overtime timer has
\* not expired.
OvertimeLasts == result = "ok" => cleanupToken \notin armed
=============================================================================
