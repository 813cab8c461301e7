# TLA+ verification of network-tests

The repository measures networks with TWAMP. Two crates: `network_commons` (an
epoll event loop, timestamped sockets, time) and `twamp` (TWAMP Light sender and
reflector, TWAMP-Control server and client). This directory models the parts
whose correctness depends on order, concurrency or failure, checks them with TLC
on small instances, and proves the safety of each with TLAPS for every value of
the constants: the event loop, the client's two threads, TWAMP Light and its loss
report, the control server, the conversions of time, the delays of a measurement and
the statistics made of them.

## Inventory

| component | state | operations | interacts with | hard part |
|---|---|---|---|---|
| event loop (`epoll_loop.rs`) | tables of sources and timers, next token, overtime, cleanup, registration channel and its mutex, published token | register, unregister, timers, deadline, cleanup, `run` | callbacks of every other part; another thread through `DuplexChannel` | a batch of events whose dispatch changes the tables; `try_lock` against the peer; when `run` returns |
| test session (`session.rs`) | records, sequence number, count of corrected timestamps | add sent, add received, correct timestamps, loss analysis | sender, reflector | replies lost, duplicated, out of order |
| light sender (`twamp_light.rs`) | one session per target | send tick, correction tick, receive, deadline | event loop, network, kernel timestamps | timestamps matched to packets by position |
| light reflector (`reflector.rs`) | one session per sender | reflect, drop stale sessions | event loop, network | a session dropped in mid-test |
| control server (`control.rs`, `control_session.rs`) | one session per connection ever made, two event loops in two threads | accept, greet, negotiate, request, start, stop | clients (TCP), worker thread (channel), descriptor table | sessions and sockets known by descriptor number; the mutex; blocking sockets on one thread |
| control client (`control_client.rs`, `control_client_session.rs`) | state of the handshake, a worker thread | handshake, test, stop | server, its own worker | messages without tags; `park`, `join` |
| time and statistics (`time.rs`, `interval.rs`, `twamp_light.rs`, `result.rs`) | - | NTP conversions, differences, delays, jitter, order statistics | session, sender | rounding, wrap-around, signs, clocks apart |
| messages, sockets, configuration | - | conversions and system calls | all | layout |

What makes each correct: the loop hears what it registered, ends when it should
and not before; a record describes its own packet, and a loss report adds up; a
control connection is in step with its peer, served by its own session, and no
client can stop the others. `PROJECT.json` lists the hazards line by line.

## Modules

**`EventLoop`** (`MCEventLoop`, `EventLoopProofs`) is `LinuxEventLoop<T>`. The
owner thread goes through `setup` (the calls before `run()`, given as a program),
`drain` (one action per `EventLoopMessages` variant), `dispatch` (one action per
branch for one event of the batch, then `Sweep`) and `ended`. A descriptor is
named by its token. `armed` and `periodic` say what the kernel's timers will do,
`epoll` is the interest list, `ready` the edges not yet reported. The batch is a
set dispatched in any order, since epoll lists events in the order in which
descriptors became ready. A callback is its outcomes: Ok, Ok with the descriptor
closed, Ok with a message sent to its own loop, Err. A system call may fail where
its error is returned: a registration (`RegistrationFails`), `poll`
(`PollFails`), the timer of the overtime (`OvertimeFails`). A periodic timer goes
off once and again only after its callback, which reads it; one that nobody reads
reports one edge. The peer thread locks the
channel, sends and unlocks in separate steps, which is what `try_lock` in the
drain races with. `MCEventLoop` has the five programs of the repository: light
sender, reflector, control client, control server, worker. `expired` is a history
variable: the timers that have ever expired.

**`LoopLife`** is what a loop promises to the code that runs it: `setup`,
`running`, `overtime` once a deadline has passed, `ok` after that; an error may
end it at any time. `EventLoop` implements it with `stage <- LoopStage` and
`due <- DeadlinePassed`: TLC checks all of it, fairness included
(`LivesAsPromised`), and its safety is proved (`ImplementsLife`).

**`ControlClient`** (`MCControlClient`, `ControlClientProofs`) is the control client with both threads.
It extends `EventLoop`, which is the worker, with the main thread in the place of
the peer; of its own control loop the main thread uses only what `LoopLife`
promises, so that is an instance of `LoopLife`. `main` is the place of the main
thread: in `poll` of the control loop, between lock, send and unlock of each of
the three messages that hand over a test, in the loop that asks for a token, in
`park`, in `join`. One action per state of the handshake; the server answers,
refuses, closes the connection or keeps silent. The end of the stream is one event
(`ReceiveEof`); the reset that answers a `StopSessions` sent after it is another
(`ReceiveReset`), and each has a finished test run again.

**`TestSession`** holds the operators of `session.rs`, without state: the record
of a packet is its number, the reflector's number (`None` until answered) and
`t1`, represented by the packet whose transmission it times. `t2`, `t3`, `t4` are
set together with the reflector's number. Numbers wrap at `Word`, 2^32 in the code.
Sorting and filtering are one operator, `Arranged`: the elements at some places of a
sequence, each at its rank (`UpTo`) among the keys. The loop of
`analyze_packet_loss` is a recursive function (`LossLoop`).

**`TwampLight`** (`MCTwampLight`, `TwampLightProofs`) extends it with the callbacks of sender and
reflector, one action each, and the network: a queue per direction and pair. The
reflector's socket has a buffer and an edge, because its callback takes one
datagram for an edge, and is gone (`deaf`) once `recvmsg` has failed. The
kernel's timestamps travel from `unstamped` to `errqueue`. `Faults` chooses among
loss, duplication, reordering, expiry of reflector sessions, refused sends and
ICMP errors.
`Buffers` chooses what a build makes of the control buffers that `to_msghdr`
(`socket.rs:194`) leaves dangling: apart, one slot shared by the headers of a
`recvmmsg`, or overwritten before they are read.
`arrived` and `expired` are history variables for the properties about loss and
about reflector sessions that were dropped.

**`NtpTime`** (`NtpTimeProofs`) has the conversions of `time.rs` and the signed
difference of `interval.rs` as operators. The units are constants, so that TLC
can take a second of ten nanoseconds and the proofs hold for those of the code.
What `f64` does to the seconds (`timestamp`) is modelled by its effect: in the
last `HalfUlp` nanoseconds the sum is the next second.

**`Measurement`** (`MCMeasurement`, `MeasurementProofs`) takes the packets of one
session through these conversions: `t1` from the sender's clock and later from the kernel, `t2` and `t3`
from the reflector's clock by way of a packet, `t4`; then
`calculate_session_results`. Quotients are kept as numerators, so all is exact; sums
are a recursive function (`Sums`).
`trips` records what really happened to each packet.

**`ControlServer`** (`MCControlServer`, `ControlServerProofs`) is the server with
its two threads, and clients. Descriptors are the process-wide numbers both threads use: `owner` says
what each is, `Lowest` is the kernel's choice, `Close` acts on numbers. The
control thread has the same drain, poll, dispatch cycle as `EventLoop`, reduced
to what it uses; one action per state and command of `ControlSession::transition`.
Sending to the worker is split where the mutex is released (`Unlock`), because
the worker may take the message before that. A stream is the sequence of
messages not yet read; `recv` takes all of it and the first message is parsed. A
client closes with `fin`, or with `rst` when it has unread bytes. The client's
test is one step between `ClientStartAck` and `ClientStops`; its two threads are
in `ControlClient`. `Settings` gives the limits on descriptors to be explored, and
with each the ports that the clients ask for. The server is `starting` between
`bind()`, which already listens, and `Listen`, which is `listen(0)` and the
registration of the listener; `Early` are the clients that may connect before that.

**`BasicFacts`** has lemmas on quotients, least elements, induction and the sequence
operators of the community modules, and **`SessionProofs`** has those on the
operators of `TestSession`. The other proof modules share them; both model nothing.

## Runs

Passing:

| run | instance | shows |
|---|---|---|
| `loop` | the five programs; the worker with a peer sending any 3 messages and callbacks that send too | what is registered is polled; no panic; overtime removes the timers; no stale event until then; no Ok before a deadline; a deadline ends the run; `LoopLife` is implemented |
| `client` | the two threads of one client, two tests at most | the main thread holds the mutex only where it should; it waits in `park`, for a token and in `join` only for a worker that will answer, but for named exceptions; the sending timer gets the test's socket; a test handed over ends and `execute()` returns |
| `light_ordered` | 1 sender, 1 target, 4 packets, 1 duplicate, loss, buffers apart (the loss report looks at no timestamp) | forward loss never over-counted, directions add up |
| `light_faults` | 3 packets, 1 duplicate, every fault | records numbered as sent; only arrived packets taken for answered; no two packets of one reflector session with one number |
| `measurement` | 5 packets, 3 offsets of the clocks, 3 kinds of trip, 2 starts | delays exact but for a slipped second; jitter free of the offset; order statistics, averages and deviations consistent; round trip = both ways + time at the reflector; every packet answered or lost |
| `control` | 2 clients that may die at any time, one of them maybe early; own ports and 4 descriptors, or one port and 2 descriptors | client and server in step; every polled connection has a session; everyone who connects is greeted; a client that closes is released |

Violations, each a finding in `PROJECT.json` with the line it contradicts:

| run | instance | what the code does |
|---|---|---|
| `loop_stale_event` | the light sender's program | a stale event in the batch of the deadline skips the overtime |
| `light_reordered_loss` | 1 target, reordering | the loss report does not add up |
| `light_two_targets` | 2 targets, 2 packets, no fault, buffers apart | a correction tick between the timestamps of one send gives them to the wrong target |
| `control_own_session` | 2 clients | a reused descriptor is served by the session of its last owner |
| `control_accepted` | 1 client | the worker dies on the mutex, the session is accepted |
| `control_blocked` | 3 clients, 3 descriptors, symmetric | the callback of a connection that a stale `Clean` has closed reads the connection that took its number, and blocks until that client sends |

**Modelled as the code does it, with no run of its own.** The actions below
follow the code where a comment or a name suggests something else.

- `EnterOvertime` with `last_message_timeout` 0: the overtime timer is disarmed
  and `run()` does not return. `DeadlineEndsRun` leaves this value out.
- `FinishCleanup`: unregistering the cleanup timer, which is in no table, fails
  (`epoll_loop.rs:201`), so that `run()` ends with an error and all sources and timers
  are still registered, where `event_loop.rs:101` has them cleared.
- `Sweep`: the read guard of `epoll_loop.rs:230` keeps `unregister_event_source` from
  writing, so that closed sources stay in the table. The next `Clean` closes their
  numbers once more, whoever has them by then.
- `HandleRegisterTimed` for a source that is not there: the timer is polled but in no table,
  and its first tick is taken for the end of the run (`OkAfterDeadline` counts it so).
- `retrieve_data_from_header` with a shared buffer: both timestamps of a pair are the second
  one, and a single one is found twice, so that `StampsAligned` fails even with
  one target. `TypeOK`, `AnsweredArrived` and `ReflectionsDistinct` are checked for
  every outcome. A refused send, which gets no timestamp, breaks `StampsAligned` too.
- `ReflectorRxCallback`: with a burst in one edge, all but the first datagram wait
  for the next edge; after the last packet of a test they are never answered and
  count as lost. `ReflectorRxError`: the reflector does not listen any more.
- `JoinEnds` names what leaves `execute()` in `join` for ever: a handshake that
  was not finished (`control_client.rs:132`), a callback that failed. `Abandoned` names what leaves it in
  `park`: a worker ended by the race for the mutex or a system call, or by its own cleanup while
  the end of the stream, which nobody reads as such
  (`control_client_session.rs:250`), has the test run once more.
- A test that is run once more gets, for its sending timer, the token published
  last (`control_client_session.rs:280`), which is that of the cleanup timer and no
  source; the timer's first tick ends the worker. `TimerOnSocket` holds until the
  server closes the connection.
- `ReceiveServerStart`: four of the refusals are `todo!()`
  (`control_client_session.rs:134-137`), which ends the process.
- `ReceiveError` and an end of stream that comes with a last message in one edge:
  the descriptor stays open for ever. `LeaversReleased` leaves these out.
- `StopSessions`: the `Clean` it sends closes every socket of the worker, those of
  other control sessions too, where `control_session.rs:184` speaks of "the sessions
  socket". `control_blocked` shows what becomes of the numbers.
- `Connect` before `Listen`: with two early clients one edge reports both, `accept` takes
  one, and the other fills a queue whose limit is now zero: no edge ever comes again
  and nobody else is accepted (`control.rs:51-61`). With `Early <- TwoClients`
  `EveryoneGreeted` fails.
- `from_datetime`: today's seconds leave 238 ns between two `f64` sums, so from
  999,999,881 ns on the seconds are the next ones and the fraction is still that of
  this second (`time.rs:260`): the time is a second late. `DelaysExact` says what that
  does to each delay (`Slip`). The seconds wrap in 2036 in a release build, and `try_from`
  undoes it; a debug build panics there.
- `CleanupStaleSessions` in mid-test: the reflector's numbers restart at 0 and
  the next difference counts earlier packets as lost; `LossSound` is checked
  without expiry.
- `CountForward`: the first record and losses after the last answered packet are
  never attributed to the way out; `LossSound` bounds the forward count from above.
- `PortInUse`: a request for a port in use closes the control connection; no
  other port is proposed (`control_session.rs:193`).
- `AcceptFails`: a failed `accept` unregisters, and so closes, the listener.

**Bounds.** (`loop`) Three messages suffice for the worker: source, timer and ending timer
is the longest dependent sequence in the repository, and `MaxSends` leaves each
position free for any message. A loss report needs four packets to see the
skipped first record, a gap and two answered packets around it. With two clients
every step of one meets every step of the other, and a number is closed and
reused; two descriptors are what one client needs, so the second runs out. The
invariants of the server are proved for any number of clients; `EveryoneGreeted` and
`LeaversReleased` are only checked, for two. A third client is what it takes to block
the control thread (`control_blocked`), and one early client is all that
`EveryoneGreeted` allows for. `client`: six sends
are two tests of three messages, the second one started by the end of the stream
or, if that came behind the acknowledgement in one event, by a reset; a third test
would need both, one after the other (`ReceiveReset` is bounded by `sends >= 3` for
that). `WorkerTokens` are the tokens that they can take. `measurement`:
a second of 10 ns with 43 fractions (the code has 4.29 to a nanosecond), of which
the last slips (`HalfUlp` 1 of 10; 119 of 10^9 in the code), a start at 61 so that
the era of 16 seconds from `NTP_EPOCH` 9 ends in mid-test, offsets of both signs
and of more than a second, and five packets, so that samples are empty, of one
element, odd and even.

**Fairness.** `EventLoop`: weak fairness of the owner thread, which never waits
longer than the 100 ms of `poll`, and of the expiry of each armed timer. Nothing
is assumed of descriptors or of the peer. `ControlServer`: weak fairness of the
server's two threads, none of the clients. `ControlClient`: weak fairness of both
threads (the main thread sleeps for bounded times only), of the control loop's
deadline and of the worker's timers; nothing of the server, which may be silent
for ever. Connecting is a step of the main thread: `connect()` succeeds or fails.

**Deadlock** is checked in every run; the steps in which nothing happens
(`Returned`, `Done`, `Idle`, `Waits`, `Concluded`, `ExecuteReturned`) are enabled only where the program has returned or
really waits in `poll`.

## Proofs

`EventLoopProofs` proves for every program, every set of messages and every
bound: `TypeCorrect`, `AlwaysPolled`, `NeverPanics`,
`OvertimeIsQuiet`, `NoStaleEvents`, `NeverTooEarly`, all from `Inductive`
(`Spec => []IndInv`). The assumptions are those on the constants: programs are
sequences of calls, messages are well formed, `NoToken` is no token.

Why the properties are not inductive alone: that a token names one descriptor
needs every token in use to be below `next_token` (`Issued`); that a deadline has
expired when its event is dispatched needs every edge of a one-shot timer to
belong to a timer no longer armed (`EdgesExpired`); that `expect` is safe needs the
link between overtime, cleanup and the cleanup token (`Stage`), and that the cleanup
token is in no table (`CleanupUnlisted`); `OkAfterDeadline` needs the same fact to hold from the
moment overtime starts (`OvertimeAfterDeadline`). The proof goes in three layers:
types per operation and action (`NextType`), the tables (`NextTables`), and the
progress of the run (`NextProgress`); `NextInv` combines them.

`ImplementsLife` (`Spec => L!LifeSafe`) maps every step to a step of `LoopLife` or a
stutter. `due` cannot be read off the kernel's state, since a timer that has been
dispatched leaves no trace; that is what `expired` is for, and the main lemma is
that `DeadlinePassed` is changed by `Expire` only: registering or dropping a
timer never makes a deadline pass or forgets that one has. The step from
`overtime` to `ok` rests on `Stage` and `OvertimeAfterDeadline` of the inductive
invariant.

`NtpTimeProofs` proves for all units with at least two fractions to a nanosecond:
`CarriedExact`, a time that went through an `NtpTimestamp` comes back with its
nanoseconds intact and the seconds that `timestamp` made of it, in every era; and
`SubExact`, a difference is that of the nanoseconds since 1970, with its sign. The
argument for the first: the fraction cut off is less than one, that is less than
half a nanosecond, which rounding puts right (`NanosReturn`); the epoch is added
and taken off modulo the size of the seconds (`EraReturns`). `UnitsAssumption` is the
only assumption, and `measurement` evaluates it.

`MeasurementProofs` takes this to whole packets: `DelaysTrue` (`DelaysExact`), for
any number of packets, offsets, starts and trips. By itself a delay says nothing
of how its times came into the record, so the invariant (`MeasurementInv`) is that
every record holds what the clocks really showed, after the conversions that the
time went through (`Recorded`), and that the records are those of the trips, in
order (`Types`). The kernel's time may replace `t1` before or after the answer.
`RangeAssumption` limits the packets to what a u32 numbers, and the clocks to
the seconds they can count; `measurement` evaluates it.

The report is then taken apart for samples of any size: `TypesKept`, `PacketsCounted`,
`AveragesFit`, `SummariesFit`, `JitterTrue`, one for each other property of the run.
`ReportInv` says that a report is that of the session as it now is; `ReportShape` that
its samples are the delays of the answered packets, taken at the same places in the
same order as the true trips (`Delivered`), which is what makes jitter comparable. That
a sum survives sorting (`SumPermuted`) links the average, summed before the sort, with
the extremes and the deviation, computed after it. `PercentilesOrdered` is about
`percentile` and `median` on a sorted sample: no index is out of bounds, and minimum,
lower percentile, median, upper percentile and maximum are in order. The bound on the
deviation (`DeviationBound`) compares each square with the chord over the interval
of the sample. `NoSlips`, where a property has it, says that no time of an answered
packet fell into the last nanoseconds of a second.

`SessionProofs` has what the operators of `TestSession` return for sequences of any
length. `Arranged` takes each place once, in the order of the keys
(`ArrangedProperties`): ranks differ, and there are as many as places. `LossLoop` and
`Sums` do what their definitions say (`LossLoopUnfolds`, `SumsUnfold`). What they
compute is shown by induction on a set of numbers (`Induction` in `BasicFacts`), which
rests on the well-foundedness of the natural numbers. `ForwardBound` is
the heart of the loss report: if of any two answered packets the reflector's numbers
are at least as far apart as there are packets that arrived after the first, up to the
second, then the forward count is at most the number of packets that never arrived.

`ControlClientProofs` builds on `EventLoopProofs`: a step of the main thread leaves
the tables of the loop alone, so the worker keeps `IndInv` (`LoopUntouched`), and
`WorkerLives` is `ImplementsLife` again with two threads. `ClientTypeCorrect`,
`NeverWaitsForNobody`, `TimerFindsSocket` and `JoinWillEnd` follow from `ClientInv`,
which adds where the main thread is: the mutex is held exactly between `try_lock()`
and the end of the scope (`Threads`); the worker gets messages of a test only, and
none before the first (`Messages`); until the first test has its timer, the
published token can only be that of the socket (`FirstToken`); what the main thread
waits for is in the inbox from the moment of sending (`Waiting`); and from the
moment the worker takes the cleanup over, a timer that ends it is armed, reported
or in the batch (`TakenOver`). `WorkerAssumption` is what the client's code does
before `run()`: it sets the overtime only. `JoinWillEnd` has the hypothesis
`OvertimeNotZero`: with `last_message_timeout` 0 the worker's overtime never ends.

`TwampLightProofs` is for any number of senders, targets, packets and copies, and
for every set of faults. `TypeCorrect` includes that records are numbered as they
were sent. `AnsweredIfArrived` needs the same of everything that may still become
an answer: what is in a reflector's buffer and every reply under way (`Reached`).
`ReflectedOnce` needs a count (`Budget`): the number a reflector is at, the probes
under way and those in its buffer together are no more than the packets sent and
the copies made; then numbers do not wrap, and each is given out once until the
session is dropped (`NumbersOnce`). Its hypothesis is `MaxPackets + MaxCopies < Word`;
beyond a u32 numbers do repeat. `LossReportSound` (`LossSound`) gives `ForwardBound` its hypothesis. The
numbers are not in the records only but also in replies under way and, still to be
given out, with the probes in a reflector's buffer: these are the `Events` of a pair. The
invariant (`LossInv`) is that probes arrive in the order of sending (`Orderly`), that
any two events are as far apart as the packets that arrived between them (`Spaced`),
and that the next number to be given out will be, too (`Open`; a reflector that has
lost its socket gives out no more). Its hypotheses are those without which the property
fails: no reordering, no expiry, and numbers that do not wrap. Loss, copies,
refused sends and socket errors remain. The instances of the
runs satisfy these hypotheses.

`ControlServerProofs` is for any number of clients and descriptors, and every
choice of ports and of early clients: `TypeCorrect`, `SessionForPolled`,
`MessagesInStep`, from `ServerInv`. Its parts: a client has one connection at
most and is in the accept queue once, and what is polled, or is in the inbox to be
polled, has a session (`TablesInv`); at most one message is under way for a client,
the one that its state stands for, and the session about to be accepted is one
whose client waits for that and for nothing else (`StepInv`). The
reason why it survives the worker closing the wrong descriptor is that closing any
set of numbers preserves it (`CloseKeeps`): a connection that goes away takes its
turn with it.

Only model-checked is liveness, which is out of the prover's reach:
`DeadlineEndsRun`, the fairness in `LivesAsPromised`, `HandedOverReturns`,
`EveryoneGreeted`, `LeaversReleased`. Every invariant of a passing run is a theorem.

## Not modelled

The offset estimator and the GAMLR offset (floating-point regression on random
samples); rounding of `f64` in statistics, which are exact here; `sqrt` of the
variance; serialisation, formatting of dates, configuration
and errors; options of sockets; IPv6 addresses; commands that no client of the
repository sends (StartNSessions and the like, which are `unimplemented!`);
refusals by the server, which it never sends; errors of the calls before `run()`,
which end the program; a greeting that cannot be sent, which would drop the listener but
takes a client that resets its connection before it is accepted; partial reads of control messages,
which are at most a few hundred bytes. The hazards without a property say what is
missing for each.

## Plan

1. Done: `EventLoop` with its proofs, `TestSession` and `TwampLight`,
   `ControlServer`; then `LoopLife` and the refinement, `ControlClient`, the
   reflector's socket, `NtpTime` with its proofs, `Measurement`.
2. Done: proofs about `TwampLight`, `ControlServer`, `ControlClient` (on top of
   `IndInv`) and `Measurement`.
3. Done: sorting, filtering, the loss loop and the sums as operators that can be
   proved about; proofs of the loss report and of the statistics.
4. Open: the reflection of test packets by the server's worker, the layout of
   addresses in `message.rs`.
