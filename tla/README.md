# Verification of the SmartFactory telemetry programs

TLA+ models of the MQTT and CoAP programs of this repository, checked with TLC and,
where a result should hold for every size of the system, proved with TLAPS. Paths
are given from the directory that holds the repository (`src/` is its root, so the
Python packages are under `src/src/`).

## The system

| Part | State it keeps | Operations | Talks to |
|---|---|---|---|
| MQTT publisher, `src/src/mqtt/publisher.py` | `_seq`, the loop over lines and sensors, and in paho: connection, unacknowledged messages, will | `connect`, `publish_reading`, `disconnect`, `run`, Ctrl-C | the broker, through paho's network thread (`loop_start`) |
| MQTT subscriber, `src/src/mqtt/subscriber.py` | `_msg_counts`, `_alerts_fired`, `_last_summary` | `on_connect`, `on_message`, `run`, Ctrl-C | the broker's persistent session, in its main thread (`loop_forever`) |
| Broker (mosquitto, `src/config/mosquitto.conf`) | sessions, queues, retained messages, armed wills | external | both clients |
| CoAP server, `src/src/coap/server.py` | `_reading` and an update task per sensor, the fan's `_state`, observations (in aiocoap) | update loop, `render_get`, `render_put`, `build_server`, `shutdown` | CoAP clients; one asyncio event loop |
| CoAP observer, `src/src/coap/observer.py` | `_ctx`, `_last_seq`, `_stale_count`, two tasks | `observe_resource`, `_handle_notification`, `fetch_manifest`, `run` | the server, over UDP |
| AMQP topology, producer, consumer, `src/src/amqp/` | counters | all unimplemented (`NotImplementedError` or `pass`) | RabbitMQ |
| Packet capture generator, `src/scripts/generate_captures.py` | the frames, two stream positions, two results; two files | `capture_mqtt`, `capture_coap`, `main`, the packet encoders and their annotations | the broker over a raw socket, a CoAP server of its own over UDP |
| Proxy fixture, QoS loss experiment, other scripts | none that outlives a call | test and measuring tools | the above |

What is hard here, and what makes each part correct:

* **Publisher.** Two threads, a connection that breaks at any point, a will that the
  broker publishes on its own, and a process that is killed and started again with
  the same client id. Correct means: lines are announced before readings and said
  goodbye to by a clean stop, a death is noticed, QoS 1 and 2 readings arrive, QoS 0
  and 2 readings arrive at most once, Ctrl-C ends the process.
* **Subscriber.** Redelivery, a bounded session queue that refuses messages, retained
  messages sent again with every subscription, exceptions and Ctrl-C inside
  `on_message`. Correct means: nothing the session took over is lost, and the status
  of each line converges to the retained one.
* **CoAP observer.** Notifications lost, late, repeated and out of order, a 24-bit
  number that wraps around, two tasks of which one may fail, a timeout, Ctrl-C.
  Correct means: fresh notifications are kept, old ones are not taken for new ones,
  every observation is cancelled, the program ends.
* **CoAP server.** Updates racing notifications and cancellation, a start that fails
  half-way. Correct means: no observer misses an update, no task outlives the
  context.

* **The MQTT programs together.** They share nothing but the broker, and each is
  acknowledged by its own end of it. Correct means: somebody answers for every reading
  of QoS 1 and 2 until it has been handled, and what the subscriber printed last for a
  line is what the broker retains.
* **Packet capture generator.** A byte stream that arrives in pieces, a client id shared
  with the publisher, timeouts of which some are caught, datagrams that are late, files
  left by earlier runs. Correct means: packets can be read back, the captures are
  consistent streams, what is printed of the answers is true, and so is the summary.

The complete list, each at its line, is `hazards` in `PROJECT.json`.

## Modules

| Module | Models | State and actions |
|---|---|---|
| `MqttPublisher` | publisher, paho, connection, the broker's part for this client | `pc` is the main thread: `Connect`, `WaitOver`, `AnnounceOnline`, `PublishReading`, `Interrupt`, `AnnounceOffline`, `LoopStopped`, `Disconnect`, `Die`, `Restart`. The network thread: `Dial`, `DialFails`, `OpenSocket` (CONNECT), `Redial`, `Connected` (CONNACK), `Acked` (PUBACK, PUBCOMP), `Received` (PUBREC). Connection and broker: `Drop`, `DetectLoss`, `BrokerReceives` (`ReceivesStatus`, `ReceivesReading`, `ReceivesRelease`), `BrokerDisconnects` |
| `MqttSubscriber` | subscriber and its persistent session | `OnMessage`, `OnMessageInterrupted`, `OnMessageRaises` are the three ways a call of `on_message` ends; `Connected` is `on_connect`; the broker's side is `Enqueue`, `BrokerPublishes`, `BrokerSubscribes`, `BrokerAcked` |
| `CoapObserver` | `run()` and its tasks, the freshness check | `Stale` is lines 72-76; `Register`, `HandleNotification`, `TimedOut`, `StreamEnds`, `StreamFails` per task; `GatherReturns`, `GatherRaises`, `FetchManifest`, `Interrupt`, `Stop`, `Exit` for `run()` |
| `CoapServer` | update tasks, observations, actuator, start and end | `Update`, `Observe`, `Render`, `Deregister`, `Get` of a sensor, `GetFan`, `Put`, `Build`, `Bind`, `Shutdown`, `CloseContext`, `Exit` |
| `Custody` | what a chain of MQTT programs promises of a message | `at` says who has it; it moves from "new" to "sender", "broker" and "done", never back, and only the sender may lose it |
| `MqttSystem` | `MqttPublisher` (extended) and `MqttSubscriber` (an instance) joined by the broker | `Receive`, `TakeOver`, `NoticeLoss` are the steps in which the broker passes a message or a will on to the session; every other step is one of one program |
| `ObservedState` | what observing a resource promises | `Change`, `Tell` |
| `PacketFormats` | the encoders of the capture generator and the annotations that decode | operators on sequences of bytes |
| `Captures` | the rest of the capture generator | `Dial` to `SendDisconnect` are the MQTT exchange, `Build` to `CloseCoap` the CoAP exchange, `Open`, `Write`, `Summary` the files and `main`; `BrokerTakes`, `BrokerCloses`, `Serve`, `Lose` the others |
| `*Proofs` | theorems about the module of that name; those about the publisher's statuses are in `MqttPublisherStatusProofs`, those about the capture generator's packets in `CapturesPacketsProofs`; `MqttSystemProofs` builds on the proofs of both programs | |
| `MC*` | constants for TLC | |

The `map` of `PROJECT.json` gives the source lines of every definition. A definition
whose comment begins with "Mutated form" is a wrong version of the one that follows it,
kept to show that the properties can fail; no specification uses it.

### What is abstracted

Values, units, timestamps and texts are left out. A reading is its line, sensor,
sequence number and process run; a message to the subscriber is its topic, QoS,
publication order and the class of its payload (critical, undecodable, mistyped, any
other); a notification is its Observe number and the lap of the counter; the server's
reading is its version. paho, mosquitto and aiocoap are modelled from how the
programs use them:

* paho's `publish()` looks only at whether it has a socket: there is one from the moment
  `reconnect()` has opened it (`link` is "opening"), and what is published then goes out
  right behind CONNECT. What paho had unfinished at that moment (`owed`) is sent again
  only when CONNACK arrives (`Connected`), behind what was written in between. A message
  so written overtakes the older ones; `ahead` records the lines and runs this has
  happened to. A QoS 0 message goes out at once or never, one of QoS 1 or 2 is kept until
  it is finished. paho's thread ends after `loop_stop()` when nothing is left to send or
  acknowledge, or when it has no connection.
* The thread that `loop_start()` starts finds no socket yet, waits a second and dials,
  perhaps over the socket `connect()` has opened in the meantime (`Redial`). It counts
  as one of the connections that break. The broker reads nothing of a connection before
  CONNECT, so taking over the old session is part of `OpenSocket`. A connection on which
  a message was queued before CONNECT is one the broker closes, which is a broken
  connection; a CONNACK that refuses is not modelled, since `mosquitto.conf` lets every
  client in.
* QoS 2 is its four packets. The broker keeps a reading of QoS 2 at PUBLISH (`stored`) and
  passes it on at PUBREL (`ReceivesRelease`); paho keeps the message until PUBREC and
  its release from then until PUBCOMP, and sends either again on a new connection. A
  PUBREL that comes again releases nothing. What an earlier run of the process has left
  unreleased stays in the broker's store: the new process knows nothing of it.
* paho's limit of 20 messages in flight is not modelled: all that is published on a
  connection is written to it. Only with more than 20 unacknowledged messages would one
  wait, behind all of them.
* mosquitto publishes the will when a connection ends without DISCONNECT, also when
  the same client id connects again; it acknowledges what it receives, in order.
  A session's queue takes what it has room for. On overlapping subscriptions it may
  send one copy or two.
* The 20 messages in flight and the 1000 queued are one bound, `MaxPending`: the
  subscriber handles one message at a time, so where a message waits makes no
  difference to it.
* In `MqttSystem` the broker passes a message on in the step in which it receives it, or
  its PUBREL. The bounds on failures of the two programs are one budget, `MaxFailures`, so
  that a failure may strike either side; a death, and a Ctrl-C of the subscriber, spends
  nothing but needs what is left of it, for what ends after the last failure is in its own
  module. The subscriber's summary clock and the ways `on_message` can raise are left to
  its own module: the publisher's payloads are JSON with a numeric value.
* In the capture generator packets are built byte by byte, with texts that matter by
  their length only; of a frame the model keeps the fields that say how long it is and
  where it stands in the stream. The datagrams of the CoAP exchange are told apart by the
  request they belong to. The broker's answers are those of a broker that accepts. Its
  server's update tasks are in `CoapServer`.
* aiocoap renders a triggered observation later, in its own turn of the event loop,
  and two triggers before that make one notification. The network may drop, delay,
  repeat and reorder notifications: `net` only grows and any element may be handled.

## Runs

| Run | Question and result | Bounds |
|---|---|---|
| `mqtt_publisher` | Safety of one process run with QoS 1 and 2. Passes. | two lines, a sensor of QoS 2 (statuses have QoS 1), two readings per topic, two broken connections |
| `mqtt_publisher_restart` | Restarts with an old session, no duplicates, and liveness. Passes. | one line, sensors of QoS 0 and 2, one reading per topic and run, one broken connection, two process runs |
| `mqtt_subscriber` | Nothing taken over is lost, statuses converge, `Custody` is implemented. Passes. | three messages of five kinds, queue of two, one broken connection, two process runs |
| `mqtt_subscriber_live` | Messages taken over are handled. Passes. | two messages, queue of one |
| `mqtt_system` | `Custody` from the publisher to `on_message`, no silent loss, the status shown is the one retained. Passes. | one line, one QoS 1 sensor, one reading per run, four messages passed on, session queue of one, one failure of either program (a broken connection or a second start) |
| `captures` | Encoders read back, captures consistent, verdicts, files and summary true, the script ends. Passes. | lengths and remaining lengths on both sides of every boundary of the encodings; two short reads |
| `coap_observer` | Freshness across the wrap-around, cancellation, termination. Passes. | two resources, counter of 9 with margin 3, four notifications each |
| `coap_server` | No update is missed, tasks end first, `shutdown()` returns, `ObservedState` is implemented. Passes. | two sensors, one client each, two updates |
| `mqtt_subscriber_blocks` | `BlocksUntilInterrupted` (docstring, `subscriber.py:117`). Violated: a payload that is not UTF-8, or a temperature whose value is not a number, ends the process. | as `mqtt_subscriber`, two messages |
| `observer_rfc` | `FreshPerRfcIsKept` (`README.md:40`). Violated: the number 2^24 - 256 does not count as close to the wrap-around (line 75 says `>`), so after it number 0 of the next lap is rejected, which RFC 7641 calls fresh. In the run, 28 is accepted and then 0 rejected. | counter of 32 starting at 27, margin 4, five notifications |
| `coap_server_put` | `InvalidPutIsBadRequest` (`tests/coap/test_server.py:108`). Violated: JSON that is not an object is answered 5.00. | four sensors |
| `coap_server_endpoints` | `AnnouncedIsServed` (`README.md:39`). Violated: two of the six announced endpoints answer 4.04. | four sensors |

Why the bounds are enough. The hazards of the publisher need statuses and a reading of QoS
2 under way when the connection breaks, and a second break while the first is being
repaired, between a socket and its CONNACK too; two lines tell the will line from the
other, and two readings of one topic meet in paho's queue. Its second run has the old
session, its wire and its will still open when the new process connects, which takes one
death; it has the QoS levels for which nothing may come twice, and its line is the will
line. A reading of QoS 1 does not occur in these two runs, where it would differ from a
status by its topic only: it is the reading of `mqtt_system`, and the theorems are about
all three levels. The queue of the subscriber overflows with two of three messages; an
exception on one message with another behind it, followed by a restart, needs two process
runs. With a counter of 9 that starts at 6, four notifications cross the wrap-around, and
the margin of 3 leaves numbers on both sides that the wrap-around test does not accept;
the theorems cover 2^24 and 256. The server needs a second update before the first
notification. The composition needs one reading, its two statuses, the will or a second
copy, and a failure on either side; a queue of one refuses as soon as a status and a
reading meet. In the captures each of the three answers can be split, and two splits leave
a rest of one answer and of the next in the buffer. `CHECK_DEADLOCK FALSE` is set
everywhere: the programs end, and an ended program has no step.

### Fairness

* Publisher: weak fairness of the main thread, of the broker and of the network
  thread's steps, since threads are scheduled and the broker is a running server
  (`docker-compose.yml` restarts it); strong fairness of `OpenSocket`, since
  dialling again and again succeeds once the broker is back, and weak fairness of
  `Connected` and of the acknowledgements (`Acked` or `Received`), which the network
  thread reads from a socket that stays. None for Ctrl-C, for
  death, for a broken connection or for a restart.
* Subscriber: weak fairness of the loop, of reconnecting and of the broker; none for
  publishers, Ctrl-C or restarts.
* Capture generator: weak fairness of the script itself, whose timers expire; none for
  the broker, the server or the network, so that it ends whatever they leave undone.
  `mqtt_system` has no fairness: the liveness of each half is checked in the run of that
  half, under the fairness of its own threads, and nothing in the code joins the two.
* Observer: weak fairness of the event loop's steps and of the timeout, a timer. The
  server need not notify and the network need not deliver.
* Server: weak fairness of the tasks, of rendering and of `gather()`. None for
  clients or for the end of the program.

## Properties

Publisher: `CleanStopIsVisible`, `NoDuplicateUnlessQos1`, `NumbersHaveNoGap`,
`NewReadingsOnlyWhileOnline`, `AnnouncedOnline`, `InterruptEnds`, `DeathIsNoticed`,
`EventuallyForwarded`. They state how far the code goes and no further. The docstring of
`disconnect()` promises that "offline" is published retained for each line
(`publisher.py:96`), and it is; that it also stays, or that readings keep within their
line's "online" and "offline", holds unless the line's messages were published between the
opening of a socket and CONNACK. Then "offline" goes out ahead of an "online" that paho
still owes, which is sent again behind it and stays, or a reading goes ahead of its line's
"online". `CleanStopIsVisible` and `NewReadingsOnlyWhileOnline` exempt the lines and runs
in `ahead`, and say that there is no other way. `CleanStopIsVisible` has no such exception
for the readings: all of QoS 1 and 2 are passed on before DISCONNECT, which is only sent
when nothing is left to be acknowledged, or not at all for want of a socket.
`NewReadingsOnlyWhileOnline` is about the moment the broker takes a reading: one of QoS 2
is passed on at its release, which may come after the goodbye. `DeathIsNoticed` has the
exception of `ahead` for a session that an earlier run's clean stop is still closing. The
exception for the will line in `AnnouncedOnline` is there because `on_connect` does not
announce again; `DeathIsNoticed` speaks of the will line only, because the will covers
`line1` alone: after an abnormal death `line2` stays "online".

Subscriber: `NothingTakenOverIsLost`, `StatusConverges` (except for a status the full
queue refused during this connection), `EventuallyHandled`, `ImplementsCustody`. That a
message is handled more than once is in the model and contradicts nothing the repository
says.

System: `SystemImplementsCustody` (the refinement mapping reads who has a reading off
paho's queue, the wire, the session's queue and the calls of `on_message`),
`NoSilentLoss`, `ShownIsRetained`. The reasons a reading may be lost for are real: a
killed publisher takes its queue with it, and a session that is full, or was never opened
because the subscriber has not run yet, takes nothing over.

Captures: `LengthsReadBack` and `RequestsParse` look at the encoders before the first
step; `StreamsReassemble`, `MatchIsGenuine`, `VerdictIsGenuine`,
`OnlyWholeExchangesAreSaved`, `SummaryIsTruthful`, `Finishes` are about the run.
`OnlyWholeExchangesAreSaved` says when an earlier file may be touched: `mqtt.pcap` only
after the whole exchange, so that a failed one leaves it alone; `coap.pcap` is replaced by
captured packets after a whole exchange, but also, by the synthetic ones, when the GET was
not answered (lines 515-520). Two more go as far as the code does: `RequestsParse` holds
for path segments of up to twelve characters, which is all the script uses (a longer one
needs an extended length that `_coap_options` does not write); and "OK" in the summary
covers the synthetic file too. `RequestsParse` leaves out one packet, the synthetic
notification of lines 600-602: its first byte is `0x50`, which counts no token bytes,
though eight of them follow, and after the Observe option the byte `0xC1` adds 12 to the
number 6 and names option 18, where the comment says Content-Format (12). A dissector
cannot read that packet the way its comment does.

Observer: `FreshIsKept`, `NeverGoesBack`, `AllDeregistered`, `SummaryAfterAll`,
`EventuallyExits`. `NeverGoesBack` has two exceptions, both real: a notification sent
before the wrap-around is accepted after it, and a number almost a lap old is taken
for one that wrapped around.

Server: `QuietMeansCurrent`, `NumbersFollowReadings`, `NoTaskOutlivesContext`,
`ShutdownReturns`, `ObserversAreTold`, `ImplementsObservedState`.

## Proofs

The assumptions are the named `ASSUME`s of the modules: types and signs of the constants
(the session's queue holds at least one message), that `"status"` names no sensor, that
the will line is a line, that no line is listed twice (`LINES = ["line1", "line2"]`,
`publisher.py:31`), and `2 * Margin < Wrap` (the code has 256 and 2^24).

* `MqttPublisherProofs`: `TypeCorrect`, and `AnnouncedAlways`, which needs a
  strengthening. `AnnouncedOnline` alone does not survive an acknowledgement (what is
  acknowledged might never have been shown) or a restart (the wire may still hold the
  previous run's "offline"). `IInv` adds: without a network thread there is no
  connection, acknowledgements only exist on a connection, and what waits for CONNACK is
  the oldest of what paho holds (`Connections`); what
  paho holds, and what is on the wire of a connection of this run, is of this run
  (`Runs`); this run has sent no "offline" before `disconnect()` (`NoGoodbye`); an
  acknowledged "online" has been shown (`AcksShown`); an announced line is shown or
  queued, and queued as long as the wire holds another run's messages
  (`ShownOrQueued`). The lemmas `RemoveOne`, `MaybeAppended`, `TailElements` say
  what paho's queue operations keep.
* The second half of `MqttPublisherProofs`: `NumbersAreWhole` and `NothingTwice`, from
  `FlowInv`. A step that hands a message over needs to know that it hands it over for the
  first time: `Numbered` (a run's numbers are those of its readings, the last of one topic
  missing once Ctrl-C has come between the two lines) and `Unsaid` (statuses that the main
  thread has yet to publish). `Flow` follows a packet, a message or its release (`Origin`
  is the message of either): what is under way was handed over (`Traced`), nothing is in
  two places at once (`Single`), while there is a socket all that paho holds is on its way
  there, or its acknowledgement on its way back, or waits for CONNACK (`Carried`), and the
  wire of a connection that is gone is an earlier run's (`OldWire`). Then `AtMostOnce`: a
  QoS 2 reading is not passed on before its release, and is under way itself no more after
  that; a QoS 0 reading that is on the wire has not been passed on. And `NoneLost`: a
  reading of QoS 1 or 2 is held, or its release is, until it is passed on.
* `MqttPublisherStatusProofs`: a line that is in `ahead` is exempt (`Late`), and of any
  other what waits for CONNACK has no company on the wire (`Parted`), so that appending it
  there keeps the order of the line. `CleanStopShown` needs that "online" of a line never
  comes after its "offline" (`Ordered`), neither in paho's queue nor on the wire; then an
  acknowledged "offline" is the last word (`AcksGone`), and each line that the goodbye
  loop has passed is shown offline or will be (`Goodbyes`). `ReadingsWithinSession` needs
  the readings between the two (`Bracketed`): in front of each reading not yet taken, on
  the wire (`OnWire`) and in paho's queue (`OnHold`), stands its line's "online", unless
  that is shown already, and no "offline".
* `MqttSubscriberProofs`: `TypeCorrect`, `NothingIsLost` and `Refinement`, for any feed,
  queue bound and number of failures. `NothingTakenOverIsLost` alone does not survive an
  acknowledgement: it takes the oldest message out of the session's queue, whichever that
  is, and nothing says it is the one `on_message` returned from. `IInv` says so.
  `Aligned` places the wire within the queue: a function `g` tells, for each message on
  the wire, how many of the queue have been acknowledged once it is handled, so the QoS 1
  message at the head of the wire is the oldest unacknowledged one (`WireHead`), whatever
  QoS 0 messages and copies stand between. `Session` says the acknowledged ones were
  dealt with, and `Identity` that an id names one message and that a retained message is
  not handled before the session takes it over, which is what `Refinement` needs to map a
  SUBSCRIBE to a step of `Custody`. `Stretched`, `AlignedSent`, `AlignedAcked`,
  `AlignedRead` and `AlignedAgain` give the `g` after each kind of step.
  `StatusReachesScreen` is `StatusConverges`, which speaks of an empty wire only. Its
  invariant `Converging` says of each retained message what is true on the way there: it is
  the last of its topic on the wire, or nothing of its topic is and it is on the screen, or
  the session will send it again after a SUBSCRIBE still to come, or has refused it
  (`UpToDate`).
* `MqttSystemProofs`: `ReadingsAccountedFor`, `ScreenIsRetained` and `SystemRefinement`, for
  any lines, sensors, queue bound and failures of either program. A step of the system is
  a step or a stutter of each program's module (`SystemSteps`), so the invariants of both
  hold: the publisher's `FlowInv`, and `SubInv`, the subscriber's `IInv` and `Converging`.
  The lemmas about the subscriber are taken by INSTANCE, for the feed of all messages the
  publisher can send; what its module assumes of a feed and of its bounds is proved of them
  (`FeedIsFit`, `BoundsAreFit`). The two invariants know nothing of each other, and
  neither program sees the other: on top of them `Ties` says what the broker's steps keep
  equal on its two sides. The log numbers what was passed on as the session does (`Logs`); a
  reading counted as forwarded is in the log, and one in the log was handed to paho
  (`PassedOn`); the status the broker has of the publisher is the one it retains for the
  subscriber (`Mirror`); and what the session, the connection and the subscriber know is
  a message of the log as it was sent (`Recorded`). Then a reading that nobody
  has was forwarded, or else its process is gone (`NoneLost`, the publisher's), and the
  session took it over and answers for it, or refused it (`Answered`, the subscriber's).
  `HolderIs` tells who has a reading by three conditions, on the two queues and on the calls
  of `on_message`; `InFlightSteps`, `PassedOnSteps`, `DoneSteps` and `WaitingSteps` say how
  each may change, and `ChainSteps` that together they are a step of `Custody`. The one that
  is not obvious is `DoneSteps`: with QoS 1, `on_message` returns from a message for the
  first time only while the session still holds it, for otherwise a message would be
  done that the session had never answered for.
* `CoapObserverProofs`: `TypeCorrect`; `FreshKept` and `GoesForward` for every width
  and margin, from the invariant that `_last_seq` is the number of the last accepted
  position; `NothingLeftRegistered` and `SummaryIsLast`.
* `CoapServerProofs`: `TypeCorrect`, `NoUpdateIsMissed` and `NumbersInOrder` from
  `Notified` (a triggered observation has carried less than the current reading, a
  quiet one exactly that, and a number never exceeds the version it carries),
  `TasksEndFirst`, and `Refinement`: the server implements `ObservedState`. Its lemma
  `StepTells` maps `Update` to `Change`, and every other step to `Tell` or to a stutter.
* `CapturesProofs`: every safety property of the capture generator's run, for any number
  of short reads. `StreamsAreWhole` is about sums over the frames, which `BytesOf` defines
  by recursion. Induction is stated for sets of numbers instead of formulas (`Induction`,
  `CourseOfValues`, both from the least element of a set that well-foundedness gives):
  `SumExists` and `SumsAgree` say that such a sum exists and depends on what is summed
  only, `BytesNext` that a frame adds its share, and `Continued` that a frame with the
  script's numbers continues both streams. In the same way `VarintSeq` shows that the
  encoding of a remaining length is a sequence, so that a packet has a length
  (`PacketLengths`). `Recorded` says which capture the frames belong to and how many there
  can be; `Streams` where the streams end, with the sequence numbers the script is left
  with. `MatchesAreGenuine` rests on `Unacknowledged`: before the broker has the
  publication at most three bytes of CONNACK are left, and a match takes four.
  `VerdictsAreGenuine` rests on `FanTurned`, the summary on `Saved` (the two flags are the
  files that are complete), and `WholeExchangesOnly` on `Exchanged`, what has been
  recorded at each step, the lone request of an unanswered GET included: the answer
  recorded first is that to GET because nothing else has been asked.

* `CapturesPacketsProofs`: `LengthsAreReadBack` and `RequestsAreParsed`, for all lengths
  that a field of two bytes can count. A reader knows a place in a packet, not the parts
  it was put together from: `Carries` says that bytes stand in a packet from a place on,
  whatever is before and after them, `CarriesParts` takes a concatenation apart and
  `CarriesRead` reads a part. Varints go by `CourseOfValues`: the bytes of a number end at
  the first unmarked one and stand for it wherever they are (`VarintStands`), which
  determines what `VarintAt` finds (`VarintRead`); `FourBytes` unfolds four digits.
  `WithLengthRead` gives the place where the body begins (`Framed`), from which
  `PublishRead` and `ConnectRead` go field by field. The bitwise operators are needed for
  the bytes that occur, of which there are finitely many (`Octets`, `PublishByte`,
  `ConnectFlags`). For the options, `Reads` is what a server does as it walks a packet,
  and `ReadTo` how far it is: the place, the number of the last option and the options so
  far. `CodedRead` and `OptionRead` are one step, past an option whose delta and length
  fit their four bits; `ReadingEnds` and `FormatRead` the last one, at the end of the
  packet or at the payload marker. `PathRead` makes two steps, `PathObserved` three, and
  `HeaderRead` the annotations. The synthetic GET is put together in another order than
  `coap_con_get` does it, and is the same packet (`SameGet`).

Only model-checked: every liveness property (fairness is out of the prover's reach). Every
safety property of a passing run is stated by a theorem.

## Not modelled

* AMQP: the three modules are skeletons whose first call raises.
* The content of the firmware manifest (a constant) and Block2 transfer, which aiocoap
  does alone.
* Message-level repetition of CoAP requests, which aiocoap removes.
* The broker's restart from its persistence file.
* Tests, the QoS loss experiment, the proxy fixture and set-up scripts.
* `capture_traffic.py` and `capture.sh`, which leave the whole capture to scapy or
  tshark, and `measure_coap_qos.py`, a loop that asks one request after the other.
* What the capture generator's use of the publisher's client id does to a publisher that
  is running: for the publisher it is a broken connection, which its module has.

## Plan

Done: the four programs and the packet capture generator, each with its runs; the
composition of the MQTT programs; abstract specifications of both protocols' promises
with the refinements that show they are kept; theorems that state every safety property of
the four programs, of the composition and of the capture generator, its packets included.
Next, in this order:

1. `CoapSystem`: `CoapServer` and `CoapObserver` joined by the network, so that a
   notification is a rendering of the server and a lost registration a failed stream.
2. The QoS loss experiment of `tests/mqtt/test_qos_loss.py` as an instance of
   `MqttSystem`.
