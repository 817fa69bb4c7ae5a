# CAVEX Imager: a TLA+ model of the service

The repository is an asynchronous Python service (FastAPI, one asyncio event
loop) that drives an astronomical camera through an INDIGO server. HTTP clients
take an exclusive lease, configure the camera, start and abort exposures and
sequences; a telemetry WebSocket tells its clients what happens; a sidecar JSON
file is written beside every FITS image. This directory holds TLA+ modules of the
parts in which order, interleaving, failure or time decide whether the service is
right, the TLC configurations that check them, and TLAPS proofs. The repository's
package is `src/` below its root; as `src/` is also the directory the repository
is kept in here, `PROJECT.json` writes `src/src/...`.

## 1. Inventory

Everything runs in **one event loop**: a coroutine runs alone until an `await`
really suspends it. So the questions this code raises are which awaits suspend,
what was read before them, and what is written after them. Three awaits matter:

| await | suspends when |
|---|---|
| `EventPublisher.publish` → `TelemetryHandler.publish_event` → `send_json` | a WebSocket client is slow to accept a frame |
| `StreamWriter.drain` behind every camera command | the TCP send buffer is full, or the connection is closing |
| `StreamReader.read`, `open_connection`, `sleep` in the client | always |

| Component (source) | State | Operations | Hard behaviour | What makes it correct |
|---|---|---|---|---|
| Lease manager (`application/services/lease_manager.py`, `domain/models/lease.py`) | `_current_lease` and its status, priority, expiry | acquire, renew, release, lazy expiry | `acquire` publishes `lease.preempted` in its middle; expiry only happens when asked for | one holder; priority decides; a dead lease stays dead; events tell the truth; exclusivity ends by time |
| Capture service (`application/services/capture_service.py`, `domain/models/capture.py`) | current capture, two flags | start, abort, the handlers of exposure ok / alert / image | two notifications in either order; awaits between check and write; lost link | one exposure; its own image; one outcome; an end at all |
| INDIGO client, connection (`infrastructure/adapters/indigo_client.py`) | stream, `_connected`, `_reconnect_enabled`, two task attributes | connect, handshake, read loop, reconnect loop, disconnect | three places create tasks; each await may raise | one coroutine in charge; never none; nothing survives disconnect |
| INDIGO client, property cache and XML (same file) | `PropertyCache`, `_xml_buffer` | define, update, delete; element extraction | chunks split anywhere, inside a character too; partial updates; a new connection over an old buffer | elements are neither lost, merged nor kept waiting; the cache mirrors the server |
| Camera adapter (`infrastructure/adapters/indigo_camera_adapter.py`) | mirror of the camera, auto-connect timer | property callbacks, connect, disconnect, commands | unplugging, switching off, reconnects; settings confirmed later than they are sent | the mirror agrees with the camera; auto-connection works; a sidecar tells the settings of its own exposure |
| Event bus (`infrastructure/bus/`) | subscribers | publish, subscribe | a subscriber may suspend its publisher | handlers' exceptions are contained |
| Application wiring (`main.py`) | status fields, broadcast task | lifespan, subscribers | start-up and shutdown order | status agrees with the services |
| Camera and lease routes, sequence counter (`presentation/api/routes/`) | sequence task and counters | HTTP endpoints | guards read before an await; task cancellation | only the lease holder acts; stop really stops |
| Telemetry (`presentation/websocket/telemetry_handler.py`) | client registry, rates, tick, gauge | connect, disconnect, events and snapshots | several broadcasts at once, each waiting for any client, while clients come, go and are removed more than once; routes that end without `disconnect()` | registry, rates and gauge agree; a connected client gets every event; dead clients go; `max_clients` holds |
| Sidecar writer (`infrastructure/persistence/`) | files | write to a temporary file, rename, clean up | each step may fail; a crash in between | no partial sidecar, no harm to the image; the result is true |

FITS validation, health routes, configuration, logging, metrics and the
declarations (ports, events, exceptions, DTOs, schemas) keep no state that
changes, and are not modelled. The full list with its status is `components` in
`PROJECT.json`; the places where this code can go wrong in a way a test hardly
reaches are its `hazards`.

How the components interact: a route asks the lease manager for the lease, then
the capture service, which calls the adapter, which writes XML through the client.
Back again, the client's single read loop parses a message, updates its property
cache, and *awaits* the adapter's callback, which awaits the capture service's
handler, which awaits the publication of an event to every WebSocket client. The
read loop reads nothing meanwhile. All of this is visible in the models: `reader`
in `CaptureService`, `dispatching` in `IndigoClient`. The other side of those waits,
what happens among the WebSocket clients, is `Telemetry`; the two ends of the
chain, bytes and files, are `ImagePipeline`.

## 2. The modules

| Module | Models | Used by |
|---|---|---|
| `LeaseManager` | the lease manager | `MCLeaseManager`, `LeaseManagerProofs` |
| `ExclusiveLease` | what a preemptive exclusive lease promises (abstract) | `LeaseManager` by `INSTANCE` |
| `LeaseManagerProofs` | theorems about `LeaseManager` | |
| `LeaseView` | what the routes see of the lease manager (abstract) | `LeaseManager` and `Imager` by `INSTANCE` |
| `CaptureService` | capture service, read loop, exposure part of the adapter, over a camera and a link | `MCCaptureService`, `CaptureServiceProofs`, `Imager` and `CameraSettings` by `INSTANCE` |
| `CaptureServiceProofs` | theorems about `CaptureService` | `ImagerProofs` and `CameraSettingsProofs` by `INSTANCE` |
| `Exposure` | what the capture service promises when nothing is aborted or lost (abstract) | `CaptureService` by `INSTANCE` |
| `CameraSettings` | config route, `set_config`, the mirror of the acquisition fields and the metadata of sidecars, over `CaptureService` | `MCCameraSettings`, `CameraSettingsProofs` |
| `CameraSettingsProofs` | theorems about `CameraSettings` | |
| `IndigoClient` | connection lifecycle of the client | `MCIndigoClient`, `IndigoClientProofs` |
| `IndigoClientProofs` | theorems about `IndigoClient` | |
| `CameraAdapter` | property cache, adapter mirror, auto-connection, over a camera and a link | `MCCameraAdapter`, `CameraAdapterProofs` |
| `CameraAdapterProofs` | theorems about `CameraAdapter` | |
| `Sequence` | the sequence counter and its task | `Imager` by `INSTANCE` |
| `Imager` | routes and event subscribers over `LeaseView`, `CaptureService` and `Sequence` | `MCImager`, `ImagerProofs` |
| `ImagerProofs` | theorems about `Imager`, and about `Sequence` and `CaptureService` in it | |
| `Telemetry` | WebSocket clients, their routes, and the broadcasts to them | `MCTelemetry`, `TelemetryProofs` |
| `TelemetryProofs` | theorems about `Telemetry` | |
| `XmlStream` | bytes to XML elements | `ImagePipeline` by `INSTANCE` |
| `SidecarWriter` | `write_sidecar` and the files | `ImagePipeline` by `INSTANCE` |
| `ImagePipeline` | from the bytes that announce an image to its sidecar | `MCImagePipeline`, `ImagePipelineProofs` |
| `ImagePipelineProofs` | theorems about `ImagePipeline`, and so about its two parts | |

In every module an action is what the code does between two suspensions. Mutated
forms of a definition (named "Mutant of ...") stand before it; no specification
uses them. They record which plausible bug each property is there to notice.

### LeaseManager

`lease` is the table of `Lease` objects, `current` is `_current_lease`,
`takeover` holds the local variables of the `acquire` calls that are suspended in
`publish("lease.preempted")`, and `told` the last `lease.*` event published about
each lease with the `expires_at` it carries, which runs out with the clock (`Ticked`).
Time is the number of ticks a lease has left, so it needs no bound;
`is_expired` compares strictly, so 0 ticks left is still valid.

`AcquireFree` is `acquire` without a valid lease, `AcquirePreempt` its first half
over a lease of lower priority, `FinishPreempt` the second half, which installs
the new lease without looking again. `Renew`, `RenewExpired`, `Release` and
`GetCurrentLease` are the other methods; the last two compare ids only, as the
code does. `PublishSuspends = FALSE` says that no WebSocket is ever slow; then a
request runs to its end alone (`LoopIdle`, `MayRun`).

`ExclusiveLease` knows only the set of leases in force, the priorities of the
claims that have taken a lease and not yet replaced it, and the ranks. A lease is
granted when nobody holds one; it ends; it is taken by a higher priority only;
what was in force once is never in force again. `KeepsPromise` is the refinement.

`LeaseView` is less: the lease `get_current_lease` returns, and those granted so
far. A lease not seen before is granted, perhaps in the place of another; the
valid one ends. It leaves out who asks and with what priority, and so it holds
whether or not publish suspends (`KeepsView`). It is what `Imager` stands on:
what the routes read of the lease manager is exactly this.

### CaptureService

`status`, `file`, `current`, `okReceived` and `pendingImage` are the attributes
of the service and its captures; captures are numbered in the order in which they
are started, and an image is named after the exposure that made it. `starting`,
`aborter` and `reader` say where the HTTP requests and the read loop are
suspended. `expState` is the adapter's cached exposure state, whose *changes* are
what notifies the service. The camera and its server (`device`, `devState`,
`fromDevice`, `link`) are external and modelled from how the code uses them: an
exposure command makes the camera busy unless it is; an end sends the image and
`Ok` in either order; an abort is answered by `Alert`; a lost link loses what is
in flight, and a new one starts with a definition.

`StartExposure` / `StartReturns` / `StartRaises` and the four `Abort...` actions
are the two requests, cut at their awaits. `ReadAlert`, `ReadOk`, `ReadImage` and
the others take the next message, do what the adapter and the handler do, and
stop at the handler's `publish`; `ReaderPublished` is the rest of the handler.
Constants choose which hazards a run admits.

`Exposure` is what all of this amounts to without aborts, over a link that holds:
phases, images and events per exposure, and a start that needs all earlier ones to
have ended. The mapping (`KeepsExposure`) sends a pending capture to a new one, `file`
to the image and `announced` to what was told. It implies one exposure at a time
(`OneExposure`), an image of its own for each (`OwnImage`), one outcome
(`OneOutcome`), and, as the abstract specification is fair, an end for each.

### CameraSettings

`taken` are the camera's settings, `mirror` the adapter's; `used` and `noted` are the
settings the camera had during its last exposure and those in the last sidecar.
`CameraConfig` is the route with its guard and `set_config`, which sends one command
per setting; the camera takes each or refuses it and answers with what it has, so a
configuration may be half applied. The answers go into `CaptureService`'s
`fromDevice`, between the updates of the exposures, and `ReadSetting` is
`_apply_property_to_cache`. The code notes nothing when an exposure starts: `Noted`
takes the mirror when the image is handled. What gain, offset, binning and region
are does not matter, so a setting is a name and a value. As `set_config` is one
step here, sends do not suspend.

### IndigoClient

A member of `Tasks` is a chain of coroutines that hand the duty to keep the
client connected on to each other: a reconnect loop that succeeds creates the
read loop and returns; a read loop whose connection is lost creates a reconnect
loop in its `finally` clause and returns. `pc` says where the chain is suspended,
`on` the connection it opened or reads. The other variables are attributes of the
client, the connections that are `alive`, and how far `connect()` and
`disconnect()` have got. `sources` abstracts the contents of `_xml_buffer` and the
cache to the connections they came from.

The read task exists before the handshake is sent. When sending raises
(`HandshakeFails`, at once or after one turn of the event loop), the dialling
coroutine goes on *and* the read task fails: this is the only place where one
chain becomes two. `failures` counts it, and most properties are stated for
`failures = 0`; `ConnectedIsRead` and `NeverGivesUp` hold in any case.

### CameraAdapter

`device` is the camera as the server knows it, `channel` and `commands` the two
directions of the connection, `cache` the client's `PropertyCache`,
`deviceConnected` and `view` the adapter's mirror, `timer` the pending
`_delayed_autoconnect`. `Defined`, `Updated` and `Deleted` are a message handled
by cache and adapter together, one step because no callback suspends here: the
commands they send are a few bytes. `Merged` is `handle_update`'s treatment of a
target of 0; `Apply` is `_apply_property_to_cache`, with the cooler state derived
only where the code derives it. `Request` is a client of the HTTP API, `Close`
and `Closed` the two halves of `disconnect()`.

### Sequence

`running`, `sequence` and `completed` are `sequence_state`, `handle` is
`sequence_task`, `ticker` where the task of each sequence is. The routes do not
suspend. `SequenceStop` calls `task.cancel()`; the `CancelledError` is raised when
the task runs next (`TickerCancelled`), and a task cancelled before its first step
never enters its `try` (`TickerDropped`), so its `finally` clause is not run.

### Telemetry

`clients`, `rate` and `gauge` are the registry, `route` says where the coroutine of each
WebSocket is, `gone` which connections are closed, and `broadcast` holds the local
variables of each suspended broadcast: the copied list, the place in it, and the
clients to be removed. The tasks that broadcast are publishers of events (the read loop
and the HTTP requests) and the loop that sends snapshots; `odd` is `_tick % 2`.

`Proceed` is the body of a broadcast: it goes on to *any* later client that may make
it wait, or to its end. A client counts as served when its `send_json` begins, as the
frame is then in order before everything sent later; a broadcast that resumes finds
that client accepted or gone. Which of several waiting tasks is woken first is left
open. A route ends by `WebSocketDisconnect` (`Disconnected`), which unregisters, or by
anything else (`RouteFails`, as for a binary frame, whose message has no text to receive),
which does not. `accept()` may wait for its transport (`AcceptWaits`); uvicorn normally
answers at once (`Connect`). `late`, `joined` and `got` are history variables.

### XmlStream, SidecarWriter and ImagePipeline

`XmlStream` has the bytes under way (`wire`), `_xml_buffer`, and the elements sent and
taken since the connection was made. Text is a sequence of symbols: angle brackets,
slash, blanks, words, and one character that UTF-8 encodes in two bytes. That is
what `_try_extract_element` tells apart: where the opening tag ends, whether it
closes itself, where its closing tag is. `ReadChunk` takes any number of bytes and
decodes them by themselves, so half a character becomes a replacement character.
`IsElement` is what the code takes for granted about the server: an element closes
itself, or ends with the first closing tag of its name, its name is plain text, and
between elements there is white space at most.

`SidecarWriter` has the `files` by path, temporary files, and how far the latest
`write_sidecar` has got. Each system call is an action that may fail. `Crash` is a
death of the process: what was renamed is there, what was not is not. A power failure
is more than that, as nothing is synced before the rename, and is not modelled. A
path is a sequence of parts, so that replacing `.fits` is what it does: nothing, for a
path without it.

`ImagePipeline` composes the two: an element that announces an image is handled by
the adapter, which compares it with `_last_image_path` and asks for the file, and by the
capture service, which may or may not be waiting for it; then a sidecar is begun. While
it is written the event loop does nothing else (`LoopFree`), but the server writes and
sends on, the connection breaks, and the process may die.

### Imager

One state space of three instances, with what the routes and `main.py` add:
`under` is `Capture.lease_id`, `sidecar` the lease a sidecar names, `lastStatus`,
`total` and `failed` the fields behind the health routes, and `disturbed` records
during which exposures a configuration reached the camera. A route is a lookup of
the current lease (`Authorized`) and the service's action. Where an action of
`CaptureService` publishes an event, its subscriber (`OnCapture...`) assigns its
fields in the same step, as the code assigns them before it waits for the
WebSocket clients; a `Read` that publishes nothing leaves them alone. `Imager` takes
slow WebSockets, aborts and rejected starts together, and a link that holds.

## 3. What the runs show

Runs that pass:

| Run | Instance | Shows |
|---|---|---|
| `LeaseSuspending` | 3 leases, 2 requests, priorities 0..2, ttl 0/1/3, `MaxTtl` 2, publish suspends | `TypeOK` (no lease outlives the maximum, although 0 means "not given" and 3 is above it); a preempted lease is current only while its successor waits (`PreemptedHasSuccessor`); a lease marked released or expired is not current (`CurrentIsLive`); a lease in force is lost to its holder only when another lease's suspended takeover ends (`OverwrittenByTakeoverOnly`); no dead lease becomes valid again (`NoResurrection`); the refinement of `LeaseView` (`KeepsView`) |
| `LeaseAtomic` | the same, publish does not suspend | mutual exclusion (`OneHolder`), events that tell who holds the camera, to a client that also watches their `expires_at` (`AnnouncedIsTrue`), the refinement (`KeepsPromise`), and that an unrenewed lease ends by time alone (`UnrenewedLeaseEnds`) |
| `CaptureSettings` | 3 captures, 2 settings with 2 values, slow WebSockets, no aborts, link and sends reliable | the sidecar of a capture tells the settings with which its exposure was made, which were not changed meanwhile (`SidecarTellsSettings`); the refinement of `Exposure` (`KeepsExposure`): one exposure at a time, with its own image, one outcome and an end |
| `CaptureHostile` | 3 captures, 1 aborter, every hazard at once | images in order, no image for two captures, no older capture with a newer image (`ImagesInOrder`); what was announced completed never exposes again; the flags cleared after a publish lose nothing (`ReaderResetLosesNothing`); the adapter's exposure state catches up with the server's, so that the end of an exposure is a change and is notified (`EndWillBeNotified`) |
| `ClientLifecycle` | 2 chains, 4 connections, 1 failed handshake | one owner, one source, a live reader behind `is_connected`, a reconnection always under way, nothing left after `disconnect()`, and, unless a handshake fails, a connection in the end |
| `AdapterMirror` | values {0, 1}, 2 messages in flight | cache and mirror agree with the camera whenever everything has been handled, but for a target of 0, in whose place an older target may stand; the cooler state agrees with what it is derived from; auto-connection works |
| `ImagerRoutes` | 2 leases, 2 captures, 1 aborter, 2 sequences with count 0 or 1, slow WebSockets | the health routes report the newest capture and count each completed one once, and failed ones as long as nothing is aborted (`HealthTellsTheTruth`); no configuration reaches the camera in an exposure whose outcome has not been announced (`ConfigOnlyBetweenExposures`); a sidecar names the lease its capture was started under, unless that lease has ended (`SidecarNamesHolder`); one ticker counts, and a stop reaches it (`OneTicker`) |
| `TelemetryRegistry` | 2 WebSockets, 2 publishers and the snapshot loop, `MaxClients` 1, rates 0/1/2, 2 events | list, rates and gauge agree however often a client is removed (`RegistryAgrees`); only clients whose `accept()` waited exceed the capacity (`CapacityExceededByLateOnly`); a connected client gets every event once and each publisher's in order (`EventsInFull`); a closed client leaves the registry, whatever its route did (`GoneIsForgotten`) |
| `ImagePipeline` | 1 visible and 1 invisible image, 2 other elements, white space or none between them, 2 elements per connection, 2 calls of `write_sidecar` | elements are taken whole, in order, once, wherever the stream is cut and whatever an earlier connection left (`ElementsInOrder`), and none waits for the next (`TakenPromptly`); after any failure or death no file is half written and no image is harmed (`FilesWhole`); `True` and `False` mean what they say (`ResultIsTrue`) |

Runs in which TLC finds the code at odds with its documentation:

| Run | Violates | What happens |
|---|---|---|
| `CaptureAbortAlert` | `OneOutcome` (sequence diagram of the abort) | the `Alert` that answers an abort turns the aborted capture into a failed one, and `capture.failed` follows `capture.aborted` |
| `CaptureLinkLost` | `ExposureEnds` (Architecture Spec: operations in progress fail when the link is lost) | an exposure that ends while the link is down is `EXPOSING` for ever |
| `AdapterUnplugged` | `RemovedDeviceIsGone` (Architecture Spec RNF-005) | the client calls back once per removed property, never with an empty name, so an unplugged camera stays connected in the adapter |

More of the kind can be seen by turning one constant:

* *Leases*, `PublishSuspends = TRUE`: `OneHolder`, `OnlyValidIsRenewed` and
  `GrantRespectsPriority` fail. While one `acquire` waits in
  `publish("lease.preempted")`, the preempted lease can be renewed, and another request
  is granted a lease of a higher priority, which the first then overwrites. The
  overwritten lease reads active and unexpired, and `renew` and `release` answer
  `LeaseNotFound` for it; `OverwrittenByTakeoverOnly` says that this is the only way.
* *Connection*, without the proviso of `ReconnectsWithoutFailure` (`Reconnects`): after
  one failed handshake two coroutines are in charge, and each new connection makes a
  reader of the other fail, for ever. Driving the real client against a server that
  resets its first connection shows the same: dozens of connections in a second.
* *Captures*: with `SendSuspends = TRUE`, `OneExposure` fails (a `PENDING` capture does
  not keep a second start out), and so does `SidecarTellsSettings` (nor does it keep a
  configuration out). With one aborter, `OwnImage` fails even when all is calm, and with
  slow WebSockets `ExposureEnds` too (an abort clears the flags of its successor). With
  `ImagesVisible = FALSE` or `DeviceRejects = TRUE`, `ExposureEnds` fails (an image the
  container cannot see is dropped in silence; a second `Alert` in a row is no change and
  notifies nobody).
* *Routes*: dropping the premise about aborts from `HealthTellsTheTruth` fails (the
  `Alert` of an abort counts as a failure), and `disturbed = {}` does too: as an abort's
  flags and Alert can be taken for the next exposure's, a capture may be announced ended
  while the camera is still exposing, and then a configuration is let through.
  `sidecar[c] = under[c]` fails: a sidecar names whoever holds the lease when the image
  arrives. And no route asks whose lease is valid: any caller acts while somebody holds
  one, which `Authorized` keeps.
* *Auto-connection*: without `[]ready`, `AutoconnectWorks` fails: after a first
  `connect()` that raised, the adapter's `_connected` stays false and the timer never acts.
* *Telemetry*: `Len(clients) <= MaxClients` fails as soon as one `accept()` waits.
* *Files*: with a path that has no `fits` in it, `FilesWhole`, stated for it too, fails: it is its own
  sidecar, and the rename replaces the image. With any text that is neither white space
  nor an element between two elements, `TakenPromptly` fails: nothing more is taken
  until the next connection.

One disagreement with the documentation has no run of its own, as no event of that name
exists in the code and so none in the model: Architecture Spec line 350 lists `expired`
among the lease events, and `lease_events.py:50-51` has a `LeaseExpired` "emitted when
a lease expires". `get_current_lease` sets the status `EXPIRED` (`Swept`) and publishes
nothing, and nothing else notices an expiry. A telemetry client that goes by the events
alone takes a lease that has run out for one in force until another is granted.
`AnnouncedIsTrue` therefore includes the `expires_at` that `lease.acquired` and
`lease.renewed` carry: with it, and only with it, the client knows.

### The bounds

* *Leases and requests.* Overwriting needs a victim, a lease granted in the
  window, and the lease of the suspended acquire: 3 leases and 2 requests. Three
  priorities allow lower, equal and higher at once; the ttls cover "not given",
  below and above the maximum. The theorems remove these bounds.
* *Captures.* An exposure, its successor and one more, so a late message can find
  its own capture replaced twice. `MaxInFlight` is 9 in the runs with few captures
  and nothing else in flight (never reached); 3 in `CaptureHostile`, which already lets
  an image, an end and a definition queue behind a suspended handler; and 4 in
  `CaptureSettings`, so that an exposure can start and end before the camera's answer to a
  configuration has been read.
* *Settings.* Two, so that a configuration can be taken in one half and refused in the
  other, each with two values.
* *Routes.* Two captures let a late event find its successor, two leases a
  change of holder between a start and its image, two sequences a stop, a start
  and a late cancellation. A count of 1 ends a sequence by itself, 0 does not.
  `MaxInFlight` is 6, all that two
  captures can make the camera send. `MaxCompleted` bounds the ticks of an endless
  sequence.
* *Tasks and connections.* `SingleOwner` is about two chains; with one failed
  handshake no more than two exist. Four connections leave one fresh for a
  dialling coroutine while the stream and both chains hold one each. The theorems
  hold for any number of each and of failures.
* *Telemetry.* The capacity of 1 can be exceeded by the second of two clients. Three
  tasks can be inside a broadcast at once over lists of up to two, so a client is
  removed by two broadcasts and its route, or between two visits of a third. Two
  events (`MaxEvents`, of one publisher or of each) are enough for one to be lost,
  doubled or overtaken.
* *Stream and files.* Two elements per connection (`MaxElements`): one is complete while
  the next is not. The elements are those that differ for the code: with text, with a
  child that closes itself, closing itself. Connections are not bounded, so a rest of
  an old one can meet a new one. Two calls (`MaxWrites`) for the same image: the second
  replaces the first's sidecar, or fails and must leave it.
* *Temperatures.* {0, 1} has 0, which the code treats specially, another value,
  equal and different pairs. Two messages in flight: a switch-off emits four at
  once, so longer queues occur.

`MaxCaptures`, `MaxInFlight`, `MaxFailures`, `MaxCompleted`, `MaxEvents`, `MaxElements`
and `MaxWrites` are the only bounds in guards.
Deadlock is not checked where the system may really stop: all lease ids, captures or
WebSockets used up. `ClientLifecycle`, `AdapterMirror` and `ImagePipeline` check it.

### Fairness

* `LeaseManager`: only the clock (`Tick`). Nothing is assumed of callers.
* `CaptureService`: the event loop resumes a coroutine whose await has ended (a
  WebSocket client that never accepts a frame is closed by the server's ping
  timeout); the read loop goes on reading; the camera ends each exposure; a lost
  link is restored, as `_reconnect_loop` has no limit. `ExposureEnds` excuses a
  link that breaks for ever. Nothing is assumed of the HTTP clients. `CameraSettings`
  assumes the same, as far as it has these steps.
* `Telemetry`: a `send_json` that waits ends, as the server's ping timeout closes a
  connection that accepts nothing, and the snapshot loop wakes from its sleep. Nothing
  is assumed of clients, routes or publishers. `ImagePipeline` has safety only.
* `IndigoClient`: every suspended step of a chain whose awaited call has ended is
  run (`WF` of `Step`). Data need not arrive, the network need not come back;
  `<>[]network` is a premise of the properties.
* `CameraAdapter`: messages are handled, the timer fires, the client reconnects,
  and the server answers commands, if only by refusing.

## 4. What is proved

TLAPS proves **every invariant and every action property that a passing run checks**,
the refinements `KeepsPromise` and `KeepsView`, and the safety part of `KeepsExposure`,
for every value of the constants that satisfies the assumptions below. A run shows that
a property holds on its instance and that a bug breaks it; the theorem removes the
bounds.

| Module | Assumed of its constants (evaluated by TLC on each run) |
|---|---|
| `LeaseManager` | `PrioritiesAssumption`, `TtlAssumption`: numbers; `NoLeaseAssumption`, `NoTakeoverAssumption`: "none" is none; `SuspendAssumption`: a flag |
| `IndigoClient` | `NoTaskAssumption`, `NoConnAssumption`; `MaxFailuresAssumption`: a number |
| `CaptureService`, `CameraSettings` | `BoundsAssumption`: at least one capture, and room for one message; `FlagsAssumption`; `SettingsAssumption`: the settings have names |
| `CameraAdapter` | `TempsAssumption`: numbers, 0 among them; `MaxInFlightAssumption`; `AbsentAssumption`: no value is "absent" |
| `Imager` | `NoLeaseAssumption`, `NoSequenceAssumption`, `CountsAssumption`, `CapturesAssumption`, `FlagsAssumption` |
| `Telemetry` | `TickerAssumption`: the snapshot loop publishes no events; `MaxClientsAssumption`, `RatesAssumption`: numbers; `IdleAssumption` |
| `ImagePipeline` | `ContentsAssumption`: an image, a torn file and a sidecar differ; `PathsAssumption`; `ElementsAssumption`: the server sends what `IsElement` says; `SeparatorsAssumption`: with white space between |

`MaxCaptures` and the sets of leases, clients, tasks and connections, none of which is
used twice, may be as large as one likes, so a theorem covers runs of the service of any
length. `MaxInFlight`, `MaxEvents` and the like may have any value too.

`LeaseManagerProofs`:

* `TypeCorrect`, `SuccessorWaits` (`PreemptedHasSuccessor`), `CurrentLive`
  (`CurrentIsLive`), `OnlyTakeoversOverwrite` (`OverwrittenByTakeoverOnly`),
  `NeverResurrected` (`NoResurrection`): for both values of `PublishSuspends`. The pointer invariants support each other: an acquire can
  leave a preempted lease current only between its two halves, so the invariant
  names the request that will replace it. It also gives `OnlyTakeoversOverwrite`: a
  victim that is still current when its takeover ends is no longer in force. A lease id
  is drawn at most once, and a
  status never returns to `active`, which is `NoResurrection`.
* `MutualExclusion` (`OneHolder`), `Refinement` (`KeepsPromise`) and `EventsAreTrue`
  (`AnnouncedIsTrue`): if publish does not suspend. `OneHolder` alone is not
  inductive: `SoleHolder` adds that whatever is in force is `_current_lease`, and that
  nothing is in force while a takeover is under way. The refinement has one step per
  action: grants, takings and endings map to the abstract ones, renewals and most
  ticks to stutters. `EventsAreTrue` goes both ways: a lease is valid exactly when its last
  event is `acquired` or `renewed` and the `expires_at` in it has not passed. `renew`
  does not look at the status of the lease it extends; that what it announces is true
  rests on `PreemptedHasSuccessor`, which keeps it out.
* `ViewRefinement` (`KeepsView`): for both values of `PublishSuspends`, from
  `TypeOK` and `CurrentIsLive`. It justifies checking the routes over `LeaseView`.

`CaptureServiceProofs`:

* `TypeCorrect`, whichever hazards the constants admit, as the next four.
* `EndsAreNotified` (`EndWillBeNotified`), from `StateInv`: while the link is up, the last
  update under way that tells a state tells the server's, and if none is under way the
  adapter has it (`LastWord`). An image tells none; a definition does, which is why what
  was lost with a link does not keep the next end from being a change.
* `CompletedStaysCompleted` (`CompletedNeverExposesAgain`), from `LifeInv`. A start call
  that is still suspended could set a completed capture to exposing again; it is not,
  because only an exposing capture is completed, and a capture is exposing only after
  its start has returned.
* `ReaderResetIsHarmless` (`ReaderResetLosesNothing`), from `HandledOrEmpty`: while a
  handler waits in its publication, the flags it will clear are those of the capture it
  has ended, or a new start has cleared them already and nobody can set them.
* `ImagesKeepOrder` (`ImagesInOrder`), from `ImageInv`. An image passes from the camera
  through the queue and `pendingImage` into the file of a capture; at each place it is
  newer than all further on and older than all further back (`QueueInTurn`,
  `PendingIsNewest`).
* `KeepsExposureSafely`: without aborts, and over a link that holds and takes commands at
  once, every step is a step of `Exposure` or a stutter. Its invariant, `CalmInv`, tells
  each capture's `Story` by its status, and says that one *decisive* thing at most is
  outstanding (`OneDecisive`): the camera that exposes, or the alert or image it sent,
  or the image that waits for its `Ok`. An `Ok` of an earlier capture may be under way
  too, and that is why an `Ok` alone must not end a capture.

`CameraSettingsProofs`: `SidecarIsTrue` (`SidecarTellsSettings`) and
`SettingsKeepExposures` (`Exposure` again, with configurations between the updates). The
sidecar takes the adapter's mirror when the image is handled, not when the exposure
starts. It is right because of four facts at once: the exposures are calm; the last
message under way about a setting tells what the camera has (`Mirrored`); an exposure,
or an image on its way, was made with the settings the camera has now; and no setting
is behind such an image in the queue (`Frozen`). The lemmas about the queue come from
`CaptureServiceProofs`, which states them for any set of messages.

`ImagerProofs`:

* `TickerIsUnique` (`OneTicker`), which is inductive given the types: a start
  needs `running` to be false, and then no ticker is alive.
* `SidecarsNameHolders` (`SidecarNamesHolder`), from `Owned`: the lease of every
  capture started is among the `spent` ones, which never come back, and a capture not
  started yet has no sidecar.
* `KeepsCaptureService`: every step of the composition is one of `CaptureService` or
  leaves it alone. So what `CaptureServiceProofs` shows holds behind the routes.
* `ConfigComesBetween` (`ConfigOnlyBetweenExposures`), from `ConfigInv`: a capture without
  an announced outcome is the newest, and is either exposing, which the route sees, or
  its start call is under way, and then nothing else runs.
* `HealthIsTrue` (`HealthTellsTheTruth`), from `HealthInv`: the last status lags behind
  only while a start call is under way; completed captures are counted once in any case,
  as none completes twice; failed ones are as long as nothing is aborted, as until then
  the captures are calm (`CalmInv` once more, kept by every step but an announced abort).

`IndigoClientProofs`: `TypeCorrect`, `ConnectionIsRead`,
`ReconnectionNeverDropped`, `OwnerIsUnique`, `SourceIsUnique`, `NothingSurvives`,
from one inductive invariant of three parts:

* `Structure`: what the attributes point at. Before `connect()` and after
  `disconnect()` the flags and tasks are what they should be (`Lifecycle`); the
  two task attributes name coroutines of their own kind (`HandlesPoint`); no
  coroutine reads a stream that is not there (`StreamsExist`).
* `Duty`: the newest connection has its reader, or somebody dials (`HasReader`,
  `NeverGivesUp`). These hold through any number of failed handshakes, as a
  coroutine that stops dialling always leaves one behind.
* `Calm`, for as long as no handshake has failed: every living chain can be
  reached from a task attribute (`Reachable`), there is one of them
  (`SingleOwner`), it reads the current stream (`ReadsTheStream`), and so nothing
  else is in the buffer (`OneSource`). `Reachable` is what makes `disconnect()`
  complete: it cancels only what the attributes name.

`CameraAdapterProofs`: `AdapterTypeCorrect`, `CoolerStateIsDerived` (`CoolerStateAgrees`),
`CacheIsAMirror` (`CacheMirrorsServer`) and `ViewIsAMirror` (`ViewMirrorsDevice`). The last
two say something only when nothing is under way, so they are not inductive. `MirrorInv`
speaks of every moment: of each property, the newest message under way about it tells
what the server has, and if there is none the cache and the adapter have it already. For
a reading with a target of 0, "has it" means its temperature (`CacheAgrees`). What
the server emits is a newest message, or does not concern the property; what is handled is
the oldest, and so is the newest only if it is the last.

`TelemetryProofs`: `TelemetryTypeCorrect`, `RegistryIsConsistent` (`RegistryAgrees`),
`CapacityHolds` (`CapacityExceededByLateOnly`), `EventsArriveInFull` (`EventsInFull`). The
invariant adds that a copied list has each client once, each admitted (`Copies`); that
who is not admitted has been sent nothing (`Admission`); that the clients admitted without
waiting fit the capacity (`Capacity`); and that a client has got all the events of each
publisher since it joined, except one that its broadcast will still come to (`Served`).

`ImagePipelineProofs`:

* `FilesStayWhole` (`FilesWhole`) and `ResultsAreTrue` (`ResultIsTrue`), from `DiskInv`: what
  has been dumped into the temporary file is whole before the rename, which is the only
  step that gives a file its name; of a call that returned `True` no temporary file is
  left, and its sidecar is there, or that of a later call.
* `ElementsKeepOrder` (`ElementsInOrder`) and `ElementsTakenPromptly` (`TakenPromptly`), from
  `StreamInv`: over the buffer and the wire, the elements that were sent and not taken lie
  one behind the other with white space between (`Laid`), characters cut in two replaced;
  when the read loop waits, the first of them has not come in full (`Waiting`). The lemma
  behind it is `ElementFound`: of a text that begins like an element,
  `_try_extract_element` finds the end of the element exactly, and finds none before all
  of it is there.

**Only model-checked:** what needs fairness: `UnrenewedLeaseEnds`, `AutoconnectWorks`,
`GoneIsForgotten`, `ReconnectsWithoutFailure`, and that each exposure ends
(the liveness half of `KeepsExposure`). TLAPS as used here proves no liveness and nothing
about `ENABLED`. The three runs that end in a violation are counterexamples, and have
nothing to prove. The assumptions about the server, the camera, the network and the file
system, which the modules mark as external, are assumptions in the theorems as well.

## 5. What is not modelled

* Contents of messages beyond what the properties tell apart, payloads of events and
  snapshots, the owner, job and temperatures in a sidecar, backoff delays, logging,
  metrics and configuration.
* What ElementTree makes of an element: attributes, entities, and an element that is
  not well formed (it is dropped, and logged). A `>` inside an attribute would end the
  opening tag too early; INDIGO escapes it.
* The session route and `set_local_mode`: two commands and one assignment, without a
  guard, that change where the camera writes. If two such requests overlap, the service
  may report the directory of the one whose answer came last.
* A disconnect request in the middle of an exposure: the route has no guard, and what
  becomes of the exposure is the driver's affair; the service keeps it `EXPOSING` until a
  message ends it. `CameraAdapter` has the request, without exposures.
* `preempt_mode`: it is announced, and nothing in the service acts on it.
* `last_errors` of `main.py`, which grows with each error and is never shortened.
* An image announced under the same path as the last one, which the adapter takes for a
  repetition, is `HandleImage`'s first case; that no capture completes with it is the
  driver's naming to prevent.
* Storage validation, the FITS validator, the health routes, and the declarations.

## 6. Plan

What is left, in this order:

1. The session route in `CameraSettings`, with sends that suspend, and the directory an
   image is written to.
2. A disconnect in the middle of an exposure, over a driver that may end it or not.
3. Proofs over less than calm: what of `Exposure` is left when requests abort, once TLC
   has found what that is.
