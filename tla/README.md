# TLA+ models of the ibmiotf-cpp device client

This directory holds TLA+ specifications of the concurrent core of the IBM Watson
IoT Platform C++ client (`src/src/`). It also holds the TLC configurations that
check those specifications, and `PROJECT.json`. `PROJECT.json` lists the
components, the runs, the mutants, the mapping from each definition to source
lines, the findings and the hazards.

## The system and how its parts interact

`IOTP_Client` wraps a paho MQTT async client. Three kinds of thread touch shared
state:

* **The application (caller) thread.** It calls `connect`, `manage`, `unmanage`
  and `update_device_location`, plus the error-code and log calls. Each of these
  is a blocking request/response with the platform.
* **The paho MQTT thread.** It runs `IOTF_Callback::message_arrived` for every
  inbound message.
* **The reply worker `_send_reply`.** It is started in the constructor and
  joined in the destructor. It drains `mReplyMsgs` and publishes each reply.

The firmware handler also starts its own progress threads.

Components, by source:

| Component | Source | What it does |
|---|---|---|
| Subscription Registry | `IOTP_Client.cpp` 143-192 | Holds `mSubscriptions` (a vector of topics) and `mHandlers` (a multimap from topic to handler). |
| Callback Router | `IOTP_Client.cpp` 87-133 | Calls every handler registered under the exact topic and sends a non-null reply to `IOTF_send_reply`. With no handler and a user callback, it parses the topic into a `Command`. |
| Response Correlator | `IOTP_Client.cpp` 796-828, `IOTP_ResponseHandler.cpp` 36-75 | `send_message` makes a reqId `++mReqCounter + time()` and publishes. The response handler stores answers by reqId and calls `notify_all`. `wait_for_response` calls `wait_for` once, then looks up and erases the answer. |
| Reply Dispatcher | `IOTP_Client.cpp` 744-772, 443-456 | `IOTF_send_reply` pushes a reply and calls `notify_one`. The worker loops on `wait_for(10 s)`, pops one reply and publishes it while holding the lock. The destructor sets `mExit` and joins the worker. |
| Device-Management Session | `IOTP_DeviceClient.cpp` 180-275, `IOTP_Client.cpp` 784-795 | `manage` subscribes the response handler, sends the request and waits. On rc 200 it subscribes the firmware, action and attribute handlers. `unmanage` sends its request and then unsubscribes the response topic. `pushManageMessage` does one request/response. |
| Firmware handler | `IOTP_DeviceFirmwareHandler.cpp` | Handles verify, download, update and cancel. Download and update each start a progress thread that polls up to ten times and sends progress replies. |
| Action handler and attribute handler | `IOTP_DeviceActionHandler.cpp`, `IOTP_DeviceAttributeHandler.cpp` | Dispatch reboot/factory reset and location updates to the application. |
| Gateway client | `IOTP_GatewayClient.cpp` | Subscribes its own command topic and, per call, one attached device's (`deviceCMDTopic`); unsubscribes both on `disconnect`. |
| Connection lifecycle | `IOTP_Client.cpp` 240-363 (property file), 388-409, 477-546, 642-731, `IOTP_DeviceClient.cpp` 70-178, 277-325, `IOTP_GatewayClient.cpp` 48-76, 188-282 | `connect` checks the configuration, creates an `async_client`, sends a clean-session CONNECT and installs a fresh `IOTF_Callback`; then subscribes the command topic. `disconnect` unsubscribes and sends DISCONNECT. |
| Sample applications | `src/samples/*.cpp` `main` | Construct a client, connect, set a command handler, subscribe, publish events in a loop until Ctrl-C (or ten times, or until Enter), disconnect. |
| Not modelled | The TLS handshake, the data classes with their JSON conversion, logging | See the last section. |

## Modules

### `ReplyDispatcher` (component: Reply Dispatcher)

**State:**
* `mReplyMsgs`: the queue.
* `mLock`: the owner of the mutex.
* `mExit`: the exit flag.
* `wpc`: the worker's place in the loop: loop, lock, waiting, woken, publishing, done.
* `wakeStatus`: the `cv_status` the worker woke with.
* `client`: the destructor's progress.
* History variables: `enqueued` and `published`.

**Actions:**
* `IOTF_send_reply(p)` runs for each producer. Producers are the MQTT thread and the firmware progress threads. Its `notify_one` wakes the worker only if it is waiting.
* The worker's steps are `WorkerLoop`, `WorkerWait`, `WorkerTimeout`, `SpuriousWakeup`, `WorkerReacquire` and `WorkerPublish`.
* The destructor is `Destroy` and then `Join`.

A locked critical section is one atomic step. `wait_for` releases the lock
atomically with starting to wait.

### `ReplyChannel` (abstract specification of the Reply Dispatcher)

What the reply path promises, stated without threads, locks or condition
variables: a FIFO channel with `Send(m)`, `Deliver` (the head leaves the queue and
is appended to `delivered`) and `Close`. It says nothing about delivery happening,
only about order: that part is `EveryReplyPublished`.

`ReplyDispatcher` defines `Channel == INSTANCE ReplyChannel WITH ...`, with this
refinement mapping:
* `queue` is `mReplyMsgs`, with the reply the worker has popped and is publishing
  (`inFlight`) put back at its head;
* `delivered` is `published`;
* `open` is "`join()` has not returned".

`IOTF_send_reply` is `Send`, `WorkerPublish` is `Deliver`, `Join` is `Close`, and
every other worker step (including the pop in `WorkerReacquire`, the timeouts and
the spurious wakeups) is a stuttering step of the channel. `ImplementsReplyChannel
== Channel!Spec` is checked as a temporal property.

### `ResponseCorrelator` (component: Response Correlator)

**State:**
* `mReqCounter` and `mResponseMessages` (a function from reqId to answer).
* The caller's `pc`, `reqId` and `wakeStatus`.
* The MQTT thread's `mqttPc`, which records the gap between the unlock and `notify_all`.
* The network: `toPlatform` and `toDevice`.
* The wall clock: `now`.
* History variables: `issued`, `inst` (the call instance), `okInTime` and `got`.

**Actions:**
* `send_message` has three outcomes: complete; incomplete but delivered, where the reqId is cleared; or lost.
* The wait is `WaitForResponse`, `WaitTimeout`, `SpuriousWakeup` and `LookupResponse`.
* The MQTT thread runs `ResponseArrived` and then `NotifyAll`.
* `PlatformRespond` is the platform answering a request it received.
* `ClockTick` moves the clock forward.

**Fault model** (`FaultNext`, used by `FaultSpec`): `ClockStepBack` moves the wall clock back, and `Restart` is a process restart that resets every in-memory structure while the network and the clock survive. `Spec` has no faults; `corr_id_reuse` uses `FaultSpec`.

### `DeviceManagement` (components: Device-Management Session, Subscription Registry, Callback Router)

**State:**
* `brokerSubs`: what the broker routes to the device.
* `mSubscriptions` and `mHandlers`: both are sequences in insertion order. `mHandlers` can hold duplicates, as the multimap can.
* The caller's `pc`, `op` and `todo`. `todo` holds the `subscribeCommandHandler` calls that `manage` still has to make.
* `result`: the last call's return value.
* History variable: `lastDispatch` (the handlers invoked for the last platform request).

**Actions:**
* `SubscribeCommandHandler` and `unsubscribeCommands` each send one SUBSCRIBE or UNSUBSCRIBE token, with three outcomes: completed; timed out but applied by the broker; or timed out and lost.
* `manage` and `pushManageMessage` share `StartManagementCall`. `pushManageMessage` is one of `ManagementCalls`: `update_device_location`, `addErrorCodes`, `clearErrorCodes`, `addLogs`, `clearLogs`, which differ only in topic and payload. They continue with `SendRequest` and `AwaitResponse`.
* After rc 200, `manage` continues with `SubscribeNextHandler`, once per handler topic, and ends with `ManageDone`.
* `unmanage` is followed by `unsubscribeCommands`.
* `PlatformRequest` is a platform request on a management topic, routed through `Dispatch`.

**Fairness:** weak fairness on every step of a call in progress (`SendRequest`,
`AwaitResponse`, `SubscribeNextHandler`, `ManageDone`, `unsubscribeCommands`):
each blocks on a token or on the response handler for at most
`DEFAULT_TIMEOUT()`. Starting a call and platform requests are not fair.

The wait for the answer is abstracted to its outcome: any rc when the broker routes
the response topic to the device, and `-1` otherwise. `ResponseCorrelator` checks
that wait in detail.

### `ManagementHandlers` (components: Firmware handler, Device Action handler, Device Attribute handler)

**State:**
* `mDownloadProgress` and `mUpdateProgress`: the `std::thread` members. Each is none (not joinable), running, or finished but not yet joined.
* `dlNotes` and `upNotes`: the values each progress thread has reported, in order.
* The application's firmware state and update status.
* `requested`: the platform requests made so far, per topic.
* `client`: whether the `IOTP_Client` is alive or destroyed.
* `terminated`: whether `std::terminate` was called.
* `locations`: the locations `UpdateLocation` was called with; `strayReply`: the router got an indeterminate reply pointer.

**Actions:**
* `FirmwareQuery`, `DownloadRequest`, `UpdateRequest` and `ActionRequest` are the handlers' `message_arrived` calls.
* `UpdateTopicRequest` is a JSON request on `iotdm-1/device/update`, where the router calls the firmware handler (`verify`) and then the attribute handler. The attribute handler appends to `locations` what it hands `UpdateLocation`: the platform's location when the first field is `"location"`, otherwise the `(0,0,0)` it starts from (`AttributeLocation`).
* `RawRequest` is a request whose payload is not JSON. The raw overloads parse it again and drop it. The attribute handler's raw overload has no `return`, so the router may get a non-null indeterminate pointer (`RawReplies`, recorded in `strayReply`).
* A 202 from `download()` or `update()` starts a progress thread. Assigning to a member that is still joinable calls `std::terminate`.
* `DownloadPoll` and `UpdatePoll` are one loop iteration each, with the loop test `i<10` and the early exit.
* `AppDownloadStep` and `AppUpdateStep` are the application's own work.
* `ClientEnd` is the application destroying the client. This happens while the handler, and its progress threads, may live on.

### `ClientSession` (components: Gateway client, Connection lifecycle, Callback Router, Subscription Registry)

One device or gateway client object (`kind`), over its whole life. It is constructed either
from a `Properties` record in `Configs` or from a configuration file in `Files`. The file
constructor uses `PropertiesFromFile`, which is `InitializePropertiesFromFile`, and its
return value `PropertiesFileRc`. The result is `mProperties`.

**State:**
* `pasync_client`: uninit until `InitializeMqttClient` creates one.
* `conn`, `session`, `brokerSubs`: the transport connection, a ghost number of the broker-side session, and the filters that session holds.
* `callback_ptr`: the installed `IOTF_Callback`, as its registry `mSubscriptions`, whether a user callback is set, and the session it was installed for.
* `gatewayCMDTopic`, `deviceCMDTopic`: the gateway's topic members.
* `inbox`: commands routed to the client and not yet handed to `message_arrived`.
* `appConnected`: what the last `connect()` returned, as far as the application knows.
* `replyThread`: whether the constructor started the reply thread. The `Properties` constructor always does. The file constructor does only when `InitializePropertiesFromFile` returned true. That function copies every key it finds, whatever else is missing, so an empty `"Port"` or `"useClientCertificates"` makes rc false and still leaves a configuration that connects.
* History variables: `sent` (commands sent by the platform) and `lastCmd` (the last command the user callback got, with the topic and the fields sent).

**Actions:** one per call, each atomic because the application thread waits for its tokens.
* `connect()` has four outcomes: `ConnectInitFails` (a configuration check of `DeviceInitialize` or `GatewayInitialize` fails); `ConnectRefused` (`wait_for_completion` throws); `ConnectTimedOut` (returns false, no callback installed, but the CONNECT may still complete later); `ConnectAccepted` (a fresh callback, a clean session, the auth verdict `AuthOk`, and the command SUBSCRIBE with its three token outcomes). The platform accepts a CONNECT (`PlatformAccepts`) only for quickstart, or for the `use-token-auth` user with a token and, when `useCerts` is set, a key store and private key. This is the environment assumption that the broker is Watson IoT. Under it, `AuthOk` is false only for a connect that the platform refuses.
* `setCommandHandler`, `subscribeCommands`, `subscribeGatewayCommands` and `subscribeDeviceCommands` use `SubscribeTopic`, which is `IOTP_Client::subscribeTopic`.
* `disconnect` unsubscribes `DisconnectTopics` through `Unsubscribed` (an exception aborts it), then `ClientDisconnect`.
* `publishEvent`, `publishGatewayEvent` and `publishDeviceEvent` use `PublishTopic`, which throws when the client is not connected. The event topic and payload are not modelled; `published` counts the events the platform has received.
* `AppNext` collects the calls above. `EnvNext` collects `ConnectionLost`, `PlatformCommand` (the environment) and `message_arrived` (the user-callback path, through `ParseCommand`).
* `Destroy` is the destructor. With no reply thread, `join()` throws, the catch skips `delete pasync_client`, and the connection stays open.

Topics are TLA+ strings. `Find`, `FindFirstOf` and `Substr` are `std::string::find`,
`find_first_of` and `substr`, with `size_type` arithmetic modulo `2^SizeBits`,
so `npos + 5` wraps to 4 as in the code. For a device client's topic
`iot-2/cmd/C/fmt/F`, which has no `type/` or `id/`, the callback therefore gets
deviceType `"2"` and deviceId `"t-2"`; no property states what it should get.

### `SampleApps` (component: Sample applications; composes `ClientSession`)

`SampleApps` extends `ClientSession` with the application thread. The initial
state chooses `app`. With `"any"`, the application makes the calls of `AppNext`
in any order. With a sample name, it runs that sample's `main` as a `Program`: a
sequence of instructions run by `SampleStep`, with `pc` and a loop counter
`iter`.
* `ExecCall` is a client call. When the call throws (`SubscribeThrows`, `PublishThrows`, a refused connect), control goes to `Leave`; so does a failed connect.
* `ExecControl` is `while(!interrupt)`, `for`, the loop back-edge and `std::cin.get()`.
* The initial state reads a file. `sampleDevice`, `sampleGateway` and the two SSL samples use the library's file constructor (`FileConstructed`). `sampleManagedGateway` and `sampleQuickstart` use their own `InitializeProperties` (`ManagedGatewayProperties`, `QuickstartProperties`): when it returns 0, `main` returns 1 before any client exists (`pc = Done`). Neither sample reader reads `clientTrustStorePath`. The gateway's `InitializeMqttClient` requires it, so `sampleManagedGateway` never connects, whatever file it is given; the run has no state with that sample connected.
* `LeaveTry` ends the try block and `Return` ends `main`. Each destroys the client if its scope holds it. Only `sampleManagedGateway` holds its client in `main`'s scope.
* `Interrupt` is the SIGINT handler of `sampleDevice` and `sampleGateway`.

`EnvNext` runs until `main` has returned and the process has ended. The application and the MQTT thread therefore interleave
at every call.

## Runs

| Run | Result | What it shows |
|---|---|---|
| `reply_fifo` | pass | Two producers race the worker. `ImplementsReplyChannel`: the dispatcher refines the FIFO channel `ReplyChannel`, so no reply is reordered, duplicated or dropped from the queue. Teardown always joins. |
| `reply_lost_notify` | violation | A `notify_one` sent while the worker is not waiting is lost. Its reply stays queued while the worker keeps timing out. |
| `corr_ids` | pass | reqIds are unique, and a caller only ever gets its own answer. This holds with a monotone clock and no restart, under every publish outcome, timeout and spurious wakeup. A blocked caller always returns (`CallReturns`). |
| `corr_lost_wakeup` | violation | The platform answers rc 200 in time, yet `manage`/`pushManageMessage` returns false. This happens when the answer is stored before the wait starts, or when the timeout beats the `notify_all`. |
| `corr_id_reuse` | violation | `++mReqCounter + time()` repeats after a restart, or when the clock steps back. The late answer to the earlier request is then returned to the new call. TLC's shortest trace uses the restart. |
| `dm_session` | pass | A platform request reaches each handler at most once, even over repeated `manage`/`pushManageMessage` calls and failing tokens (`NoDoubleDispatch`). `ManagementCallReturns`: every management call returns to the application, including `manage` after `unmanage`, where no answer can come and the wait must time out. |
| `dm_remanage` | violation | `manage` after `unmanage` waits on a topic the broker no longer routes to the device. The stale response handler in `mHandlers` suppresses the SUBSCRIBE. |
| `fw_progress` | pass | Each progress thread sends at most ten notifications and stops exactly at the first terminal report. |
| `fw_terminate` | violation | A second accepted download or update calls `std::terminate`. |
| `fw_teardown` | violation | A progress thread sends through an `IOTP_Client` that has already been destroyed. |
| `session` | pass | (`MC_SampleApps`) Device and gateway clients, driven by an application making any calls and by each of the six samples, through every connect outcome, subscriptions, publishes, disconnect, connection loss, reconnect and destruction. Each sample starts from each configuration file. On the connection whose callback is installed, the registry never lists a topic the broker does not hold (`RegistryImpliesBroker`). The command parser is not checked here: the samples' device types hold no marker inside a segment, so `CommandFieldsMatchTopic` would pass only for want of such a topic; the `parse` run checks it on one that has. |
| `parse` | violation | A gateway subscribed for a device of type `android`: `find("id/")` matches inside `android/`, and the user callback receives deviceId `id` instead of `pi1`. |

Each property of a passing run has a mutant in `PROJECT.json`. A mutant is a
plausible bug in the modelled code, and TLC finds the property violated once the
mutant replaces the definition. For example, dropping `check_subscription` breaks
`NoDoubleDispatch`, and a lookup that takes any stored answer breaks
`CorrectCorrelation`.

### Bounds

* **ReplyDispatcher:** `reply_fifo` has 3 producers (the MQTT thread and both
  firmware progress threads) with 3 replies each, about a million states: every
  producer can push while another reply is in flight and a third is queued.
  `reply_lost_notify` has 2 producers with 2 replies each, enough for a push to
  land in every window of the worker's loop.
* **ResponseCorrelator:** 2 calls; the clock ranges over 0..1; up to 1 restart.
  Two calls with a one-second clock are the smallest setting in which `counter + time`
  can collide, and in which an answer can outlive its call.
* **DeviceManagement:**
  * 3 calls, which allows manage, unmanage, manage.
  * 2 platform requests.
  * rc 200 or 403.
  * `dm_session` uses the firmware and attribute handlers, which share
    `SERVER_UPDATE_TOPIC`. Those are 6 subscriptions with 3 token outcomes each.
* **ManagementHandlers:** the real poll budget of 10, one request per topic, and
  application hooks that return 202 or 500. One request per topic is enough
  because a second download is itself the `fw_terminate` violation.
* **ClientSession:** both client classes. `SampleApps` has six configuration files:
  complete registered with token auth; the same with an empty `Port`; the same asking for
  client certificates without naming them; another auth method; quickstart; and one
  that does not parse. These are enough for every branch of the three readers that
  changes the outcome: a missing key, the quickstart exemption, and rc false with a
  connectable configuration. The `parse` run has one registered configuration; one attached device; 2 connect
  calls, which allow a reconnect after a lost or timed-out connection; 2 commands.
  `SampleApps` adds the six samples, with `MaxLoops = 1` iteration of each
  `while(!interrupt)` loop before Ctrl-C, `ForIterations = 2` for
  `sampleQuickstart`'s ten-iteration loop, and `MaxEvents = 4`, which is one
  iteration of the gateway samples' loop body. The loop bodies are the same on
  every iteration, so more iterations add no new interleaving. Both attached
  devices of the samples are in `Devices`.
  `SizeBits = 16`: topics are under 64 characters, so every position and every
  wrap-around of `npos + k` behaves as it does with a 64-bit `size_t`.

### Fairness

* **ReplyDispatcher:** weak fairness on the worker's steps and on the destructor's
  join. The OS schedules the threads, and `wait_for(10 s)` always ends. Producers and
  spurious wakeups are not fair.
* **ResponseCorrelator:** weak fairness on `WaitForResponse`, `WaitTimeout`,
  `LookupResponse` and `NotifyAll`. The platform, the clock and restarts are not fair.
* **DeviceManagement:** the fairness above; `dm_session` checks that every call returns.
* **ManagementHandlers and ClientSession:** check only safety. Each progress
  loop is bounded by its ten polls.

Several cfgs set `CHECK_DEADLOCK FALSE`. This is because the models stop after
their bounded number of calls. In ReplyDispatcher it is also because the object is
gone after the join.

## Hazards without a run of their own

* **Orphaned answers.** An answer that arrives after its caller gave up stays in
  `mResponseMessages` for the rest of the process. This costs memory; the wrong
  answer it can cause is what `corr_id_reuse` checks.
* **A client without a reply thread.** A file with an empty `"Port"` or
  `"useClientCertificates"` gives rc false: there is no reply thread and no
  response handler, yet the client connects. Its destructor then skips
  `delete pasync_client` (`join()` throws), so paho keeps calling the freed
  `IOTF_Callback`. `ClientSession` reaches this state (Destroy with
  `replyThread` false and `conn` up, then `message_arrived`) for an application
  that destroys a connected client without `disconnect()`. A sample is destroyed
  while connected only after a timed-out connect, when it holds no subscription.
* **Samples that cannot connect.** `sampleManagedGateway`'s reader never sets
  the trust store, so its `connect()` always fails in `GatewayInitialize`.
  `sampleQuickstart` has the same gap for a registered org. The session run
  has no state with `sampleManagedGateway` connected.
* **A non-numeric `Port`.** `std::stoi` throws out of the constructor, and the
  samples catch only `mqtt::exception`, so the process terminates. The model's
  files give `"8883"` or `""`.
* **Replies queued at teardown.** `~IOTP_Client` sets `mExit`, and the worker
  leaves its loop without draining `mReplyMsgs`: a reply queued just before the
  destructor (the answer to a reboot request, a last progress notification) is
  never published. `reply_fifo` reaches `client = "joined"` with a non-empty
  queue; the refinement allows it, since `ReplyChannel` promises order, not
  delivery.
* **Firmware updates move the device to (0,0,0).** The firmware and attribute
  handlers share `SERVER_UPDATE_TOPIC`, and the attribute handler calls
  `UpdateLocation` whatever the first field is. A firmware-details update
  therefore hands the application the location `(0,0,0)`. `UpdateTopicRequest`
  models this and the `fw_progress` run reaches it; no run checks a property
  against it.
* **A non-JSON update request.** The attribute handler's raw overload returns
  an indeterminate pointer, which the router passes to `IOTF_send_reply` when it
  is not null. `RawRequest` reaches it; what follows is undefined behaviour.
* **An update that has not started yet.** The update progress thread stops at its
  first poll if the application has not yet set `IN_PROGRESS`, because `NOT_SET`
  also leaves the loop. The platform then never hears the outcome.
  `UpdateReportsWellFormed` checks the loop's rule as the spec states it.

## Not modelled, and why

* **The TLS handshake and JSON syntax.** A file is modelled by which keys it
  has and whether each is empty. Whether the handshake succeeds is decided by
  `PlatformAccepts` from what `connect()` passes.
* **Event topics and payloads.** A publish is modelled by whether it throws and
  whether the platform receives it.
* **The samples' action listeners.** They only print. The managed-device half of
  `sampleManagedGateway` is commented out.
* **Two live `async_client`s.** Each `connect` allocates a new one without
  deleting the old; `ClientSession` keeps one connection per client.
* **A command handler across reconnects.** Every accepted `connect` installs an
  `IOTF_Callback` without the user callback; the model drops later commands, but
  no property asserts what should happen, because nothing in the source or spec says.
* **The data classes and their JSON conversion.** They are plain getters and
  setters; the models carry payloads as abstract values. Their defects are
  single-call ones that a unit test reaches: `IOTP_DeviceLocation(const
  Json::Value&)` copies `measuredDateTime` with `strcpy` into a 21-byte buffer
  (a timestamp with milliseconds overflows it) and `strptime`s into `gmtime`'s
  static `tm`, so the parsed time is lost; `IOTP_FirmwareInfo::set_name`,
  `set_version`, `set_uri` and `set_verifier` do not refresh the JSON that
  `toJsonValue` returns.
* **`IOTP_Client::connect(mqtt::iaction_listener&)`.** `IOTP_DeviceClient` and
  `IOTP_GatewayClient` declare their own `connect()`, which hides this overload,
  and no sample or library code calls it.
* **The data race on `mHandlers`.** The MQTT thread iterates `mHandlers` while
  `manage` inserts into it, and the guard in `message_arrived` is commented out. A
  torn multimap is undefined behaviour with no finite set of outcomes, so registry
  operations are atomic steps.
* **The read of `mExit` without synchronisation.** It is modelled as an atomic
  flag.
* **Logging.**

## Plan for the remaining modules

1. **Composition.** Connect `ManagementHandlers`' notifications to
   `ReplyDispatcher`'s producers, so that notifications sent during teardown are
   shown to be lost.
2. **Topic parser against a reference tokenizer.** `ParseCommand` is in
   `ClientSession`; a segment-wise reference definition would extend
   `CommandFieldsMatchTopic` to every bounded topic.
3. **Reconnect under management.** `ClientSession` models reconnect for the
   command registry; its effect on `DeviceManagement`'s handlers is not yet composed.
