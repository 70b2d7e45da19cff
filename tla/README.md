# TLA+ specifications of the MVD edge agent

The edge agent (`src/mvd_edge`) reads RFID tags from an IDT-85 reader on a
serial line, turns what it sees into ENTER and EXIT events, keeps them in a
local SQLite queue and delivers them to a cloud API, with a heartbeat beside.
One thread does all of it, in the loop of `run_agent` (`app.py`). What makes it
hard is what happens around that thread: the process dies between two
transactions, requests are stored although their reply is lost, a reader is
unplugged between two commands, time passes without readings.

This directory holds models of the agent's parts (delivery, presence, the reader's
connection, discovery, the loop with its timers) and of what it takes in
(configuration, reader frames, network telemetry), the TLC configurations that check
them, and proofs of their invariants.

## Inventory of the system

| Component | State it keeps | Operations | Talks to | What is hard | What makes it correct |
|---|---|---|---|---|---|
| `EventQueue` (`storage/queue.py`) | SQLite table: id, event id, payload, `created_at`, `attempt_count`, status | `enqueue`, `fetch_pending`, `update_payload`, `mark_attempt`, `mark_delivered`, `pending_count` | called by the loop | crash between transactions; order by a wall-clock text; the limit of a batch | no event lost, order of a batch, DELIVERED only after the cloud has it |
| Delivery pass (`app.py`: `process_pending_deliveries`) | the fetched batch, the row in hand, the result | fetch, restamp, send, record | queue, transport, health | partial failure of a batch, crash after the send | every attempt counted, no false delivery, no starvation |
| `CloudTransport` (`transport/cloud.py`) | none | `send_payload`, `send_heartbeat` | the cloud over HTTP | lost replies, time-outs, late duplicates | success only for `stored` / `already_stored` |
| `PresenceState` (`event_engine/state.py`) | tag -> time last seen | `update` | readings in, events out | missed readings, outages, restarts, `>=` at the timeout | alternating ENTER/EXIT, no false EXIT, no lingering tag |
| Reader connection (`app.py`: `connect_and_verify_reader`, `read_inventory_events`; `adapters/idt85.py`) | reader state, serial handle | resolve, open, verify, get/set work mode, inventory, close | the reader; health; presence | hardware that changes between two commands, five commands that fail in three ways each | no leaked handle, inventory only in Answer Mode, recovery |
| `HealthState` (`health/state.py`) | status, connection flags, counters, last errors | `mark_*`, `payload` | written by loop and delivery, read by the heartbeat | counters that outlive a connection, one error slot for two writers | what the heartbeat says is what happened |
| Loop, timers, shutdown (`app.py`: `run_agent`, `ShutdownController`) | next attempt times, shutdown flag | one iteration | everything | wall clock that is not monotonic; flag read at the top only; slow requests stretch the cadence | the loop goes on; a stop is clean |
| IDT-85 frames (`adapters/idt85.py`) | none | `crc16`, commands, `classify_inventory_response` | reader bytes | lengths, CRC checked for one kind of reply only | each frame classified rightly |
| Serial discovery (`discovery/serial.py`) | none | enumerate, filter, rank, probe, select | serial ports | the port can change before it is opened | exactly one reader or none is selected |
| Configuration (`config.py`) | none after start | `from_env`, parsers | environment, files | precedence, NaN passes a bound | one source; the loop can run with what is accepted |
| Network telemetry (`health/network.py`) | none | `collect_network_telemetry` | operating system | answers of different moments, commands that fail | a report says only what was so |
| CLI, installers, services, legacy scripts, tools | none at run time | - | - | - | the service is restarted on failure |

## Modules

| Module | Models | Kind |
|---|---|---|
| `EventQueue` | `storage/queue.py`: each method an operator on the value of the table | operators |
| `StoreAndForward` | what the agent promises about accepted, stored and acknowledged events | abstract specification |
| `Delivery` | the way from a detected event to the cloud's answer; EXTENDS `EventQueue` | state machine |
| `TagTracking` | `PresenceState` between the radio field and the event stream | state machine |
| `ReaderHealth` | the `mark_*` operations of `HealthState` | operators |
| `ReaderService` | what a heartbeat says of the reader, whatever goes on below | abstract specification |
| `ReaderLink` | connection, verification, mode and inventory; EXTENDS `ReaderHealth` | state machine |
| `PortDiscovery` | automatic discovery, from the listings to the open reader | state machine |
| `AgentLoop` | an iteration of `run_agent`, its timers, the heartbeat, stopping; EXTENDS `ReaderHealth` | state machine |
| `ReaderFrames` | bytes and replies of the reader on a bad line, for any checksum | state machine |
| `ReaderChecksum` | `crc16` bit by bit | operators |
| `AgentConfig` | `EdgeConfig.from_env` | state machine of one step |
| `NetworkTelemetry` | `collect_network_telemetry` command by command | state machine |
| `AgentInputs` | `AgentConfig`, `ReaderFrames` and `NetworkTelemetry` side by side | composition |
| `DeliveryProofs` | types, safety, order and refinement of `Delivery` | proofs |
| `TagTrackingProofs` | types and safety of `TagTracking` | proofs |
| `ReaderLinkProofs` | types, safety and refinement of `ReaderLink` | proofs |
| `PortDiscoveryProofs` | types and safety of `PortDiscovery` | proofs |
| `AgentLoopProofs` | types, bounds in time and refinement of `AgentLoop` | proofs |
| `ReaderFramesProofs` | types and safety of `ReaderFrames` | proofs |
| `NetworkTelemetryProofs` | types and safety of `NetworkTelemetry` | proofs |
| `AgentInputsProofs` | types and safety of `AgentConfig` and of `AgentInputs`; EXTENDS the two before | proofs |
| `MCDelivery`, `MCTagTracking`, `MCReaderLink`, `MCPortDiscovery`, `MCAgentLoop`, `MCAgentInputs` | small instances for TLC; the last brings the checksum | model checking |

Definitions marked "Faulty variant" are not part of any specification. Each is
a plausible bug in the definition that follows it; with the variant in its place
the property named in `PROJECT.json` ("mutants") fails.

### Delivery

One step per SQLite transaction and per request, because the process can die
between any two. `pc` says where the thread stands:

| `pc` | the code is about to | actions |
|---|---|---|
| `down` | start (service manager) | `Start`: open the queue, then the pass before the loop |
| `loop` | run an iteration | `Detect` (a reading yields events), `RetryDue`, `Shutdown` |
| `enqueue` | `queue.enqueue` for each event | `EnqueueEvent`; after the last one the immediate delivery |
| `fetch` | `fetch_pending(limit=batch_size)` | `FetchBatch` |
| `next` | take the next row, restamp and `update_payload` | `BeginEvent`, `EndBatch` |
| `send` | `transport.send_payload` | `SendAccepted`, `SendReplyLost`, `SendFailed`, `SendDelayed` |
| `attempt` | `mark_attempt` | `RecordAttempt` |
| `deliver` | `mark_delivered` | `RecordDelivery` |

`table` is the file on disk, `cloud` the ingest endpoint (external: it stores an
event once under its `edge_event_id`, answers `stored` or `already_stored`, and
refuses the events in `Poison`), `inflight` the requests that timed out but may
still arrive (`LateArrival`). `Crash` keeps these three and drops the rest.
Payloads are reduced to the edition of `edge_send_at` they carry (`stamp`).

### TagTracking

One step per iteration of the loop. `visible_tags` stores the time a tag was last
seen; since only its difference to now is used, the model keeps this `age`,
saturated at the exit timeout, which no comparison can tell from larger ones.
`AnsweredScan` is a VALID result (the tags read are some of those in the field),
`NoReading` is an iteration without one (`NO_RESPONSE`, `MALFORMED`, no reader:
`update` is not called and time goes on), `Restart` a new process. `inside` is
what a consumer of all events so far takes to be present, `strayed` the tags that
were out of the field at some time since they were last read, `away` how long
a tag has been out, `blind` the tags last read before the last outage, `misses`
how many valid readings in a row left out a tag of the field. `Misread` is a
VALID result that names a tag that is not there: a reply that came late, or one
with a disturbed byte, since no CRC is compared of a reply that counts tags.

### ReaderLink

One step per serial command: the hardware actions (`Unplug`, `Plug`, `PowerOff`,
`PowerOn`, `Disturb`) may come between any two. A handle opened before the
adapter was unplugged is `stale` and raises; a reader without power times out
(`Silent`); a disturbed one may be silent, answer properly or answer something
else (`Garbled`), and its port may be busy, so that `open` raises. `handles` counts the open handles of all `IDT85Reader`
objects, the discarded ones too. The health record is updated by the operators
of `ReaderHealth` exactly where the code calls `mark_*`. Discovery is reduced to
its outcome (see `PortDiscovery`), with the time between probing and opening kept. `config` holds the
three settings the code branches on, chosen once in `Init`: `AUTO_CONFIGURE_READER`, whether
`SERIAL_PORT` is `AUTO`, and whether `READER_VERIFY_METHOD` is `AUTO`, which asks for the work mode
if the reader does not tell its information. Each other method sends one command. Three variables are
history: `last` (the result of the last inventory, or how a connection failed or ended),
`streak` (the inventories without an answer since the last valid one of the process),
and `deceived` (READY rests on a reply to Get Work Mode whose mode byte was
disturbed; that reply is accepted without a CRC).

| `pc` | the code is about to | actions |
|---|---|---|
| `down` | start | `Start` |
| `top` | run an iteration of the loop | `Connect` if not READY, else an inventory; `Shutdown` |
| `resolve` | find the port | `ResolvePort`, `ResolveNone` |
| `open` | open the port | `Open`, `OpenRaises` |
| `verify`, `verifyMode`, `getMode`, `setMode`, `recheck` | send one command | `Verify`, `VerifyAgain`, `ModeIsAnswer`, `ConfigureMode`, `ModeNotConfigurable`, `SetMode`, `RecheckIsAnswer`; `VerifyFails`, `SetModeFails`, `RecheckFails`; `CommandRaises` |
| `scan` | read the inventory in the iteration that connected | `InventoryValid`, `InventoryNoResponse`, `InventoryMalformed`, `InventoryRaises` |

`Serves` shows that the link implements `ReaderService`, where an attempt to connect is
`Try` and then `Succeed` or `Fail`, and an inventory is `Answered`, `Unanswered` or
`AnsweredBadly`: the five commands of a connection, their replies and what the hardware does
meanwhile are stutters.

### PortDiscovery

One attempt of `run_agent` with `SERIAL_PORT=AUTO` is a walk through `pc`:

| `pc` | the code is about to | actions |
|---|---|---|
| `idle` | begin when the attempt is due | `Begin` |
| `link` | list the links under `/dev/serial/by-id` | `ListLinks` |
| `list` | resolve the next of them (`links`), or list the ports and apply the USB filters | `ResolveLink`, `ListPorts` |
| `probe` | probe the next candidate, or decide | `Probe`, `Select`, `Refuse` |
| `open` | open and verify the selected path | `Connect` |
| `ready` | scan | `Lost` |

`at` is the adapter at each ttyUSB number, `answering` the adapters with a reader
that answers; `Attach`, `Detach` and `Switch` change them at any time. A path is a
link, which follows its adapter, or a ttyUSB name, which does not. `targets` is
`stable_paths_by_target`. `matching` (the USB filters) and `byId` (which adapters get a
link) are chosen in `Init`. `answered`, `touched` and `quiet` are the history of the
attempt: adapters that answered a probe, ports that got another adapter, whether
anything changed. Links come first in the order of probing; the order of the
rest depends on descriptions and is left open.

### AgentLoop

The frame the other machines run in. The thread walks through an iteration, and every
piece of work takes some time up to a bound, its timeouts included:

| `pc` | the code is about to | actions |
|---|---|---|
| `down` | start | `Start` |
| `startup` | deliver what is queued, before the loop | `StartupPass` |
| `top` | look at the flag, read `scan_start` and `now` | `StopNow`; `BeginConnect` if not READY and the timer is due, else `NoConnect` |
| `connect` | resolve, open, verify | `Connect` |
| `scan` | read the inventory | `Inventory`, `InventoryRaises`, `NoReader` |
| `deliver` | deliver at once what was just queued | `ImmediatePass` |
| `retry` | look at `last_delivery_attempt` | `RetryPass`, `NoRetry` |
| `beat` | look at the heartbeat's timer | `Heartbeat`, `HeartbeatRaises`, `NoHeartbeat` |
| `pause` | sleep what is left of the interval | `Sleep`, `Wake` |

`SetBack` and `SetForward` move the wall clock, `RequestStop` sets the shutdown flag,
`Kill` ends the process; all may come between any two steps. The code compares
`time.time()` with the time of a timer's last attempt; the model keeps this
difference, `age` (for the reader, `next_reader_attempt` less its interval), and
`elapsed` for `scan_start`. It differs from the real time `idle`
since a timer's work last ended in two ways, which the properties are about: the
clock may be set, and after a failed connection the interval counts from before the attempt.
`gap` and `held` are the real time since a reading and since the request to stop. Connection, reading and
delivery are reduced to outcome and duration; `pending` counts the rows of the
queue. A heartbeat whose answer is JSON but no object ends the process
(`HeartbeatRaises`): `result.get` is outside of the handler.

The loop implements `ReaderService` too (`Serves`), with the failed deliveries
(`SendFails`) that write into the same error. The model marks an attempt with its
end, the code before it resolves the port; `Shown` is the record in between.

### ReaderFrames, AgentConfig, NetworkTelemetry

`ReaderFrames` is one exchange after the other. `wire` holds the reader's bytes that
the agent has not read. `Send` drops those that came in before `reset_input_buffer`, any number
from the front, and puts the reply behind the others, which come in later. `Receive` reads what
comes within the timeouts: any number of bytes up to those that the first one announces;
the rest stays on the wire, for the next reset to drop or the next exchange to read. So
a reply may be late, in part or whole, and the input may begin inside one. `Disturb`
changes one byte of a reply. `head` is the reply that the first byte on the wire is the first of.
Frames are byte sequences; the replies of the reader are an external, built the way the tests
build them. `truths` is what the reader's replies to this kind of command said. The checksum is a
constant operator, `crc16`, of which the module assumes (`ChecksumAssumption`) only that it has
16 bits and that the reply without tags of another address has another one. `CRC16` of
`ReaderChecksum` is the code's; it is the constant's value in the run, and TLC
evaluates the assumption for it.

`AgentConfig` has one step, `LoadConfig`, from an installation (`setup`: what
`MVD_EDGE_CONFIG` and the older name hold, the files there are and what is in them, the
environment of the process) to the settings with their source, or to a refusal. Texts are
classes that the parsers tell apart, NaN and infinity among them. One setting
stands for those that are parsed alike.

`NetworkTelemetry` is `collect_network_telemetry`, one command of `ip` or `nmcli` per step
(`Run`); each may fail, and `NetworkChanges` comes between any two. `held` are the states
the network has been in during the collection.

None of the three reads what another changes. `AgentInputs` puts them side by side and
lets one at a time go on, chosen by `job`.

## Runs

Each is `tlc -config <configuration> <module>`.

| Run | Module, configuration | Question | Answer |
|---|---|---|---|
| `delivery_safety` | `MCDelivery`, `MCDeliverySafety.cfg` | Is the bookkeeping right after every step, with crashes, a clock that steps back, every outcome of a request and late duplicates? Does the path implement `StoreAndForward`? | yes (989,899 states) |
| `delivery_progress` | `MCDelivery`, `MCDeliveryProgress.cfg` | Is every event the cloud accepts delivered, and who may overtake whom? | `EventuallyDelivered`, `OvertakenOnlyAfterAttempt` hold (63,582 states) |
| `delivery_oldest_first` | `MCDelivery`, `MCDeliveryOldestFirst.cfg` | Are events delivered oldest first? | no: finding 1 |
| `delivery_starvation` | `MCDelivery`, `MCDeliveryStarvation.cfg` | Is every queued event tried? | no: finding 2 |
| `tags` | `MCTagTracking`, `MCTagTracking.cfg` | When may an EXIT be false, and can a tag linger? | see the properties (5,624 states) |
| `tags_false_exit` | `MCTagTracking`, `MCTagTrackingFalseExit.cfg` | Does an outage cause no false EXIT? | no: finding 3 |
| `link` | `MCReaderLink`, `MCReaderLink.cfg` | Handles, modes, the health record and recovery under every change of the hardware | all hold (54,592 states) |
| `link_stale_handle` | `MCReaderLink`, `MCReaderLinkStaleHandle.cfg` | Is the handle of a lost reader closed? | no: finding 4 |
| `link_mode_lost` | `MCReaderLink`, `MCReaderLinkModeLost.cfg` | Does inventory only resume in Answer Mode if readers forget their mode? | no: finding 5 |
| `discovery` | `MCPortDiscovery`, `MCPortDiscovery.cfg` | Is the one reader found, and can a wrong one be, while adapters move? | all hold (166,078 states) |
| `agent_loop` | `MCAgentLoop`, `MCAgentLoop.cfg` | How late can each timer, a stop and a reading be, whatever takes long and however the clock is set, and does everything go on? | all hold (746,858 states) |
| `inputs` | `MCAgentInputs`, `MCAgentInputs.cfg` | What can a bad line make the agent read, what can it be configured with, and what can it report of a network that changes? | all hold (1,568,428 states) |

What the properties say:

* `DeliveredIsStored` - whatever was lost, late or repeated, a row marked
  DELIVERED is stored by the cloud.
* `WriteAhead` - no edition of an event, in the cloud or under way, is newer than
  the one on disk; a restart cannot send an older edition than one already sent.
* `AttemptAccounting` - `attempt_count` is at most the number of sends and misses
  no more of them than there were crashes.
* `LostOnlyByCrash` - only a crash loses an event, and only one that is not on disk. (The events
  that a scan yielded and `enqueue` has not stored are lost by a crash.)
* `NoResendAfterAck` - a send is of a PENDING row.
* `Promise` - the refinement of `StoreAndForward`.
* `OvertakenOnlyAfterAttempt` - with a clock that never steps back, a pending event
  is overtaken by a younger one only after a failed attempt.
* `EventuallyDelivered` - if the refused events do not fill a batch, all others are
  delivered.
* `NoFalseExitIfShort` - if the misses in a row times the longest gap stay below the
  exit timeout, there is no EXIT of a tag that never left, but after an outage.
* `NoLinger` - a valid reading, after an outage of any length, leaves no tag
  inside that was neither in the field nor read for the timeout.
* `Alternates` - ENTER and EXIT of a tag alternate within one life of the process.
* `EventuallyTold` - arrivals are reported, after restarts too; departures are
  reported by the process that reported the arrival, if readings cease to name tags that
  are not there. (After a restart the stream has second ENTERs, and the EXITs of tags that left
  meanwhile never come.)
* `HandleDiscipline` - one handle at most; between iterations it is open exactly
  while the reader is READY; none survives the process.
* `ScanInAnswerMode` - an inventory command reaches a reader that is on only if it is
  in Answer Mode (unless a disturbed reply deceived the agent).
* `HealthTruth` - between iterations, status, flags and both errors (`last_error`, `last_reader_error`)
  are those of the last thing that came of the reader. The count of silences is that since
  the last valid inventory of the process: no connection resets it, so that the
  first silence of a new one may read OFFLINE. `malformed_response_count`, which nothing resets,
  is not compared.
* `ModeLeftAlone` - without `AUTO_CONFIGURE_READER` no step changes a mode.
* `Serves` - the refinement of `ReaderService`: what a heartbeat says of the reader at any
  moment follows from its state, its last inventory and the inventories without an answer
  since the last valid one; no connection resets that count, no error outlives a connection.
* `Recovers` - a reader that is good from some time on is read again, without help.
* `FindsTheOne` - in an attempt during which nothing changes, a lone eligible
  reader is selected, several are refused as such, and else none is found.
* `FilterKept` - a reader the filters exclude is only ever connected if the port it
  was found at got another adapter during the attempt. (It can: the links are
  resolved before the ports are listed.)
* `ConnectsWhatItProbed` - by its link, the connected reader is one that was probed;
  by a ttyUSB name too, if the name was not given away meanwhile.
* `Settles` - once nothing changes and one eligible reader is there, the agent
  connects for good.
* `Punctual` - no timer waits longer than its interval, the longest way around the
  loop to its next check, and twice what the clock was set back.
* `StopsInTime` - a request to stop is honoured when the rest of the iteration is done,
  two full batches of requests that time out at most among it.
* `ScanGap` - the time between two readings of a READY reader is bounded by the sleep, or by two
  batches and a heartbeat. This is the `MaxGap` that `TagTracking` assumes.
* `ReportedError` - reader and delivery share `last_error`: what a heartbeat carries still
  tells whether the reader is connected, and `CLOUD_DELIVERY_FAILED` of a send that did fail.
* `HeartbeatsGoOn`, `PassesGoOn` - heartbeats and delivery passes are attempted for ever, also when
  every heartbeat ends the process or the clock is set back.
* `AnswersTruly` - undisturbed input that begins with the first byte of a reply, a late one or not,
  is taken for the answer only if that is a reply to this kind of command, and means what
  the reader said. Of an inventory all bytes must have come; of the other commands the
  first five are enough, for `is_valid_command_response` (`idt85.py:89-93`) compares no count and no CRC. Input
  that begins inside a reply is promised nothing.
* `DisturbedInData` - one disturbed byte is read as data only where it is data: in the
  count, lengths or EPCs of a reply with tags, or in the mode byte.
* `OneSource` - an accepted configuration comes from one file, and beside a file the
  environment of the process decides of nothing but the directories.
* `Usable` - intervals are above zero, or NaN or infinity if somebody wrote them; batches have a
  size; a USB id never comes alone.
* `ReportedWasSo` - whatever changes or fails during a collection, each part of the report was
  so at some moment of it.
* `QuietReportIsTrue` - if nothing changes and fails, the report is the network's state, with the device
  of the default route, or the preferred one, as the primary.

### Bounds, and why they are enough

| Bound | Value | Why |
|---|---|---|
| `Events` | 2 and 3 | order and counters concern pairs of events; the third is the refused one, with two left to compete behind it |
| `BatchSize` | 2, 1 | smaller than, and equal to, the number of events; 1 only where the batch must be full of refused events |
| `Times` | {1, 2} | equal and different `created_at`; with `MonotonicClock = FALSE` the clock goes either way |
| `AttemptCap` | 3, 1 | editions and attempts saturate there. The safety properties compare two counters that saturate at the same cap; three is one more than the crashes, so that sends uncounted because of a crash and counted ones occur together. The progress runs only ask whether there was an attempt |
| `MaxCrashes` | 2, 1, 0 | two crashes reach a crash during the recovery from a crash |
| `Tags` | 2 | the dictionary treats tags one by one; two give scans that see one and miss the other |
| `ExitTimeout`, `MaxGap`, `MaxMisses` | 3, 2, 1 | one miss ends one unit short of the timeout, outages reach and pass it; ages saturate at the timeout, the only value they are compared with |
| `Threshold` | 3 | the default of `mark_inventory_no_response`; the counter saturates at it |
| `MalformedCap` | 1 | the counter of malformed replies is written, never read |
| `MaxHandles` | 2 | a second handle is already a leak |
| `Adapters`, `Ports` | 2, 2 | a wrong join, a name given away or an ambiguous verdict takes two adapters; an adapter leaves a port before another takes it |
| `MaxRestarts` | 1 | one restart from every state; a new process keeps nothing of the old one |
| `HeartbeatInterval`, `RetryInterval`, `DiscoveryInterval`, `ScanInterval` | 2, 2, 2, 1 | a timer that is not due at one check and due at the next, with a sleep in between |
| `ConnectTime`, `InventoryTime`, `SendTime`, `BeatTime` | 1 | work takes no time or some; every bound in time is reached |
| `MaxPending`, `BatchSize` | 1 | a pass with and without a failure, and one that finds nothing |
| `MaxBack`, `MaxEnds` | 1 | the clock set back once, a stop or a kill once, anywhere; `HeartbeatRaises` may come again and again |
| `Address` | 137 | the checksum of this address's no-tag reply begins with a zero byte: the one disturbance that makes that reply an accepted one of no tags, which `DisturbedInData` excepts, is among those explored |
| `Fields`, `Modes`, `Noise` | no tag, one, two; two modes; 15 bytes | bytes that are lengths, counts, commands and verdicts of these frames, and some that are not |
| `MaxUnread` | 12 | the longest reply here: it may be left over whole, or any part of it, and of shorter ones more than one. The theorems have no such bound |
| `Contents` | a complete file but for one odd setting, or with a pair of USB ids | settings are parsed one by one but for the USB ids and the interval that is another's default |
| `Existing` | none, all, or one of the five files | precedence compares two; a named file that is missing while any other is there |
| `Listed`, `Links` | one device of each kind, least preferred first; four states | the order of the list and the preference disagree |
| `MaxChanges` | 1 | one change between any two commands |

`SYMMETRY` is used only where no event is refused and no liveness is checked.
`CHECK_DEADLOCK` is off in `inputs` only, where a start ends with the configuration.

### Fairness

* `WF_vars(AgentStep)` (`Delivery`, `ReaderLink`, `AgentLoop`) - one thread runs the loop, no
  request and no serial command waits without a timeout, and `Restart=on-failure`
  of `packaging/linux/systemd/mvd-edge.service` starts a dead process again. That
  a stopped service is started again by somebody is an assumption.
* `SF_vars(SendAccepted /\ cur = e)` (`Delivery`) - an event sent over and over is
  accepted in the end. It says nothing of refused events, for which the action is
  never enabled, and requires the network to be up only now and then.
* `WF_vars(AnsweredScan)` (`TagTracking`) - the loop scans, and the reader gives
  a valid reading again and again. Which tags this reading contains is free but
  for `MaxMisses`.
* `SF_vars(SetMode /\ mode' = "ANSWER")` (`ReaderLink`) - a reader that acknowledges
  Set Work Mode again and again carries it out at some time.
* `WF_vars(AgentStep)` (`PortDiscovery`) - attempts are repeated after
  `reader_discovery_interval`, and listing, opening and probing end.

The hardware, the cloud's refusals, shutdown, crashes and the clock have no fairness.
`MaxEnds` bounds the kills and stops of `AgentLoop`, but not the heartbeats that end the process.
The liveness properties of `AgentLoop` say that attempts are made; that they succeed is the
matter of `EventuallyDelivered`.

### Findings

Five runs show that the code does other than `README.md` of the repository says.

1. `delivery_oldest_first`: "Queued events are delivered oldest first in bounded
   batches" - a failed send does not end the batch, so the rest overtakes it.
   What holds is `OvertakenOnlyAfterAttempt`.
2. `delivery_starvation`: a failed event "is retried by the running edge
   process" - events the cloud refuses for good stay at the head of the table, and
   as many of them as a batch holds starve everything younger. What holds is
   `EventuallyDelivered`.
3. `tags_false_exit`: an outage "does not create false EXIT events for tags that
   were last known to be present" - the outage counts towards the timeout, so one
   reading after it that misses a present tag yields its EXIT. What holds is
   `NoFalseExitIfShort`, which excuses the tags in `blind`.
4. `link_stale_handle`: "During reader communication loss, the agent closes the stale
   serial handle" - silence never does, only an exception.
5. `link_mode_lost`: the adapter "only resumes inventory when the reader is in Answer
   Mode" - a reader that lost its power behind a live adapter is not asked for
   its mode again, since that is no new connection to the code; the sentence begins "On reader
   connection", in a section that covers the loss of power. With readers that keep their mode, `ScanInAnswerMode` holds.

### Observations

Met while modelling, without a run of their own:

* With the defaults, two batches of 20 requests that time out after 5 s take far longer than the
  heartbeat's 30 s and than `TimeoutStopSec=30` of the service file: `StopsInTime`
  holds, but its bound exceeds what systemd waits for before it kills.
* Before the request of a heartbeat, seven commands with 1 to 1.5 s each may take 10 s.
* After a failed connection the interval counts from before the attempt, so a slow attempt
  is repeated at once.
* `docs/PACKAGING.md:62-67` lists a `.env` next to the executable and then one in the working
  directory; `runtime_dir` (`config.py:138-142`) looks in one of them only, by whether
  the program is frozen (`OneSource`).
* `README.md:240` wants `TARGET_READ_DISTANCE_M` positive; NaN passes that bound, here and for
  the intervals, where it stops a timer or the exit of tags for good (`Usable`).
* A reply to Get Work Mode that has a status but no mode is accepted, and the low byte
  of its CRC read as the mode.

## Proofs

The proofs hold for every value of the constants that satisfies the named
assumptions: any finite set of events, any set of tags, any batch size, timeouts,
thresholds and numbers of crashes, any durations and intervals, any contents of
files, any list of devices.

| Module | Theorem | Property |
|---|---|---|
| `DeliveryProofs` | `TypeCorrect` | `TypeOK` |
| | `NoFalseDelivery` | `DeliveredIsStored` |
| | `WrittenBeforeSent` | `WriteAhead` |
| | `AttemptsCounted` | `AttemptAccounting` |
| | `NothingLost` | `LostOnlyByCrash` |
| | `OnlyPendingSent` | `NoResendAfterAck` |
| | `KeepsPromise` | `Promise` (refinement of `StoreAndForward`) |
| | `OvertakesOnlyTried` | `OvertakenOnlyAfterAttempt` |
| | `PassesAreFull` | a pass fetches as many rows as are pending or a batch holds, and there is an oldest of them until all are treated |
| `TagTrackingProofs` | `TypeCorrect` | `TypeOK` |
| | `NeverFalseExit` | `NoFalseExitIfShort` |
| | `NeverLinger` | `NoLinger` |
| | `StreamAlternates` | `Alternates` |
| `ReaderLinkProofs` | `TypeCorrect` | `TypeOK` |
| | `NoHandleLeaks` | `HandleDiscipline` |
| | `OnlyScansInAnswerMode` | `ScanInAnswerMode`, if `ModeSurvives` |
| | `NeverConfiguresUnasked` | `ModeLeftAlone` |
| | `HealthIsTrue` | `HealthTruth` |
| | `LinkServes` | `Serves` (refinement of `ReaderService`) |
| `PortDiscoveryProofs` | `TypeCorrect` | `TypeOK` |
| | `AttemptFindsTheOne` | `FindsTheOne` |
| | `KeepsFilter` | `FilterKept` |
| | `ReaderWasProbed` | `ConnectsWhatItProbed` |
| `AgentLoopProofs` | `TypeCorrect` | `TypeOK` |
| | `AlwaysPunctual` | `Punctual` |
| | `StopsSoon` | `StopsInTime` |
| | `GapBounded` | `ScanGap` |
| | `ReportsTruly` | `ReportedError` |
| | `LoopServes` | the loop's refinement of `ReaderService` |
| `ReaderFramesProofs` | `FramesTyped` | types of an exchange |
| | `UndisturbedAnswersTrue` | `AnswersTruly` |
| | `DisturbanceConfined` | `DisturbedInData` |
| | `RequestsUnderstood` | each command has the length and the checksum it claims |
| `NetworkTelemetryProofs` | `NothingInvented` | `ReportedWasSo` |
| | `QuietIsTrue` | `QuietReportIsTrue` |
| `AgentInputsProofs` | `AlwaysOneSource` | `OneSource` |
| | `AlwaysUsable` | `Usable` |
| | `ConfigTyped` | types of the configuration |
| | `InputsTyped` | `TypeOK` of `AgentInputs` |

The inductive invariants, and why the properties alone are not enough:

* `DeliveryProofs!IInv`. `DeliveredIsStored` depends on what the thread knows between
  two transactions: `Hand` says that the row in hand is pending, is not in the rest
  of the batch, that the payload in memory is the one on disk, and that a
  successful result means the cloud has it. `Counted` says that a row under way has
  been stamped but not counted yet, which `AttemptAccounting` needs to stay true when
  `mark_attempt` commits. The refinement follows action by action: `EnqueueEvent`
  is `Accept`, a request that reaches the cloud is `Store`, `RecordDelivery`
  is `Ack`, all else stutters.
* `DeliveryProofs!OInv` adds `Front`: a pending row older than one still in the
  batch is in the batch itself, in hand, or already tried. It starts with the
  lemma `FetchIsFront` about `fetch_pending` (sorting and limit cannot leave out an
  older row) and is kept because rows are taken oldest first. `Numbered` makes
  a new row younger than all rows in the table. `PassesAreFull` needs `DistinctKeys` and
  counts: with distinct keys the number of older rows ranks a finite set from 0 on
  (lemma `Ranks`), so that the limit cuts off what it should and the first rank is taken.
* `TagTrackingProofs!IInv`. `Bounded`: the age of an entry that is neither strayed nor
  blind is at most its misses times `MaxGap`. `Agreed`: before any restart the
  consumer's view is the dictionary, and no tag has been away for longer than its
  entry is old.
* `ReaderLinkProofs!IInv`. `Held` ties the open handle to the step of the connection,
  `Permitted` says that Set Work Mode is only ever reached with permission,
  `Recorded` that the counter of the record is that of the history and that no
  error is left when an inventory begins, `ModeKnown` that the mode found at the
  connection stays the reader's mode for as long as the handle lives. The refinement adds
  `Trying`, what the record says all through a connection.
* `PortDiscoveryProofs!IInv`. `Traced`: every candidate was found at a port that was
  touched since or still leads to an accepted adapter (`Accepted`), and every
  verified path to one that answered (`Seen`). `Single`: one path is selected.
  `Undisturbed` is what `FindsTheOne` needs: as long as nothing changes, a candidate leads to
  an eligible adapter, a verified path to one that answers, each of these is still
  a candidate or verified, and no two paths lead to one. So the verified paths are, in the
  end, as many as the readers.
* `AgentLoopProofs!IInv`. `Punctual` bounds the time at a check, but time passes everywhere:
  `HeartbeatTimer`, `DeliveryTimer` and `ReaderTimer` give each timer a bound of its own for each
  place of the thread, the way gone since the last check; `GapTimer` and `Stopping` do
  so for the reading and the stop. `Aging` ties the wall clock to real time: an age that is not
  due lacks at most what the clock was set back, and the sleep gets longer by as much.
  `Reporting` is `ReportedError` at every place of an iteration. The refinement needs
  `Responding`: the flag and the status of the record agree.
* `ReaderFramesProofs!FrameInv`. `HeadIsReply`: without a disturbance the wire begins with the reply
  `head` names, or what has come of it; `WireDisturbed`: with one it is the present reply but for one
  byte. What is left are lemmas on what the agent makes of such beginnings, the longest of them
  on `classify_inventory_response`. It goes
  through the tags of a reply by recursion; induction is used as a fact about sets of numbers
  (`NatSetInduction`, from the well-foundedness of `<`), which gives the function
  its values (`Recursion`, `TagsFollow`) and shows that it reads the tags that were written.
* `AgentInputsProofs!ConfigInv` says that the configuration is `from_env` of the installation. The
  rest are lemmas on precedence and on what each setting accepts.
* `NetworkTelemetryProofs!NetInv`. `Founded`: each answer was so in one of the networks that were
  held. `InTurn`: an address was asked of the device the report will name, since the answers
  that select it come first. `Quiet`: without a change and a failure, all answers so far are
  those of the present network. `ReportMade`: a report is `Telemetry` of what was found.

Only model-checked: `EventuallyDelivered`, `EventuallyTold`, `Recovers`, `Settles`, `HeartbeatsGoOn`
and `PassesGoOn`. Liveness under fairness is out of the provers' reach. That `CRC16` meets
`ChecksumAssumption` is evaluated by TLC for the address of the run; the bits of a checksum
are out of the provers' reach as well.

Proved, but no property of a run: `Serves` of `AgentLoop`, `FullBatch` and `PassGoesOn` of
`DeliveryProofs`, whose states the runs of `AgentLoop` and `Delivery` explore for other questions.

## Not modelled

* In discovery: the ranks of ports without a link, and the parsing of USB ids.
* In the configuration: the text of the default heartbeat URL, words with a default (port, serial
  number, the two methods), and the interpolation of `python-dotenv`.
* In the frames: `parse_inventory_response`, the lenient reading that only the tools call; a byte
  that is lost in the middle of a reply; a disturbance of a byte that comes late.
* In the health record: timestamps and the last tags, which are only shown.
* In the network telemetry: connection names and the text of the commands' outputs.
* Text in general: event payloads but for `edge_send_at`, messages, log output.
* `TagTracking` does not move the wall clock: a step forward ages every tag at once, as an
  outage of that length does. `RestartSec` has no duration in `AgentLoop`.
* Command line, installers, service files (the restart policy excepted), legacy scripts and
  tools: no state of the agent is in them.
* The machines are not composed into one: each abstracts the others to the outcomes that
  its own model says they have, since the product of their states is out of
  TLC's reach. Where they meet, theorems say that they fit: `ReaderLink` and `AgentLoop`
  show the same reader (`LinkServes` and `LoopServes`, both of `ReaderService`); the passes
  of `AgentLoop` treat as many rows as those of `Delivery` (`PassesAreFull`); and `ScanGap`
  (`GapBounded`) is the assumption of `TagTracking`.
