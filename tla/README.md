# A TLA+ verification of the printer SDK

This directory models the SDK from the records that fill a label to the bytes a
printer takes, and the ways in which a host finds out about a printer or changes
it. Its weight is on the parts in which order, concurrency, cancellation and
partial failure decide whether a label is printed once, twice or not at all.
Every module is a translation of Rust code under `src/`; the `map` of
`PROJECT.json` gives the lines each definition stands for.

## The system

A *plan* is a list of actions (subscribe, delay, write a command, write raster
data in chunks, wait for a response, collect a response). `mb-printer-core` is
pure: it renders labels, encodes plans and decodes answers.
`mb-printer-executor` runs a plan over a `Transport`, racing every effect
against a `Cancellation`, and keeps a `ReplayStore` so that a job is tried at
most once. `mb-printer-native` has the transports (Bluetooth LE, serial, RFCOMM,
USB, TCP, file), worker pools, a blocking client, and the network protocols for
discovery and administration (IPP, SNMP, DNS-SD, Wi-Fi). `mb-printer-wasm`
exposes the same executor to a browser. `mb-printer-agent` runs inspections,
probes and confirmed changes for a controller.

| part | state | operations | what makes it hard |
|---|---|---|---|
| executor | position in the plan, `Progress`, the write in flight | one per `Action`, preflight, the race with cancellation | a write that loses its race may still arrive; limits change between writes; responses come in pieces |
| cancellation token | a flag and one waker | `cancel`, `cancelled` | a wakeup between test and registration; several waiters |
| replay | the set of claimed keys | `claim`, `execute_once` | two callers or processes with one key; a crash between claim and write |
| BLE transport | `NotificationState`, `CreditFlowState`, queue, forwarding task | connect, subscribe, write, wait, disconnect, drop | calls abandoned at each await; the printer notifies and hangs up at any time |
| blocking-device transports | a bounded command queue and an owner thread | write, read, disconnect, drop | commands outlive the calls that sent them |
| blocking client | a worker thread, commands and shutdown flags | execute, disconnect, shutdown, drop | shutdown against an execution in progress |
| worker pool | permits | `run` | a timed-out call keeps its permit |
| guarded administration | plan, confirmation, device generation | inspect, plan, apply | the device changes between plan, confirmation and write |
| label jobs | none: pure functions from documents, records and rasters to pages, sheets and plans | materialise, plan, impose, compress | references between rewritten elements; limits checked in several places; rounding; counts at their limits |
| Brother settings session | the stream of answers, settings mode | drain, identify, enter, query, exit | answers without identifiers that are late, split or missing; one step of several failing |
| wireless settings | the reply read so far, attempts | drain, query, read | replies without identifiers cut anywhere, status bytes between them, transports that are opened again |
| SNMP client | the walk's cursor, datagrams sent | get, walk, set | lost and late datagrams, agents that answer something else, writes that must not be repeated |
| IPP discovery | answers so far, the merged snapshot | base, focused and format requests | the printer changes between requests; one request of many fails |
| IPP messages | the decoder's stack and counters | encode, decode | nested collections, limits that both sides count |
| DNS-SD discovery | services found, the quota | two browses | repeated announcements, a shared quota and deadline |
| agent | requests, publications | inspect, probe, administer | duplicates, cancellation, late results |

What the checks aim at is the list of hazards in `PROJECT.json`, each at the
line where it bites: effects that outlive the call that started them, results
that must be exact about what a printer took, state read before an await and
used after it, queues and pools at their limits, wakeups and replies that could
be lost, crashes between a claim and its effect.

## The modules

Components that only read their environment are modelled with that environment
as actions of the same module: the printer, the network, the operating system,
the caller that goes away. Definitions marked `external` in the map are these.

**Executor** (`mb-printer-executor/src/executor.rs`, `error.rs`, and the status
derived in `mb-printer-wasm/src/wasm/bindings.rs`). `plan`, `index`, `logical`
and `offset` are the position in the loops over actions, logical chunks and
physical pieces; `progress` is `Progress`; `inflight` is the write handed to the
transport and `device` what the transport took, byte by byte. Each await is a
value of `pc` where the effect completes, fails or loses its race
(`LoseRace`). A byte is the pair of its action and its place, a response its
length and the place of its first `0x1a`. `Renegotiate` lets `payload_limit()`
change at any time. `MCExecutor` has the plans of the runs.

**PrintJob** is the abstract specification: bytes are handed over in pieces, in
order and once, never after cancellation or the result, and a result other than
"Unknown" is exact. `KeepsJobPromises` of Executor instantiates it with a
refinement mapping; the run `executor` checks it and `ExecutorProofs`
proves it.

**CancellationToken** (`executor/src/transport.rs`) has the flag and the
`AtomicWaker` at the grain of single atomic operations, with any number of
cancelling threads.

**Replay** (`executor/src/replay.rs`, `native/src/lib.rs`) has both stores.
`entries` is what processes see in the directory, `synced` which of the files were
synced and `durable` which names a power loss leaves. A name becomes durable
with its file or not, as the file system likes, because the code syncs no
directory; `lost` counts the names that power losses took away.

**BleTransport** (`native/src/transports/ble.rs`) has connect, subscribe, the
forwarding task with its bounded queue, credit flow control, the response wait,
disconnect and drop. Every await may be abandoned.

**PersistentDevice** (`native/src/transports.rs` with serial, RFCOMM and USB)
has the owner thread with its bounded command queue. A call that is dropped
leaves its command behind.

**HardwareWorkers** (`native/src/workers.rs`) has the permits of the semaphore,
which travel with the operation and not with the call.

**Threads** composes the four that threads or processes of a host share
(CancellationToken, HardwareWorkers, PersistentDevice, Replay). `part` says which
one a behaviour uses; they have no state in common, so the others rest.

**BlockingClient** (`native/src/blocking.rs`) has the caller, the worker thread
and the two bounded channels between them.

**Inspections** composes the six ways a host finds out about a printer. `tool`
says which one a behaviour makes; the others rest, because each has the printer
or the network for itself. `empties` flips with every empty packet that is
drained, so that a printer that sends them for ever can be told from a session
that hangs. `MCInspections` has the printers, fields, tables,
messages and services of the run.

- **DeviceSettings** (`native/src/brother_device_settings.rs`) has the session that
  reads a Brother printer's settings. A byte names the query and the session it
  answers; `wire` is what the printer sent and the host has not read, so a wait
  that times out while it is not empty is a late answer. The printer carries out
  `commands` in order.
- **WirelessSettings** (`native/src/brother_settings.rs` and the reply parser of
  `core/src/protocol/brother/wifi.rs`) has the three functions that retrieve
  fields: over one transport, over a fresh transport for each field, and after a
  drain. A reply is a sequence of parts and is cut between any two of them.
- **SnmpClient** (`native/src/transports/snmp.rs`, `native/src/snmp_properties.rs`,
  `core/src/providers/brother/snmp.rs`) has `get_many`, `walk`, `set_once`, the
  qualified reads and the inventory of firmware records. An object identifier is
  a sequence of numbers, compared as in the code.
- **IppDiscovery** (`native/src/transports/ipp.rs`, `core/src/discovery.rs`) has
  `discover` with its merging of answers and what leaves the process. The value of
  an attribute is the moment at which it was reported, since the printer changes
  while it is being asked. An answer may be an IPP error without attributes,
  which `inspect` passes on as an answer; a supply is made of two attributes of
  one answer; a printer may list a format twice.
- **IppCodec** (`core/src/ipp.rs`) has both directions on messages of groups and
  tagged values: the encoder as the entries a message becomes, the decoder as a
  pushdown automaton that takes one entry per step. Entries are the wire: a tag, a
  name and a value of some length.
- **DnsSd** (`native/src/transports/dns_sd.rs`) has the two browses, the services
  that resolve in any order and the map they are kept in.

**LabelJobs** composes what `wasm/src/lib.rs` exports for printing. A client fills
documents, and plans or imposes the pages; the steps share nothing but what the
client passes on. `MCLabelJobs` has the documents, printers and layouts.

- **Materialize** (`core/src/document.rs`, `materialize.rs` and the paint order of
  `render.rs`) has validation of references, filling from records, and the zone
  batch, which clones the elements of a template for every zone and rewrites
  their ids and references.
- **ProtocolPlan** (`core/src/protocol.rs`) has the plans of every protocol, for
  single rasters and for batches, with their limits, and `packbits`. The numbers
  that tell a printer the size of a label are converted as in the code: rows to 16
  bits, tenths of a millimetre to a signed number.
- **Sheet** (`core/src/sheet.rs`) has layouts, placement, rounding to dots and cut
  marks.
- **ProcessingLimits** has the limits these share, and **Vectors** what they do
  with vectors: keep the places that pass a filter, and flatten.

**Agent** (`mb-printer-agent/src`, `core/src/administration.rs` and
`native/src/transports/ipp.rs`) has the handlers of the agent with their awaits,
the guarded change they apply, and printers that others change. `MCAgent` has
the requests of the runs.

## The runs

Every passing run explores its instance completely. All of them may stop, because
a system that has done its work does nothing more.

| run | bounds | why they are enough |
|---|---|---|
| `executor` | five plans of up to five actions, eight refused plans, limits 0 to 3, chunks of 0 to 3 bytes, 3 and 2 reads, 4 retained bytes | chunks of several pieces with a remainder, an empty raster, an empty command, a limit that grows, shrinks and vanishes between pieces; each validation, frames short, exact, too long and split, every loop up to its limit |
| `threads`, token | one execution, two cancelling threads | two threads meet in the waker while the execution registers |
| `threads`, workers | 3 calls, 2 permits | a call waits behind two abandoned operations |
| `threads`, device | queue of 2, 5 calls | the queue is full when a call, a disconnect and a drop come |
| `threads`, replay | 2 processes, 2 keys, 2 crashes | both processes race for one key; a crash before and after the power loss; a key is lost twice |
| `ble_transport` | queue of 1, 2 writes, 3 frames, grants of 0 and 1 | the queue is full with responses in front of the credit |
| `blocking_client` | channels of 1, 3 executions of 2 steps | an abandoned execution fills the event channel before the next call and Drop |
| `agent` | 2 deliveries of changes of one setting, or one request of any kind on 3 settings, 2 generations, 1 foreign change, 1 restart | two deliveries of one request or of competing ones; every kind of request meets every answer, a republication and a restart |
| `inspections`, device settings | 3 sessions, 3 settings, answers of 2, 2, 1 and 1 bytes for 32, 32, 3 and 3, a drain of 2 bytes | two neighbours of equal length, a setting as long as the status, an answer in two pieces, a drain over its limit, empty pieces, answers of two earlier sessions |
| `inspections`, wireless | 2 attempts, buffers of 9 parts, drains of 4, reads of at most `MaxPiece` = 5 parts | a reply is cut at every place, the end of one reply comes with the start of the next, a buffer passes its limit |
| `inspections`, SNMP | 4 objects in an answer, 5 steps of a walk, 1 retry | a table of all kinds of records, a walk that ends at its root, at its limit and at an agent that repeats itself |
| `inspections`, IPP | 3 lists of formats of which 2 are asked for, 1 focused request | lists at and over their limits and one with a format twice; the printer changes between any two answers and refuses any of them |
| `inspections`, messages | requests of the SDK, and any `MaxEntries` = 7 entries a printer sends | a collection in a collection with its own members, every counter at its limit and over it, names longer than values may be |
| `inspections`, DNS-SD | 3 announcements, 3 services | a service announces itself again under another name, scheme or address, and fills the quota |
| `labels` | 12 documents, pages of 8 elements, up to 4 records, 3 zones, 8 printers, 16 single labels, 11 layouts, 3 resolutions, lines of up to 162 bytes in 3 runs | clones, groups in groups with two records on a page, cycles and dangling references; heights around 300, 35,434 and 2^16 rows, 255 mm, and 15 and 16 bits of tenths of a millimetre; runs around 127 to 130 bytes; labels that touch, overlap and reach the edge |

What a passing run shows is in its `about` in `PROJECT.json`; the comment above
each property says what it means in terms of the code. For each property there
is a mutant of the model, a plausible mistake in the code it stands for, under
which TLC finds the property violated.

### Fairness

Liveness is checked under weak fairness of what a host guarantees: a runtime
polls tasks that are ready and fires their timers (Executor, Agent,
HardwareWorkers, BleTransport's forwarding task, Inspections), an operating
system schedules threads (CancellationToken, PersistentDevice, BlockingClient),
and a read with a timeout returns.

Nothing is assumed of a printer, of another user, or of a call that has no
timeout of its own. These are the writes: `write_all` on an RFCOMM socket
(rfcomm.rs:46), the flush of a serial port (serial.rs:30), and a BLE write that
waits for credit (ble.rs:44). So a write may stay pending for ever, and the
liveness properties name that case:

- `NobodyIsLeftWaiting` of PersistentDevice and `NothingHangs` of BlockingClient
  hold unless the worker stays in a call of its device or transport for ever.
  BlockingClient executes without a cancellation token, so its caller cannot end
  such a write; Drop returns all the same, after its second.
- `QueuedCallsAreServed` holds unless all permits stay with operations that never
  return.
- `EveryRequestEnds` of Agent: a probe has no timeout of the agent's own
  (probe_execution.rs:117), so one that its runner never answers ends only when it
  is cancelled.
- `ExecutionEnds`: an execution that does not end is in a subscription or a write,
  and cancellation ends it there too.
- `InspectionsEnd` holds unless a write, or the caller's opening of a transport,
  never returns, or a printer sends empty packets for ever: over USB a read may
  return no bytes (usb.rs:430), and the loops that drain what is left of an
  earlier session have no deadline (brother_device_settings.rs:268,
  brother_settings.rs:166).

### Disagreements with the documents

Five runs expect a violation. Each states one sentence of a comment or document
of the repository that the code does not keep; `findings` quotes it.

- `token_two_executions`: the clones of a token share one waker slot, so of two
  executions that wait only the later one is woken by `cancel()`.
- `agent_rebound`: a change is written to an endpoint that was replaced while
  its handler awaited the pre-write reads.
- `replay_power_loss`: replay claims are called durable, but
  `FileReplayStore::claim` syncs the file and not the directory (lib.rs:57), so a
  power loss may take the name of a claim whose key was executed.
- `executor_retained`: a collection action is held to its own maximum, not to what
  is left of `MAX_RETAINED_RESPONSE_BYTES` (executor.rs:606), so an execution may
  retain twice the documented total.
- `executor_reported`: a payload limit that becomes zero before a raster action ends
  in `InvalidPlan` (executor.rs:308), which carries no progress (bindings.rs:91), and
  JavaScript is told zero bytes after others were confirmed.

The conditions in some properties mark further places where the code promises
less than a reader of the interfaces would expect. They are:

- `WithinLimits`: the responses retained are bounded by the limit and what the
  completed collections declared, at most twice the limit. A payload limit that
  is lowered between two pieces of one raster action is not read again before the
  next action (executor.rs:307), so those pieces keep to the limit before.
- `StatusIsTruthful` leaves two statuses open: "outcome-unknown", and "failed" with
  the code invalid-plan at a raster action, which says which action it was and so
  what the printer has, but not the bytes.
- The planner allows 100,000 actions and the executor 16,384 (executor.rs:17), so
  a plan can be made that no execution accepts.
- `ExecutesOnce` allows one more execution for each power loss that took the name
  of a claim away. `ClaimBeforeEffect` says what the code does ensure: the file is
  there and synced before the first byte.
- `OkIsTrue` of PersistentDevice excludes a transport that shares its
  backend (usb.rs:42) and a disconnect after one that was abandoned while it
  joined the thread (transports.rs:102). BleTransport has no such property: its
  state is Disconnected before the peripheral is asked (ble.rs:524), and a
  second disconnect returns Ok without asking.
- The timeout of `PersistentDevice::read` is counted from its turn in the queue
  (transports.rs:88), and a BLE payload limit is observed when the queue is next
  looked at.
- `ResultIsOwn` of BlockingClient says nothing of a worker that was lost:
  `worker_execute_error` reports empty progress (blocking.rs:223).
- `OneWritePerRequest` is about one life of the agent: the identifiers of
  accepted writes are kept in memory (agent lib.rs:135), and a request delivered
  again after a restart can be written again. The time an expiry is
  compared with was taken before the reads (administration_execution.rs:289).
- `ReplacesConfirmedUndisturbed` excludes a setting that changed between the
  pre-write read and the write, by another apply of the same agent too
  (ipp.rs:493).
- `OwnAnswers` assumes that no answer to an earlier session was under way when
  the drain ended; a late answer of the right length is otherwise accepted
  (brother_device_settings.rs:149). And `LeavesSettingsMode` excludes a failed
  write: when the one that enters settings mode fails although the printer got
  it, no exit is attempted (brother_device_settings.rs:172).
- `OwnValues` allows the start of a value: a reply cut inside a value is accepted
  because a last line need not be complete (wifi.rs:372). It also allows an
  earlier retrieval's reply that was still under way, as on a transport that is
  not drained (brother_settings.rs:72).
- `WriteIsTruthful` of SnmpClient: `Malformed` and `ResponseTooLarge` of `set_once`
  are errors although the write was applied (snmp.rs:293).
- `ReadsAreTruthful` assumes that a printer lists the identifiers and versions of
  the same components: they are paired by position, and a missing version with a
  missing later identifier pairs the rest wrongly.
- `SnapshotIsFaithful`: the first answer gives state and identity, while reasons
  and capabilities are united over all answers, so a snapshot can mix moments. A
  supply that the first answer names without a level keeps none, although the
  focused request asks for the levels (discovery.rs:302, ipp.rs:670). An IPP error
  status counts as an answer (ipp.rs:384), so a discovery is complete only when
  the printer refused no request; any other error fails it as a whole. A format
  that a printer lists twice is asked for twice, and its capabilities are in the
  snapshot twice. `RedactedHidesSensitive` judges
  an attribute by its name, as the code does.
- `CodecAgrees`: the decoder accepts a collection member without values, which the
  encoder refuses, and the encoder holds names against `max_value_bytes` too
  (core ipp.rs:1016), so that where `max_name_bytes` is larger a message may be
  decoded and not encoded. The property says that these are the only two.
- `LatestOfEach`: repeated and unusable records use up the quota of a browse.
- `PrintsWhatWasAsked` says which single labels are spoilt: the header of a raster
  holds 16 bits and a higher one announces its height modulo 2^16
  (protocol.rs:854), and a TSPL label of 3276.8 mm or more is announced with a
  negative size, since `fmt_mm` writes tenths of a millimetre as an `i16`
  (protocol.rs:889). Only sizes over 16 bits of tenths, or 255 mm for a Brother
  printer, are refused. A single plan repeats its cut count for each copy
  (protocol.rs:297).
- `ZonesShowTheirRecords` is about templates in paint order without inverted
  images, and excludes a batch that fills a zone and the clone of it,
  which shows both records (render.rs:156). In a zone batch the order of the array
  replaces `z_order` (materialize.rs:243), and the inversion of an image, kept
  under the id of its element, is lost with the id (render.rs:425).
- `RoundingCostsOneDot`: a label at the edge of its page can be refused for one
  dot of rounding, neighbours can share a row or column of dots, and cut marks
  reach into neighbours when the gap is under 2 mm.

## The proofs

TLAPS checks the following for every value of the constants that satisfies the
named assumptions. The assumptions (`ConstantsAssumption`, `BleAssumption`,
`SnmpAssumption` and so on) give constants their types, limits their signs, and
keep apart names that the code keeps apart; TLC evaluates each of them in a run.

**Basics** has what several proofs need about numbers and sequences. The prover
cannot use the induction theorems of its library, so `NatMin` states the least
number principle and `UpTo` what follows from it for a set of numbers that
contains 0 and with each number the next. `RecursionExists` builds a function
from its steps in the same way, which makes the recursive functions of the
models (`Responses`, `Declared`, `InsertAll`, `focused_query_sets`, `packbits`)
usable: the function that exists has the equation of the one that is defined, and
two functions with one equation agree. `PickedFilters` and `PickedIs` say the same
of the filter of Vectors, step by step and by where the elements that are kept come
from.

**ExecutorProofs.** `IInv` is inductive. Its conjuncts are the types, the
control (which of the loop variables mean something at which `pc`), the write in
flight, the frontier (the byte of the plan up to which the transport has taken
everything), the order of `device`, and the counts that relate `device`,
`progress.bytes` and the frontier. The properties of the run are not inductive
by themselves, because they speak of `device` and `progress` and not of the
position in the loops that connects the two. From `IInv` follow
`DeliveredIsPrefix`, `ConfirmedWasDelivered` and `LastCompletedLocates`, and that
every step of Executor is a step of PrintJob or leaves it unchanged.
`BoundaryInv` adds that a refusal means that nothing was sent, or that a raster
action was refused before its first byte, and that the payload limit read for a
raster is in force until a change is recorded; with it follows
`StatusIsTruthful`. `LimitsInv` adds what `WithinLimits` needs: that preflight
accepted the plan, that a logical chunk starts at a multiple of its size, that
the piece in flight keeps to the limit read for it, and that what is kept is at
most the limit and what the completed collections declared. The last sum is
`Declared`, and `DeclaredFacts` says how one action changes it.

**ThreadsProofs.** Four parts in which threads or processes meet.

- CancellationToken: with one execution and any number of cancelling threads,
  `TokenInv` is inductive and implies `NoLostWakeup`. The heart is that a
  `cancel()` that found the waker's bit taken leaves the wakeup to the one that
  took it. `token_two_executions` shows that one execution is needed.
- HardwareWorkers: `WorkersInv` divides the permits between the semaphore and the
  operations on threads.
- BlockingClient: `BlockingInv` says where the execution that the caller listens
  to is (in the channel, at the printer, reported, over, or lost with its worker)
  and that it has sent one event for each of its steps into a channel of its own.
  It gives `ResultIsOwn`, and that no send of a command can block, for channels
  of any capacity.
- Replay: `ReplayInv` is inductive and gives `ExecutesOnce` and `ClaimBeforeEffect`
  for any processes, keys, crashes and power losses. It counts the executions of a
  key against the losses of its name: a key that is in the directory may have been
  executed once more often than it was lost, one that is not exactly as often at
  most.

**TransportProofs.** The transports with a queue.

- BleTransport, credits: `CreditInv` says that the credits granted are at least
  those spent, at hand and on their way in the channel and the stream. The credits
  on their way are a sum over two sequences; the invariant asks for running totals
  of it: appending a notification extends them, receiving one shortens them, and
  dropping a stream needs only that they never fall. `WithinCredit` is not
  inductive by itself: it does not know that a credit frame in the queue was
  granted.
- BleTransport, responses: `OrderInv` says that what the printer sent and the
  transport kept is, in this order, what was received, what was set aside while
  waiting for credit, and the responses of the queue and of the stream; that
  without flow control nothing is set aside; and that before the subscription the
  queue is empty. Each step moves a response over the border of two of the four
  and leaves their concatenation alone. `ResponsesInOrder` follows.
- PersistentDevice: `DeviceInv` has the line of commands (performed, in the
  device, in the queue: all that were queued, in order), the growth of their
  numbers, and what a reply says of the thread. The present call's command has the
  largest number, so when its reply comes the queue is empty. `InOrderOnce` and
  `OkIsTrue` follow for any capacity and any number of calls.

**AgentProofs.** `AgentInv` adds to the types and to `EffectsAreReported` that
the answer to a write tells whether the printer took it, that only a delivery
that has come to its write has one in the printer, and that the identifiers of
the guarded writes this life of the agent has under way, or has written, are used
up and distinct. It gives `EffectsAreReported` and, for each life by itself,
`OneWritePerRequest`, with any number of restarts: a restart empties the set of
identifiers and begins another life. `ConfirmedInv`
gives `ReplacesConfirmedUndisturbed`, with restarts too: unless somebody changed
the setting since, what a handler has read is what the printer still says, and a
write on its way is about to replace the value that was confirmed.

**SettingsProofs** and **NetworkProofs** are about the tools that Inspections
composes, each by its own specification (`SettingsSpec`, `WirelessSpec`,
`SnmpSpec`, `IppSpec`, `DnsSdSpec`). A step of Inspections is a step of one of
them and leaves the others unchanged, so each is implied; the composition itself
also has IppCodec, which the prover cannot read.

- DeviceSettings: `ModeInv` says that whoever makes the printer enter settings
  mode has told it, or will tell it, to leave it; `AnswerInv` that a session that
  began in silence is the only one the printer has anything of, with at most one
  query under way. They give `LeavesSettingsMode` and `OwnAnswers`.
- WirelessSettings: `WirelessInv` says that what was read and what is on the
  stream together are whole replies: after a name come the parts of one value for
  that field and the end of its line. Reading moves the border between the two,
  and a value that is cut off by it is the start of one reply. It gives
  `OwnValues`.
- SnmpClient: `WriteInv` says where the datagram of a write is, by where the call
  is, and gives `WriteIsTruthful`. `WalkInv` says that the walk has the registered
  objects under its root up to the cursor, from an agent that keeps to the
  protocol all of them, and gives `WalkIsComplete`, for which the order of object
  identifiers is shown to be total and transitive. `FirmwareInv` says that
  the inventory was made of the printer's table as it is: the objects the client
  asks for are sorted by their names, which is the order of the records, and an
  answer is accepted only when it has these objects in this order. `FirmwareIsOwn`
  follows because the records that can be read are the first ones, and what a filter
  keeps of a start is the start of what it keeps of the whole, so identifiers and
  versions are cut at the same place. With `WalkIsComplete` it is `ReadsAreTruthful`.
- DnsSd: `LatestInv` is `LatestOfEach` for the printers so far and the records so
  far; inserting a browse's records one by one keeps it.
- IppDiscovery: `IppInv` says that every fact, supply and capability of the whole
  printer is from the first answer that gave it, a capability of a format from an
  answer for that format and there twice only if two were asked for, and every
  capability an answer named is there, that every attribute of every answer is among the
  observations, and that unless a request was refused a group the printer has
  something of was seen in full or is still to be asked for. It gives `SnapshotIsFaithful`, and
  `RedactedHidesSensitive`.

**LabelProofs.** The parts of LabelJobs that are arithmetic, coding and lists.

- Rounding, for every resolution and layout: a slot that fits its page reaches at
  most one dot over the edge, the dots of two slots that do not overlap share at
  most one row or column, and a cut mark ends before a label that is farther away
  than its length and two dots. An accepted plan has only such slots, so
  `RoundingCostsOneDot` holds.
- Raster lines, for every row of 1 to 162 bytes: `LineInv` says that the bytes
  written so far expand to the part of the row before the encoder's place, that a
  run that is being looked at is a run of the row, and that what was written is at
  most a third longer than what it stands for, so that the length fits its byte.
  `LinesExpandToTheirRows` follows, both for a line that is sent as it is and for
  one that is compressed.
- Imposition, for every sheet, first slot and number of pages: no two items get
  the same slot of the same page; `ImposeInv` says that pages and labels are lists.
  The pages of the placements never fall, so the sheets that `impose` collects them
  in are in order, each shows the items of its page, and no page number is left
  out. `ItemsImposedOnce` follows.

Only model-checked are:

- all liveness properties, `NothingHangs` but for the sends of BlockingClient
  among them: fairness is beyond the prover;
- `CodecAgrees`: IppCodec uses recursive operators, which the prover does not
  accept;
- `BatchPagesAreValid` and `ZonesShowTheirRecords`: they follow chains of groups
  and layers through documents whose elements a batch clones and renames, which
  needs an induction over the length of a chain for each of the two documents;
- `PrintsWhatWasAsked`: a simulation of nine protocols by the printer that reads
  them.

## Not modelled, and why

- Drawing, dithering, fonts, image import and export (`core/src/render.rs` and
  others) turn geometry into pixels and bytes without state; the repository's
  tests compare them with images. Which elements are painted, where and in which
  order is in Materialize.
- The filters of templates, and the geometry and resources that validation
  checks, which are one flag of a document.
- The bytes of commands, the BER encoding of SNMP and the parsers of IEEE 1284
  and Brother status messages are conversions of byte strings without state;
  where a module depends on one, it has what the decoder tells apart.
- `normalize_snmp`, `reconcile_identity` and the registry of probes compare and
  copy fields.
- The TCP and file transports make one system call per call; what the executor
  needs of a transport is the environment of Executor.
- Opening and listing serial, USB and Bluetooth devices, Wi-Fi provisioning and
  the legacy IPP status keep no state of the SDK between calls.
- The promises and the abort signal of the browser adapters, which end a wait as
  the cancellation and the transport errors of Executor do.
- Command-line tools, build scripts and generated types.

`PROJECT.json` lists every part with its status.
