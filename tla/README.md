# A TLA+ specification of the ANDESITE flight software

ANDESITE is a CubeSat: a mothership (the *MULE*) that deploys wireless sensor
nodes (*WSN*), collects their measurements by radio and sends them to the ground
through a Globalstar modem.  The MULE runs Python threads on a BeagleBone and a
few Arduino boards; each node is an Arduino.  This directory specifies the parts
of that software whose correctness depends on the order in which things happen,
checks them with TLC on small instances, and proves the main results with TLAPS
for every instance.

Paths below are relative to `src/`.  `FINAL` stands for
`MULE/FINAL_CODE_REALLY_FINAL_I_SWEAR/NO_DEPLOY_DELIVERY`, the delivered flight
code; `LIB` for `WSN/working_final/libraries`.

## 1. Inventory

### The MULE's flight computer (`FINAL`)

| Part | State | Operations | Talks to |
|---|---|---|---|
| `worker_thread.py`, base of all threads | a `BoundedSemaphore(1)`, a termination flag | `run`, `pause`, `resume`, `terminate`, `singleRun` | whoever holds the worker |
| `ExecutiveThread.py`, the main script | flags, its input queue, pin P9_15 (Globalstar power) | boot; drain the queue once; wait 30 minutes; process messages; `lowPowerMode` | all workers, through their queues and `pause`/`resume` |
| `EPSThread.py` | `LPM`, health timer, health file and its semaphore | health update every 2 minutes, `LowPowerMode`, switches | executive's queue; EPS board over I2C |
| `ADCThread.py` | magnetorquer driver | BDOT commands, `disableBDOT` | executive's queue |
| `RFM22BThread.py` | current orbit file, downlink semaphore | reads lines from the radio board, appends to files, reports finished files | executive's queue, radio board over serial |
| `GlobalstarThread.py`, `globalstar_serial.py` | file lists, semaphores | downlink files, poll for ground commands | executive's queue, modem over serial |
| `DeploymentThread.py` | table of nodes | deploys nodes on command | executive's queue, deployer board over serial |

A thread is created paused and started inside its base constructor.  All threads
share the executive's queue; the executive routes a message by its first two
letters (receiver, sender) or interprets it.  The hard part is *low power*: the
power thread announces a low battery and later its recovery, the executive sheds
load by pausing workers, and both waits of `lowPowerMode` take messages from the
queue that everything else arrives in.

### The MULE's Arduino boards (`MULE/working_final/arduino_drivers`)

`RFM22B/` (node discovery `listen`, data collection `request`, ground commands),
`Deployer_driver/` (burn wires, door switches), `EPS-BAT_driver/`,
`ADCS_driver/` (I2C bridges).

### The sensor node (`WSN/working_final`, `LIB`)

| Part | State | Operations |
|---|---|---|
| `RF22/` | radio mode, one packet buffer, sequence numbers | `sendtoWait`, `recvfromAck`, interrupt handler |
| `AndesiteRadio` | last message | `send`, `sendCommand`, `listen` |
| `AndesiteWSN`, `WSN.ino` | mode, sampling request of the timer interrupt | science, transfer, listen to the MULE, next orbit |
| `AndesiteOrbit` | latitude, orbit number, file position, sent status | header of the orbit file, next orbit, waits |
| `AndesiteFile` | current file | first free orbit number after a restart, send the file line by line |

Hard behaviours: loss and retransmission, packets of one call met in another,
restarts of a node, a single buffer for both directions, an interrupt that shares
a flag with the main loop, files that outlive a restart.

### What makes each part correct

- *worker thread*: a pause holds, a resume is never lost, only misuse kills a thread;
- *executive and power thread*: a low battery is acted on, the load is shed while
  it is low, everything runs again afterwards;
- *radio link*: an acknowledged message was delivered, once and in order; calls return;
- *collection*: a filed line was sent, is in its place among the lines of its node
  and is there once; a round asks each node once; the board is held up by as few
  nodes as the code allows;
- *storage*: one file per orbit, never overwritten; a file marked as sent was sent.

`PROJECT.json` lists the hazards of this code line by line under `hazards`, with
the properties that watch over them.

## 2. Plan

In the order in which it was carried out:

1. `WorkerThread`: the turnstile, on which everything in the flight computer rests.
2. `AckedLink` (abstract) and `RadioLink` (detailed, shown to implement it).
3. `FlightComputer`: composes `WorkerThread` with the executive, the power thread
   and what the other threads do to them.
4. `SensorNode`: the node's modes and its orbit files over restarts, shown to
   implement `OrbitArchive`.
5. `MuleRadio`: the radio board and several nodes; `Collection` composes it with
   the thread that files the lines, and is shown to implement `LineLog`.
6. Proofs about all five.

What could still be added, each of less weight than what is there:

- the sampling interrupt of the node, whose request flag the main loop clears
  (`WSN.ino:66`): a lost sample leaves no trace in the node's state;
- in `FlightComputer`, the attitude thread's driver and the power thread's retries
  over I2C, which change no state the other threads can see;
- restarts of the nodes in `MuleRadio`, whose links are those between steady ends;
- an abstract specification of load shedding that `FlightComputer` implements.

## 3. Modules

### WorkerThread

One `pc` per worker follows `run()` statement by statement: `init`, `acquire`
(line 29), `release` (30), `check` (31), `loop` (34), and the ways the thread
ends.  `permit` is the semaphore; `Pause`, `Resume`, `Terminate` and `SingleRun`
are the four methods and may come between any two steps of the thread.  `loop()`
may return or raise.  `EarlyReaders` are the workers whose `init()` reads an
attribute that the subclass constructor assigns after it has started the thread.
`NoLostWakeup` is the safety core of `ResumeTakesEffect`: a worker that is to run and
stands before its turnstile finds it open.  The variables `wanted`, `held`, `begun` and `forced` are history: what was asked
for last, whether the last pause found the worker outside its turnstile, how many
iterations have begun since, and whether a resume struck inside the turnstile.
`terminate()`'s two writes are one step (see the comment there).

### AckedLink and RadioLink

`AckedLink` is what `RF22ReliableDatagram.h` promises: calls, deliveries,
returns; nothing about packets.  Not every pair of nodes can be promised all of
it: a node that restarts numbers its messages from zero again, the numbers are one
octet, and a node that broadcasts may overwrite a packet that it has not read
(`RF22.cpp:693`).  So `AckedLink` has a set of `intact` receivers and a set of
`steady` pairs, which can only shrink.  An intact receiver is given the messages of
each sender in order and once, whatever the sender does; between the ends of a
steady pair an acknowledged message was delivered besides.  To the others it promises
that what a receiver is given was sent by that sender and to that receiver
(`Deliver`), or is a broadcast of the receiver's own, in the name of the sender
(`Spoil`).  `RadioLink` is `RF22ReliableDatagram.cpp` over
the part of `RF22.cpp` that matters: `phase` is where a node is in
`sendtoWait()`, `rx` and `buf` are the header and the content of the one buffer,
`listening` is the receive mode.  A packet is heard by any subset of the nodes
that listen and that it is addressed to, which covers loss and collisions;
packets are not queued on the air, so there is no duplication other than by
retransmission.  `Timeout` may strike at any moment after the buffer has been
looked at once, since the code's timeout is random and its length is not modelled.  `recvfromAck` is one
step: after the packet has been taken the radio does not listen until the
function has returned.  A restart loses everything but the history.

`ImplementsLink` maps `open` to `phase # "idle"`, `intact` to the receivers that are
`Intact` (not restarted, no broadcaster), and `steady` to the pairs that are `Steady`:
the receiver is intact, the sender has not restarted and has sent fewer messages than
there are numbers.  The other variables are the history variables of the same names.
A restart in the middle of a call is an `EndUnacked`.

What acknowledgement means *outside* the steady pairs is `AckedOrSameNumber`, for which
`numbers` records the number of every message.  After a restart of the sender, or once
its numbers have come round, a message may be acknowledged and never given to the
application, because its number is the last one seen; but then the application has an
earlier message of the very same number, unless the number is the zero that
`_seenIds` begins with (`RF22ReliableDatagram.cpp:23`, `:50`).

### FlightComputer

`EXTENDS WorkerThread`; each call that the main script makes on a worker is one
step (`calls` holds those that are still to be made), and each thread runs its turnstile in
between.  `exec` is where the main script waits: `drain` (the single pass over the
queue at the start), `wait` (the rest of the first 30 minutes, in which the queue
is not read), `main`, and the two waits of `lowPowerMode`, `bdot` and `low`.
`sampled` is `elapsed_time` of line 220, read before the message is waited for.
`power` follows `EPShealthupdate`, `lpm` and `fileLock` are `LPM` and the health
file's semaphore.  The other workers are modelled by what their `loop()` can do
to the thread and to the queue: `AdcLoop` raises on `AE:DisableBDOT`
(`ADCThread.py:63` calls a method that the class does not have), `CommLoop`
always raises (`SMS_pull_poll` returns `False`, which `routeUplink` searches),
`RadioLoop` may return, raise, or report, and `DeployerLoop` returns.

Code after line 440 is not modelled: it is reached when the Globalstar thread
reports that it is enabled, and it never does.

### SensorNode

One node; the MULE and the radio appear by what they can do to it.  The card is
`made` (which files exist), `lines` (the data in each, by the boot and the orbit
of which it was taken) and `head` (the header that `writeHeader()` puts over the
first bytes).  Files are numbers: `f` is `00f.txt`, and the one past `MaxOrbit`
is `:00.txt`, the name that `set()` makes of 1000; the scan never looks for it and
later boots may reuse it, so that the properties speak of `Named` files only.
Everything else is memory that `Restart`, possible at every step, sets back.

`pc` stands at the places where the program opens a file, talks to the radio or
looks at the GPS or the clock: `boot`, `scan`, `create`, `fix` are
`AndesiteWSN::init()` (then the calibration and one round of listening, with
`setup` still true); `top`, `open`, `science` are science mode; `finish`,
`check`, `ready`, `announce`, `await`, `send`, `mark` are transfer mode and the
listening to the MULE; `wait`, `next` lead to the next orbit.  Every polling
loop has the same shape: at one of `Polls` the node looks at the latitude, or
without a fix at the clock, and goes on (`Again`) or leaves (`Leave`).

- `Opens(ok)` is an open that succeeds or is reported as failed.  The scan of
  `setUnfinishedFiles()` keeps its second loop, whose index is set from an array
  that nothing fills; it is a reason to check `ComesRound`.
- `WithHeader`: the `File` is passed by value to `writeHeader()`, and SdFat's
  destructor does not close it (`LIB/SdFat/SdFatConfig.h:62`).  What the copy
  does to an *empty* file (its size and its first cluster) is lost; over
  existing bytes the header stays.  So a fresh file has no header, and
  `readHeader()` then converts the third field of the first data line, a
  voltage below one, or nothing: both are status 0.
- `SetLatitude`: a sentence of the GPS with or without a fix, or a timeout, which
  leaves the latitude as it was.  Latitudes are below, at or above the 65th
  parallel, because the code's comparisons differ at the value itself.
- `sendCommand()` returns 0 when the MULE acknowledged, and its callers read it
  the other way round; since the radio may do either, both outcomes are possible at
  `Ready` and `Announce` anyway.
- `offered` is history: the lines passed to `sendtoWait()`, whose result
  `send()` does not look at.

`OrbitArchive` is what this amounts to over all restarts: files are begun one after
the other, only the newest is added to and sent, a file has lines of one run, and
its lines are sent from the first on, each once.  `ImplementsArchive` maps `archive`
to the `lines` of the files made and `sent` to `offered`, both for `Named` files.
The node's memory, its header and its modes are not in it.
`ScanEnds` is about the second loop of `setUnfinishedFiles()`: `ScanLeft` counts a
whole pass over the files for each unfinished one that `count` has not reached, and
what is left of the current pass; each round must take from it.

Assumed or left out: `SD.exists()` answers correctly in the scan (a false "no"
would make the node write into an old file); a radio that never initialises
(`AndesiteWSN.cpp:80` tries for ever); a sample is one step, and the contents of
a line do not matter.

### LineLog, MuleRadio and Collection

`LineLog` is what the collection as a whole promises: nodes offer lines, some of
them are filed, in order for each node and none twice, and the executive is told
of the first contact once.  It has no report of finished files, because there is
none in the code either.

`MuleRadio` is the board (`AndesiteMule.cpp`) and its nodes.  `board` is where
the board is in `loop()`: in `listen()` (`"listen"`), at the head of the loop in
`request()` (`"next"`), in `sendCommand()` (`"ask"`), in the wait for an end of file
(`"wait"`).  `avail` is `_avail_wsn` as far as `_num_avail` goes, `index` the `i` of
`request()`.  `phase[n]` is the call a node is in, or where it is between calls.

- *The link* is that of `AckedLink` between steady ends, which `RadioLink`
  implements: the receiver
  takes a message at most once while the sender's call is open (`taken`, `got`),
  and the call returns true only if it has been taken, false in any case.  Since
  a node's receiver is in the application's hands (`recvfromAck` is called by
  `listen()` only, and a packet that arrives while a node is itself in
  `sendtoWait()` is dropped there), a message is taken by a step of the
  receiver's `listen()`: `Receive` on the board, `Obey` on a node.
  A packet that still waits in the buffer when its sender gives up is read by the
  receiver's next `listen()` or dropped by its next `sendtoWait()`: the state is that of a
  message taken, or lost, while the call was open.
- *The result of `sendCommand()`* is read the wrong way round by everyone:
  `AskAnswered` moves on, `AskUnanswered` waits; `ReadyReturns` and
  `AnnounceReturns` call again what was acknowledged.
  Left out is the case of an end that is not steady: the board broadcasts after an end of
  file has been stored as an address, and may then read its own command in place of a
  line that it had not read (`Spoil`).
- *The string.*  The source sends `"Transfer"` (`AndesiteMule.cpp:165`); the image in the
  repository, `mule_radio/Debug/mule_radio.elf`, was built with `"TransferReady"`.
  `command` is either, fixed at the start.  A node compares it through `_message`,
  which points into a stack frame that has gone, so that `Obey` may also fail to
  recognise it.
- *The radio object.*  `mule_radio.ino:22` declares it an `RF22Mesh`, while
  `AndesiteRadio.h:55` and `AndesiteFile.h:119` declare the same object an
  `RF22ReliableDatagram`.  The model follows the latter.  `RF22Mesh` derives from it and has
  a `sendtoWait()` and a `recvfromAckTimeout()` of its own (`RF22Mesh.h:157`, `:194`), but they
  are not virtual, so the calls in `AndesiteRadio.cpp` are those of the declaration it is
  compiled against; the built image has `RF22ReliableDatagram::sendtoWait` and no other.
- *Addresses.*  `_avail_wsn` holds octets and `isAvailable()` compares with an `int`:
  an end of file, -1, is stored as 255, is not found again, and is later called as
  the broadcast address, to which every listening node may answer and which
  `sendtoWait()` never waits for.  `request()` does not look at the size of the
  array; what happens after it has written past it (`"spoiled"`) is not modelled.
- *The serial line* keeps the lines that tell the reader anything: data lines and
  the notice of an end of file.  What does not fit into the reader's buffer is
  lost.

`Collection` adds `RFM22BThread.loop()`, one line per step: `orbitFile` is
`self.orbitFile`, `contact` is `self.WSNcontact`, `filed` the lines as appended to
files, with the orbit in the name.  A data line is the node's number, its orbit
number without padding and the line of the file, which begins with a letter
(`AndesiteCollect.cpp:38`).  The thread reads the orbit from the three characters
after the first: with fewer than three digits it does not parse and the last orbit
read from any node is used (`FileUnder`).  Such a line also carries octets from
beyond the end of its string, at which `decode()` may raise (`ReadDies`).  The text of a
line is left out, and so is the case that a header was written over the first line
of a file before that line was sent (after a failed open; `SensorNode` has it): the
line then begins with a digit, which joins the orbit number.

`Log` maps `filed` to the pairs of node and number; `offered` and `reports` are the
variables of the same names.

## 4. Runs

| Run | Instance | Shows |
|---|---|---|
| `worker_turnstile` | 2 workers, one early reader | `EffectivePauseHolds`, `ReleaseFailsOnlyIfForced`, `NoLostWakeup`; `ResumeTakesEffect`, `TerminateStops` |
| `worker_pause_lost` | 1 worker | **violated**: `PauseBlocks`, the comment in `run()` |
| `radio_link` | 2 nodes, 1 retry; the MULE sends 4 messages with 3 numbers and restarts once, the node sends 1 | `AckedOrSameNumber`; the refinement `ImplementsLink`; `CallReturns` |
| `radio_faults` | 3 nodes; the MULE sends 1 message or broadcast, a node sends 2 and restarts once, the other listens | `AckMeansDelivered`, `InOrderOnce`; the refinement `ImplementsLink` where not all pairs are steady |
| `radio_clobber` | 2 nodes, no retry, broadcasts | **violated**: `DeliveredWasSent`, the comment on `recvfromAck` |
| `flight_turnstiles` | 5 workers, 1 queued message | `LoadIsShed`, `NobodyLeftPaused`, `PowerPassesTurnstile` |
| `flight_messages` | 3 workers, 3 queued messages | `LowPowerNeverMissed`, `LowPowerHeeded` |
| `flight_exit_lost` | 4 workers, 2 queued messages | **violated**: `ExitIsStillToCome`, the comment in `lowPowerMode` |
| `sensor_node` | 2 orbits, 2 boots, 2 lines per file, 3 failing opens | `FileHoldsItsOrbit`, `NoGaps`, `CompleteUpToPosition`, `OnlySentIsOverwritten`; `SentOnce`, `LostFixStaysLost`, `ScanEnds`; the refinement `ImplementsArchive`; `ComesRound` |
| `sensor_completed` | 2 orbits, 1 boot, 2 lines, no failing opens | **violated**: `CompletedIsSent`, the comment in `isTransferMode()` |
| `sensor_listens` | 2 orbits, 1 boot, 1 line, no failing opens | **violated**: `ListensUntilScience`, the message of `listenMuleMessage()` |
| `collection` | nodes 2 and 3, an array of 2, two lines in orbits 99 and 100, one in orbit 200, 2 lines of serial buffer | `ListedOnce`, `SpoiledOnlyByStrayEnd`, `WaitsForTheUnanswered`, `NoTransferBySource`, `FiledUnderItsOrbit`, `InOrder`; `SourceWaitsForEver`; the refinement `ImplementsLog`; `ListenEnds` |

Each passing run of a module also checks its type invariant.

Bounds and why they are enough:

- Workers do not interact in `WorkerThread`; two show the race of the constructor
  and its absence side by side.  `begun` is counted to 2, which tells none, one
  and several apart.
- `IdSpace = 3` makes the one-octet sequence numbers short.  Two messages are the most
  that are fewer than the numbers, and reach the boundary of the steady pairs; four
  take every number, zero included, and the first one again, and a restart begins
  the numbers anew anywhere among them.  One retry
  gives two transmissions: an acknowledgement of the first can meet the second,
  and of one message the next.  One message of the node's makes both nodes call at
  once.  Three nodes are needed for a bystander.
- `QueueBound = 3` lets a low-power announcement, a recovery and another
  announcement pile up behind each other; `QueueBound = 1` suffices where the
  properties are about the workers, and all five take part there.  An instance
  that leaves a worker out drops the calls on it.
- `MaxOrbit = 2` with a restart has all the cases of numbering: the first file, a
  file after a file, a scan that finds files, and the numbers used up.  Two lines
  tell a file that is sent in part from an empty and a complete one.  A gap in
  the numbers would take a file that could not be made twice over and a later
  one that could: three failing opens.
- Two nodes and an array of two: the array is full when both have called, so that
  an end of file stored as an address makes the next call overrun it.  The first node
  crosses from a number of two digits to one of three between its two lines, the second
  one gives the thread an orbit to confuse it with.  Two lines of one node in a buffer of
  two are the smallest case for their order.  Both strings of `request()` are initial
  states of the same run.

Deadlock is not checked in the sensor-node runs: the node halts without a card
and when its orbit numbers are used up.  Nor in the flight-computer runs: all worker threads may have died
and the main script then polls an empty queue for ever, which is what the code
does.

Fairness.  `WorkerThread!FairSpec`: a thread that can run is scheduled, and
`loop()` ends.  `RadioLink!FairSpec`: a node inside `sendtoWait()` keeps running and its
clock runs; nothing is assumed of the channel.  `FairFlightSpec`: the main thread
keeps running; nothing is assumed of the battery, the radio board or the other threads.
`FairNodeSpec`: the node's program runs (`Run`, weakly fair), and a timeout
that it keeps looking at strikes some time (`TimeUp`, strongly fair, since the
node is at other places between two looks); nothing is assumed of the GPS, the samples, the MULE or the
power.  Hence the exception in `ComesRound`: with a fix the node's waits go by the
latitude, and a GPS that never reports the awaited one keeps it waiting.
`Collection!FairSpec`: the board's `loop()` runs and its timer with it (`BoardStep`);
nothing is assumed of the link, the nodes or the thread.  Hence `ListenEnds` promises
the end of `listen()` only once a node has called, and nothing promises the end of the wait in
`request()`, whose timeout is commented out.

### Disagreements found

- **A pause may be lost** (`worker_thread.py:27-30`): between the worker's
  `acquire()` and `release()` the pause's own non-blocking `acquire` fails
  unnoticed and the worker keeps iterating.
- **A node may receive its own transmission** (`RF22.cpp:693`): a broadcast sent
  while a received packet is waiting overwrites the packet but not its valid flag,
  and `recvfromAck()` delivers the outgoing bytes in the name of the peer.
- **The end of low power may be discarded** (`ExecutiveThread.py:219-222`): the
  wait for the attitude thread, which dies instead of answering, takes at least
  two messages of any kind; if one is `EP:lowPowerExit` the executive then waits
  for it with the radios paused.
- **A completed file may hold lines that were not sent**
  (`AndesiteWSN.cpp:324`): science mode may be entered again in the same orbit
  after the file was marked as sent; what it adds is never sent, since a
  header with status 1 keeps the node out of transfer mode.
- **Listening to the MULE ends at once below the 65th parallel**
  (`AndesiteWSN.cpp:404`): the test for the coming science mode is the wrong way
  round, so a node with a fix gives up on the MULE where it should be
  listening, and stays where it should leave.

## 5. Proofs

All proofs are for any value of the constants, under the assumptions named
`EarlyReadersAssumption`, `RadioAssumption`, `FlightAssumption`, `NodeAssumption`
and `MuleRadioAssumption` (no more nodes than places in the array), which TLC evaluates in the runs.

- `WorkerThread_proof`.  An effective pause alone does not say that the worker
  cannot get in.  The invariant `IInv` adds to the types `HeldInv` (a held
  worker's permit is out, it is not between `acquire` and `release`, and it
  has begun at most the one iteration it was in; none if it stands before the check or
  has not started), `WakeInv` (the permit of a worker that is to run is back, or the worker
  has it and is about to give it back, which `NoLostWakeup` alone does not say) and `ForcedInv` (the permit is back while the worker
  is at `release` only if a resume struck there, and only then does the release fail).
- `RadioLink_proof`.  The invariant relates the numbers of the messages, the packets in
  the radios, the number each receiver has last seen and the logs.  `NumbersInv`: the
  number of a sender's current message is its counter, and until it restarts or its
  numbers come round a message's number is its place.  `ContentInv`, what a buffer with a
  request in it can hold: a message of the node and with the number in its header; or
  a broadcast of this node's own; or anything while the node is itself sending (phase
  `"sent"`), for then the request is not taken from the buffer but dropped.
  `GivenInv`: the number a receiver has last seen, and the number of an acknowledgement
  in a sender's radio, is that of a message given to the application.  Neither half is
  inductive alone, since a repeated request is acknowledged on the strength of the number
  seen.  From it follows `AckedOrSameNumber`, which is part of the invariant, and with
  `NumbersInv` that between steady ends it is the very message (`AckedAreDelivered`).
  `OrderInv`, for the intact receivers: the log has each sender's messages in order,
  the last of them has the number last seen, and none of them is later than
  what waits in the radio.  A request that would repeat the log's last message has the
  number last seen and is not given: this, and no count of restarts or
  numbers, is why `ReceivedInOrder` holds whatever the sender does.
  `Refinement` says that every step of `RadioLink` is a step of `AckedLink` or a
  stutter, with any broadcasters, restarts and numbers of messages.
  `EndsUnacked` collects the ways in which a call ends with nothing promised.
- `FlightComputer_proof`.  `Composition` shows that the flight computer's every
  step is a worker step or leaves the workers alone, so that `PauseHolds` carries over.
  `NeverMissed` needs the invariant that while `lpm = 1` and the executive is not in
  low-power mode, the *last* of the power thread's messages in the queue is an
  announcement (an exit that precedes it is harmless, one behind it would not
  be).  `Shed` and `Restored` follow the list of calls: whatever the
  list still holds will bring each worker to the state that `exec` calls for.  That none
  is then held up at its turnstile, `Restored` takes from `WakeupIsNotLost` by way of
  `Composition`.
  `PowerSafe` holds because the list never resumes the power thread
  after its first resume.
- `SensorNode_proof`.  That the card has no gaps follows only together with
  where in the numbers the node is: no file is above the current one, and all
  below it exist, and those that do not exist are empty (`CardInv`); that needs
  what the scan found (`MemoryInv`).  `LinesInv` says that the current file's lines
  are of this boot, `SentInv` that what was offered of it
  lies before `position`, `HeadInv` that a header names a position up to
  which everything was offered.  From these follow one orbit per file,
  no line twice, true headers.
  `ScanComesToAnEnd` shows that `ScanLeft` is a variant, for any number of orbits and whatever
  opens fail: `count` grows with every unfinished file met, and once it has
  reached their number the index is not set back any more.  `Refinement` uses the whole invariant:
  the file that the node is at, if the card has it, is the newest (`CurrentIsNewest`), so
  that a sample is an `Add` and a line sent the next `Send`; and a file that is created
  and was not there is the one after the newest (`CreateBegins`).
- `Collection_proof`.  That calling nodes never overrun the array is a matter of counting:
  the array holds different nodes and there are no more nodes than places, so that a node
  that is not in it finds a place (`NodesFit`, by the pigeonhole principle).  It holds
  as long as no end of file is in the array.  `WaitsForTheUnanswered` needs that
  the nodes that have answered are those before `index` (`Rounds`) and that none of them
  is there again (`ListedOnce`).  `NoTransferBySource` is inductive once it speaks of every place
  on the way: the nodes' phases, the serial line, the files and the array, since an end of file
  in the array would be asked as a broadcast.  `FiledUnderItsOrbit` needs that
  an orbit number the thread has read has three digits (`OrbitRead`).  For `InOrder`, `Numbered` says that what is in the
  files or on the line was offered, and that the line a node is still sending
  (`Last`) is not there before the board has taken it; a call that is repeated could break
  it, and `sendtoWait()` for data lines never is.  `Refinement` takes the whole invariant to show
  that reading a data line is a `Read` of `LineLog` and that every other step leaves it alone or
  is an `Offer`.

Only model-checked: all liveness (`ResumeTakesEffect`, `TerminateStops`,
`CallReturns`, `LowPowerHeeded`, `ComesRound`, `ListenEnds`), which is out of the prover's
reach since it rests on fairness.  Of what three of them rest on, the safety part is proved:
`NoLostWakeup` for `ResumeTakesEffect`, `ScanEnds` for `ComesRound`, `LowPowerNeverMissed` for
`LowPowerHeeded`.

## 6. Not modelled

- *Everything that only a ground command or a Globalstar reply starts*: switches,
  deployment and the deployer board, the bar magnet, the downlink of files,
  `processMessage()` and `relayMessage()` of the radio board.  In the delivered code the
  Globalstar thread dies in its first iteration, and `SMS_pull_poll()` would return `False`
  to any command; the deployment calls are commented out besides.
- *The functional test*, commented out of the main script.
- *Drivers*: unit conversion and I2C register access (`eps_driver.py`,
  `battery_driver.py`, `magnetorquer_driver.py`, `Adafruit_I2C.py`), the I2C bridges, the
  packet parser of the modem.  They hold no state between calls that the program's
  order of steps could disturb; their failures appear as exceptions (`HealthRaises`).
- *The board's restarts* and what it does after writing past its array.
- *Of the node*: its sampling interrupt, the contents of the lines, the sensors.
- *Other copies*: the predecessors of the flight code in `MULE/working_final`, the
  second copies of the libraries, bench tests, board setup, vendored libraries (of
  which only `RF22ReliableDatagram` and the buffer of `RF22` are modelled).

Most of the repository's lines are in the last two groups of files, copies and
drivers; hence the models cover the flight program's control and a small share of all lines.
