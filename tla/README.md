# A TLA+ model of the LinkedSemi Zephyr project

The repository is a Zephyr workspace for LinkedSemi management controllers: a
set of applications under `samples/`, each built from a few C files around the
Zephyr kernel, with board files and tools beside them.  The drivers and the
kernel itself are other repositories.  The applications that have logic of their
own are the BMC-side protocol programs: an IPMI/IPMB bridge, an SPDM responder
and an SPDM requester over MCTP, a GPIO character device, a USB host controller
driver with its shell, a USB serial echo and a USB console that two cores share.
Beside them are an SSH server and a family of programs that test cryptographic
engines.  This directory models those, checks them with TLC and proves part of
them with TLAPS.

`PROJECT.json` lists components, runs, properties with the faulty variants that
break them, findings, hazards and theorems, and maps every definition to the
lines it models.  Line numbers below are of the C files under `src/`.

## Inventory

### IPMB transport: `samples/ipmi_openbic/src/ipmb/ipmb.c`

*State*, one instance for each bus index: a circular linked list of outstanding
requests that starts at `P_start`, a table of registered sequence numbers, the
last number handed out, a counter of the records; a TX queue of one message, an
RX queue of two; mutexes `mutex_id` (list), `mutex_send_req`, `mutex_send_res`,
`mutex_read`; a flag that suspends transmission.

*Operations*: `get_free_seq`, `insert_req_ipmi_msg`, `find_req_ipmi_msg`,
`clear_req_ipmi_msg`; `ipmb_send_request`, `ipmb_send_response`, `ipmb_read`,
`ipmb_tx_suspend`, `ipmb_tx_resume`; the threads `IPMB_TXTask`, `IPMB_RXTask` and
`IPMB_SeqTimeout_handler`.

*Interaction*: any thread may call `ipmb_read` and blocks; the IPMI handler of
`OEM_1S_MSG_OUT` and the RX task of the ME bus forward requests and do not wait.
The TX task records a request and writes it to the bus; the RX task finds the
record an answer belongs to and passes the answer to the reader or to the bus
the request came from; the sweeper throws away old records.

*Hard*: six kinds of thread take records from one list; answers are late,
repeated or missing; a write fails and is retried; the list is full; malloc
fails in the middle of an insert; all sequence numbers are in use; a reader
times out while its answer is being delivered.

*Correct when*: the counter is the length of the list; no cursor stands on a
freed node; each sweep ends; a bridged request gets at most one reply, its own
answer, under its own sequence number; an outstanding number is not handed out;
`ipmb_read` is serialised, returns, and returns its answer; old records go.

### IPMI message dispatch: `samples/ipmi_openbic/src/ipmi/ipmi.c`, `main.c`

*State*: the queue `ipmi_msgq` of ten messages, `mutex_purge_msgq`, the
dispatcher's message, the handler thread, the byte of the BMC global enables,
`mutex_send_res` of the IPMB the response goes to, and `current_msg` of the KCS
loop, which keeps the data of the request before.
*Operations*: `notify_ipmi_client` (put, and on a full queue lock, purge and try
again), `IPMI_handler` (start a thread, join it for ten seconds, abort it),
`ipmi_cmd_handle`.  *Interaction*: the KCS loop of `main.c` and the IPMB RX tasks
produce; the handler answers through KCS or `ipmb_send_response`.  *Hard*: a
purge between two puts of another producer, the retry counter at its end,
aborts, also of a handler that has a mutex locked.  *Correct when*: success means
queued; answers are in order; an acknowledged SET is read; a handler that hangs
holds up nobody.

### IPMI command handlers: `samples/ipmi_openbic/src/ipmi/*_handler.c`

*State*: watchdog feeding, the polled sensors, VR monitoring, the PRDY interrupt,
pin directions and levels, fan mode and duties, SDR reservations for each slot,
the APML request index, and who has the BIOS flash.  *Operations*: some ninety
commands, each a sequence of tests on length, source and bytes, calls of drivers,
and changes.  *Interaction*: `ipmi_cmd_handle` calls them; they call drivers and
platform hooks that are not in this repository.  *Hard*: a test that comes after a
change, a driver that fails between two changes, an abort between switching the
flash to the BIC and back, tables shared by two slots.  *Correct when*: an error
changes nothing, the flash returns to the host, slots do not disturb each other.

### SPDM responder: `samples/spdm/spdm_response/src/main.c`

*State*: a mailbox for one frame with the address it came from, a binary
semaphore, one sender and one receiver buffer with in-use flags.  *Operations*:
`rx_message` (MCTP callback), `spdm_device_receive_message`,
`spdm_device_send_message`, the acquire and release callbacks, the main loop.
*Hard*: the callback preempts the main thread anywhere, also within a copy.
*Correct when*: no wakeup is lost, buffers are released on every path, a frame is
answered once, whole, and to the peer that sent it.

### SPDM requester: `samples/spdm/spdm_requester/src/main.c`

*State*: the same mailbox, semaphore and buffers, a message tag, the place in the
flow.  *Operations*: the same callbacks with the roles turned: main sends a
request and waits, at most fifteen seconds, for the response; `spdm_requester_run`
makes eighteen exchanges and stops at the first that fails.  *Hard*: a response
that is faster than the receive, one that is later than the timeout, messages the
host sends unasked; the tag of a response is not looked at.  *Correct when*: no
wakeup is lost, a response belongs to the request that is out, buffers are
released, a receive fails only for the reasons it documents, the flow ends.

### USB host: `samples/dwc3_host/src/xhci.c`, `xhci_port.c`, `main.c`

*State*: a command ring, an event ring and one transfer ring for each endpoint,
all with cycle bits; `evt_trb`, the last event; the flags `event_wait` and
`event_sync`.  *Operations*: the shell commands (allocate, address, control, bulk
and interrupt transfers), `xhci_enqueue_trb`, `xhci_event_wait`, `xhci_isr`,
recovery of a stalled control endpoint.  *Interaction*: driver and controller
share the rings in memory, through a cache that is flushed and invalidated by
hand; the handler wakes the shell thread, which spins.  *Hard*: the event comes
before the thread waits for it, or two come for one transfer; laps of the rings;
a full ring, which is not tested for; a link TRB that is toggled after the flush;
a stall in the middle of a transfer.  *Correct when*: the controller executes
what was enqueued once and in order, and does not stop before it; events are
handled once and in order; a call reads its own event and returns; a stalled
endpoint can be used again.

### GPIO file system: `samples/gpio_fs/src/gpio_fs.c`, `main.c`

*State*: two pools of 64 objects, the paths under `/dev`, `pin_mask` of each chip,
the configuration of each pin; for each event a ring buffer of 16 records and a
poll signal.  *Operations*: creating line handles and line events by ioctl,
`SET_CONFIG`, close; `gpio_irq`, read, poll.  *Hard*: pins are tested outside the
lock; the ends of a close are outside the lock; the interrupt comes between the
test of the buffer and the reset of the signal.  *Correct when*: handles own
their pins exclusively; a file is backed by an object and a path; no wakeup is
lost; nothing reaches a closed file.

### USB CDC ACM echo: `samples/power/cdc_acm/src/main.c`

*State*: a ring buffer of 1024 bytes, a throttle flag, two interrupt enables, the
FIFOs of the driver.  *Operation*: `interrupt_handler`, called by the driver.
`samples/mcp2221` holds the same handler.  *Hard*: the handler disables the
interrupt that called it and relies on another one.  *Correct when*: throttling
is always undone, and bytes are neither reordered nor lost.

### USB console: `samples/usb_acm_agent/app_core/src/usb_shell.c`

*State*: `local_shell`; two work items; the shell's state, its suspended backend,
the agent.  *Operations*: `uart_switch_sec` at the console gives it to the other
core, a callback of the agent takes it back.  *Hard*: the handler that gives it
away sleeps in the middle, and the shell thread goes on with what is buffered.
*Correct when*: the port has one owner, the one that `local_shell` tells.

### SSH server: `samples/echoserver/echoserver.c`

*State*: the list of users; `passwdRetry`; the connection with its context,
session and socket; the forwarding context with its two descriptors; the agent
relay.  *Operations*: login by password, key or without, the worker's loop over
channel, forwarded socket and agent, SFTP, shutdown, the next accept.
*Interaction*: wolfSSH calls the server back for users, forwarding and agent.
*Hard*: one thread serves everybody; a client goes at any moment; callbacks close
descriptors that the loop polls.  *Correct when*: each client has its own three
tries; no closed descriptor is used; the server gets over a client that is gone.

### Cryptography programs

`samples/crypto/aes256`, `crypto` and `sm4` run ciphers on drivers and compare
ciphertexts, `aes256` with a shim driver of its own (`crypto_mtls_shim.c`: a pool
of sessions).  `samples/mbedtls_hash` feeds data to the hash engine in a dozen
ways of cutting it.  `crypto_sw_hw_alignment_test`, `mbedtls_test`,
`mbedtls_throughput` and `wolfssl_hw_throughput_rate` are lists of test functions
on library contexts.  *Hard*: calls fail in the middle, results are not looked at,
error paths free some contexts and not others.  *Correct when*: what a test
reports is true, whatever failed or was computed wrongly, and what it took is
given back.

### Parts that are not modelled

| part | why |
|---|---|
| IPMI 6.1 sample (`samples/ipmi_61`) | `ipmb.c` and the OEM, OEM 1S, storage and sensor handlers are byte for byte those of `ipmi_openbic`, `ipmi.c` and `plat_ipmi.c` differ in a few lines: the same modules apply.  Its own application and chassis handlers and `main.c` are left out |
| IPMB: byte layout, checksums | planned |
| IPMI: application and chassis commands that answer constants; KCS, SSIF, MPRO and PLDM branches the build leaves out | nothing to keep |
| SPDM: `spdm_secret.c` (signing, event subscription, key pair data), the host testers in Python | planned; libspdm decides what reaches them |
| JTAG test (`jtag_asd`) | an option parser around a library that is not in the repository |
| Mailbox between cores, two cores on one eMMC | planned |
| USB host: bring-up of clocks, PHY and registers, contexts, port registers | sequences of register accesses |
| USB host: `xhci_cmd_reset_device`, no-op and disable-slot commands | nothing calls them |
| SSH server: global requests, certificates, static memory, Nucleus | not in any build of the sample |
| `mbedtls_selftest`; the otbn, sha256, sha512 and throughput programs of `samples/crypto` | the library's own tests; repeat the patterns that are modelled |
| BMC ready and eSPI shell | shell commands that write registers one after the other |
| HTTPS, zperf and telnet, file system, flash and peripheral samples | sequential exercises of libraries and drivers kept elsewhere |
| Boards, build files, tools | configuration |

In the sample's build the OEM, OEM 1S, storage and sensor handlers are in the tree
but not listed in `CMakeLists.txt`; the SSH server's settings enable none of
forwarding, agent, shell and SFTP.  Both are modelled as they are written.

## Modules

| module | models | kind |
|---|---|---|
| `IpmbSeq` | list, sequence numbers, counter, sweep of one IPMB index | component |
| `Ipmb` | the threads of one index, EXTENDS `IpmbSeq` | composition |
| `IpmbProofs` | theorems about both | proofs |
| `IpmiDispatch` | the IPMI queue, dispatcher, handler thread and the mutex of the response path | composition |
| `IpmiDispatchProofs` | theorems about it | proofs |
| `IpmiCommands` | the command handlers | component |
| `IpmiCommandsProofs` | theorems about it | proofs |
| `SpdmResponder` | mailbox, callback, dispatch loop | component |
| `SpdmRequester` | mailbox, callback, flow of exchanges | component |
| `SpdmProofs` | theorems about both, EXTENDS `MCSpdm` | proofs |
| `XhciRing` | one command or transfer ring, driver and controller | component |
| `Xhci` | shell thread, interrupt handler, event ring, controller; its rings are the queues that `XhciRing` shows rings to be | composition |
| `XhciProofs` | theorems about it | proofs |
| `GpioFs` | handles, pools, paths, pins | component |
| `PinOwner` | exclusive ownership of pins | abstract specification |
| `GpioEvent` | one line event: interrupt, poll, read | component |
| `GpioProofs` | theorems about `GpioFs` and `GpioEvent`, EXTENDS `MCGpio` | proofs |
| `CdcEcho` | the echo's interrupt handler | component |
| `UsbShell` | the console and its two work items | component |
| `UsbProofs` | theorems about `CdcEcho` and `XhciRing` | proofs |
| `EchoServer` | the SSH server | component |
| `HashSuite` | `mbedtls_hash` | component |
| `Cipher` | the cipher programs and the shim driver | component |
| `CryptoTests` | four test programs as lists of instructions, and the machine that runs them | component |
| `Samples` | `EchoServer`, `HashSuite`, `Cipher`, `CryptoTests` and `UsbShell` as images for one board | composition |
| `SamplesProofs` | theorems about them | proofs |
| `MCIpmb`, `MCIpmiDispatch`, `MCIpmiCommands`, `MCSamples` | instances for TLC | model |
| `MCQueues`, `MCSpdm`, `MCGpio` | instances of several components, of which a behaviour runs one | model |

The other modules have few enough constants that their `.cfg` files instantiate
them directly.  The programs of `MCSpdm` and `Samples` are firmware images that
do not run together: `image` is the one on the board.  In `MCGpio` `side` chooses
between the handles and one event file, in `MCQueues` between the list, the echo and the
TRB ring; in `MCIpmiDispatch` `length` is that of the queue.  The definitions called
*faulty variant* are not used by any specification: they are what the properties are
tried against.

### `IpmbSeq`

`ring` is the list without its head, oldest record first; `P_start` is position
0.  `linked` becomes FALSE when `insert_req_ipmi_msg` has stored the NULL that a
failing malloc returned in the tail's next pointer (line 213).  Every function
works under `mutex_id` and blocks nowhere, so it is one action; the sweep is a
loop, and one iteration is one action, with the cursor in `sweep_pos`.
`get_free_seq` is under another mutex and may run during a sweep.

A timestamp is kept as what the sweep can tell: *fresh* (no sweep has started
since), *aged* (a sweep started too early for it), *expired*.  Two sweeps are
the timeout apart, so what one sweep has met is too old for the next one;
`SweepStart` lets any prefix of the fresh records expire as well.

`fault` says that a NULL pointer has been followed: the kernel stops, and so
does the model.

### `Ipmb`

One instance is one index.  A caller's steps are `ReadStart` or `BridgeStart`,
`SendLock` (with `get_free_seq`), `SendPut`, `ReadGet`, and the timeouts of each.
The TX task's are `TxGet`, `TxInsert`, `TxWriteOk` or `TxWriteFails`, `TxFailed`
(take the record off the list, count the retry), `TxRequeue` or `TxGiveUp`; the
RX task's are `RxResponse`, `RxFind`, `RxDeliver`.  The code releases every lock
between these, so other threads run in between.  The device answers what it got
once, several times or never.  `id` is a ghost: it names a request so that the
properties can tell whose answer an answer is; no guard reads it.

`TimelySpec` adds `NumbersInTime` to `Spec`: when a sender is given a number some number
is free, and the one it is given is not that of a request that is still on its way to
the list (`InFlight`).

Assumptions: a failed I2C write has not reached the device; waiting for
`mutex_id` does not exceed its timeout (holders do not block); the bus a bridged
request came from either takes the reply or drops it.  The KCS, MPRO and PLDM
sources are compiled out and left out.

### `IpmiDispatch`

`k_msgq_put`, `k_msgq_get` and `k_msgq_purge` are atomic.  The test of the free
entries and the purge are two actions, since the dispatcher does not take the
mutex.  The handler thread copies the message from the dispatcher's stack,
executes and answers; it may hang in execution, and be aborted anywhere.
Message n of type SET carries the byte n, or none, and then what `current_msg`
still holds.  The commands are `SET`, `GET`, `MSG_OUT` (no response from the
handler) and `OTHER`.

A response to an IPMB goes through `ipmb_send_response`: `mutex_send_res` has an
owner and a count, as `k_mutex` has.  All handlers are the one thread object
`IPMI_handle_thread`, so that a handler may lock again what an aborted one left
locked; `bridge` is an IPMB task that sends responses too, and may not.

### `IpmiCommands`

A handler is an operator from a request and the device to the set of its results,
one for every outcome of the drivers it calls; its tests stand in the code's
order.  A request is its function, command, source, length and bytes, a field of
several bytes being one number.  The three flash commands are steps (`FlashHigh`,
`FlashAccess`, `FlashLow`), since the dispatcher may abort between them (`Abort`).
The bytes of answers are left out.

### `SpdmResponder`

`rx_message` runs in a cooperative thread, main in a preemptible one: the
callback is one action, main's steps are divided wherever the callback can see
the difference, the memcpy into two halves.  libspdm is external and appears as
the sequence of callbacks it makes.

### `SpdmRequester`

Built like `SpdmResponder`.  `step` is the exchange of the flow; a frame is the
number of the exchange it answers and whether libspdm will like it, or a message
sent unasked.  libspdm accepts only a whole good answer to the request that is
out.  The host answers a request once, at any time, also after the exchange has
failed.

### `UsbShell`

The handlers run in the cooperative thread of the system workqueue: other threads
see `switch_peer_work_handler` at its sleep, and nothing else half done.  An item
that is queued is not queued again, one whose handler runs is.  Zephyr's shell is
external and does what the comment in the code relies on: it takes commands while
it is active, and is active again at the end of `state_collect`.

### `EchoServer`

`srv` is the step of the server thread.  `feature` is what was compiled in and
`opt` the command line.  wolfSSH is external: a call returns any code that the
server tells apart, and the callbacks come where wolfSSH makes them.  A name that
does not fit its field is cut and equals no other.

### `HashSuite`, `Cipher`, `CryptoTests`

A right digest or ciphertext is a value that stands for what went into it, a wrong
one differs from all others; any call may fail.  `HashSuite` has the cuts of each
function and the loops of `main`; `Cipher` has the shim's handlers, which report
what they read and write, and the rounds of the three programs; `CryptoTests`
writes each function as its line of calls, comparisons and returns.  `Step` does
what an instruction is for; `Mismatch` is a comparison that finds a difference,
`CallFails` and `WrongOutput` are the faults, at most `MaxFaults` in a function;
`Unwind`, `FromExit`, `FromEnd` and `Skip` leave the function, and `Report` and
`Finish` are what main does with its result.

### `XhciRing`

The cells of a ring, the link TRB's cycle bit, and what of them is in memory.  The
n-th TRB has the number n.  `xhci_enqueue_trb` is one action: store, flush, and at
the end of the ring toggle link TRB and cycle bit, which stay in the cache until
the next flush or an eviction.  The controller fetches one TRB in a step, follows
the link, halts at a stall, and goes idle at a TRB that is not its own.  `Room`
is not in the code: the code does not look, and so its callers owe it.

### `Xhci`

The submissions of the shell thread are numbered; TRBs and events bear the number
of theirs.  `event_wait = 1` and the end of the spinning are separate steps, and
the handler may come between the doorbell and the first, or between any two; it
excludes the thread while it runs, but not the controller.  `seen` counts the
events that were in memory when the handler invalidated the cache; later ones it
may see or not.  A transfer TRB ends with success, a short packet, a stall or a
transaction error, with the events that TRB_IOC and TRB_ISP ask for.  The slot is
allocated and addressed in the initial state, and an address command has no
effect beyond its event.

### `GpioFs`, `PinOwner`

What runs under `gpio_lock` is one action.  `CreateCheck` is the part before the
lock, `CloseUnregister` and `CloseFree` the part after it; a line unregisters and
then frees, an event the other way round, as in the code.  devfs refuses a path
that is registered.  `ret` is what the ioctl returns, which is 0 when devfs
refuses (the code negates its result, which has become 0).  A request is its
kind, its pins and the direction its flags give; the flag rules are kept.

`PinOwner` is what the clients rely on: a handle takes its pins together, only
if they are free, and keeps them until it is closed.  `Spec` has the unlocked test of
`pin_mask` as the code makes it; `TurnSpec` adds `InTurn`: of two threads between that
test and the end of their creates the requests have no pin in common.

### `GpioEvent`

The interrupt handler comes between any two steps of the thread.  The controller
latches an edge and the handler reads the level later.  poll is external: it
waits for the signal or the timeout, asks `ZFD_IOCTL_POLL_UPDATE` and returns how
many files are ready, without waiting again.

### `CdcEcho`

The handler's loop alternates between its two halves; `half` is where it is.  The
n-th byte sent is n, so loss and reordering show.  The driver's FIFOs have
capacities; the host fills one and empties the other.

## Runs that pass

| run | instance | what it shows |
|---|---|---|
| `queues` | `IpmbSeq`: 2 sequence numbers, list of 3, malloc fails or not; `CdcEcho`: ring of 3, local buffer of 2, FIFOs of 2, 8 bytes; `XhciRing`: ring of 6, 21 TRBs, which are four laps | counter = length (`CountMatchesRing`), cursor on the list and ages ordered (`SweepSafe`), sweeps end (`SweepEnds`); `NoWedge`, `Ordered`, `Drained`; `InOrder`, `RingDrained` |
| `ipmb` | 1 reader, 1 bridge, 3 requests, 4 numbers, list of 2, 1 retry, 1 repeated answer, failing malloc, suspension | `AtMostOneReply`, `ReplyAnswersItsRequest` |
| `ipmb_wrap` | 1 bridge, 5 requests, 3 numbers, list of 2, 1 retry, `TimelySpec` | `OutstandingSeqsReserved`: a number on the list is registered and given out once, although numbers come round |
| `ipmb_live` | 2 readers, 2 requests, a request of the device, fair | `ReadReturns`, `ExpiredLeave` |
| `ipmi_dispatch` | KCS with SET (with and without data) and GET, IPMB with GET and MSG_OUT, a queue of 2 or of 1, 2 retries, 3 messages | `RepliesInOrder`, `GetReadsAcked`, `QueueMoves` |
| `ipmi_commands` | 7 sessions of commands, 3 pins, 2 sensors, 2 fans, 2 reservations | `MuxReturned`: the flash is with the PCH whenever no command uses it; `ErrorChangesNothing`; `SlotsApart`: a step for one slot leaves the other's reservation and duties |
| `spdm` | responder: 2 peers, 2 tags, 3 frames; requester: the whole flow, 2 messages unasked | `AnsweredOnce`, `MailboxEmptied`; `AnswersInStep`, `FlowEnds` |
| `gpio` | 2 threads that want the same 2 pins, one or both, in turn (`InTurn`), 2 lines, 1 event; both edges, buffer of 2, 6 edges | `HandleInv` (files, objects, paths, `pin_mask` and directions agree), the refinement `PinsAreOwned`; `NewestTellsLevel`, `RecordsRead` |
| `xhci` | event ring of 3, 2 shell commands of 5 kinds, 1 port event | `EventsInOrder`, `OwnEvent`, `ControlRecovered`, `RoomInRings`, `WaitEnds` |
| `samples` | SSH: 2 connections, 4 logins, 5 descriptors, 6 builds; crypto: 3 builds, 2 rounds of a loop, 2 faults in a function, hash lengths 0, 65 and 8193 at offsets 0 and 1, 2 sessions and 3 hash handles of the shim; console: 3 commands, 2 requests of the other core | `LoginLimit`, `FwdOpen`, `ServesAgain`; `FaultsReported` (`VerdictTells` of `mbedtls_hash`, `WrongOutputReported` of ciphers and shim), `SessionsKept` (shim), `FunctionsSound` (`TestTells` and `ContextsReturned` of the test functions), `PassedMeansRight`; `OneOwner` |

`HandleInv` is a conjunction that includes the module's `TypeOK`; `RingInv`,
`MailboxInv` and `EventInv` are such conjunctions that no run lists.  They are
proved, as `SuccessIsQueued` of `IpmiDispatch` is.  Where a module states a
`TypeOK` that no run lists, it holds when it is added to the module's cfg.

### Why the bounds are enough

- IPMB: a list of two or three records has a first, a last and, at three, an
  inner one, so every case of unlinking and of stepping over occurs; it is full
  with two requests outstanding and evicts with the third.  Queues of one are
  full with one message, as `ipmb_txqueue` is in the code.  One retry already
  passes through both ends of the retry loop.
- IPMB sequence numbers: `ipmb` issues at most three requests with four numbers,
  so numbers do not wrap.  In the code a number returns after 64 requests; an
  answer that is 64 requests late is outside of that run.  In `ipmb_wrap` five
  requests come round three numbers: `get_free_seq` meets numbers that are
  registered by records on the list and by ones that were evicted, and steps over
  them.  `queues` has two numbers, and there `get_free_seq` runs out of them.
- Dispatch: a queue of two has an order, holds messages of both producers, is full
  and is purged.  In the queue of one a producer finds the queue full, purges it, and
  finds it full again.  Two messages carry a SET and the GET that follows it, the third
  is in their way.
- IPMI commands: commands that share no state are in different sessions, so a
  behaviour mixes those that meet.  Each gets the lengths around the ones it tests
  for and every value of a byte that it tells apart; two reservations are an old
  and a new one, two fans one and another.
- SPDM: three frames are one in work, one in the mailbox and one that replaces
  it.
- SPDM requester: one message unasked puts the mailbox out of step, the second
  replaces a response.  All eighteen exchanges are there, so tags wrap twice.
- xHCI: a ring of six has an inner cell, a first, a last and the link; the driver
  toggles the link four times.  An event ring of three is full with two events,
  and a control transfer with a short packet posts two.  Two shell commands are a
  transfer and one that meets what it left (three, 930 thousand states, hold too).
- GPIO: two threads race for objects of a pool of one or two, and for the same two
  pins, one or both at a time, so that they find each other's pins open, half
  closed, and wanted in the other's second pin.  Two threads between test and mark of one pin are
  left out by `InTurn`, because then both get it (see below).  Six edges with a buffer
  of two overflow it and leave time to recover.
- SSH: the second connection meets what the first has left; a fourth login is one
  more than the tries; five descriptors are listener, forward and agent with two
  that a missing close would use up.
- Cryptography: one fault meets every error path, the second one a fault in the
  path itself or a difference that the first hides.  Two builds of `mbedtls_test` have
  ECDSA and RSA on OTBN, with the hash on OTBN or on the SHA hardware, as the two
  configurations of the board have them; the third is the one that wolfSSL's engine
  leaves.  65 and 8193 bytes cross the
  blocks of every cut; three handles compete for two sessions.
- Console: with three commands a switch, a second one and a long command can be
  buffered at the sleep; two requests of the other core come before and after it.
- CDC: eight bytes fill FIFO, ring buffer and FIFO together (2 + 3 + 2) with one
  to spare.

`CHECK_DEADLOCK FALSE` stands where a run ends when its bounded inputs are used
up, or where a fault stops the system.

### Fairness

- IPMB: each thread is strongly fair in its steps.  A thread waits for `mutex_id`
  again and again while the sweeper has it; the sweeper sleeps a second between
  sweeps, and `k_mutex_unlock` gives the mutex to a waiter, so a thread that can
  infinitely often get the mutex does.  Timeouts expire.  The device owes
  nothing: answers are never assumed.  The sweeper is weakly fair.
- Dispatch: producers and the dispatcher are weakly fair (they run, and their
  timeouts expire), and so is the IPMB task that has the mutex; command handlers
  are not fair at all.
- SSH: the server thread is weakly fair; its clients owe nothing.
- SPDM: the main thread is weakly fair, and `k_sem_take` with a timeout returns;
  the host owes nothing.
- xHCI: the controller works while it is active, an interrupt that is pending is
  taken, the shell thread runs; in `XhciRing` a caller that has enqueued rings the
  doorbell, and a halted endpoint is given a new dequeue pointer, which
  `xhci_xfer_control` does and `xhci_xfer_bulk` does not.  Stalls, evictions and
  shell commands are not fair.
- GPIO events: a latched interrupt is served; the thread polls and reads on.
- CDC: the handler runs while an interrupt is pending; a FIFO that has data is
  not read with an error for ever (strong fairness of `RxMove`); the host reads.

## Where the code and its comments disagree

`spdm_requester_fail` is a run that TLC ends with a violation: the comment of
`spdm_device_receive_message` (`main.c:209`) says that it fails for bad
parameters, after the timeout, or for a length.  A response that is in the mailbox
before the receive is taken without `k_sem_take`; its give stays in the
semaphore, and the next receive takes it at once, finds no frame and fails
without having waited.

`ecdsa_fail` is another: `ecdsa_p256_test` (`ecdsa_test.c:208`) compares the r and s
it has signed with the known ones, prints "error r" or "error s", and goes on.  It
verifies the known numbers, prints "p256 test succeed" and returns 0, its caller does
not look, and `main.c:1549` says "ECDSA  test passed!".

The modules state further expectations that the code does not meet.  They are in
no run; TLC refutes each on the instance of the module's run (`ipmb` for `Ipmb`;
`PinsExclusive` without `InTurn`).

| module | property | what happens |
|---|---|---|
| `Ipmb` | `ReadGetsItsAnswer` | the answer to a request that timed out arrives between the next call's purge and its get, and is returned as the answer to the next request |
| `Ipmb` | `RetryKept` | a message put back for a retry is lost if a sender has filled the queue meanwhile |
| `Ipmb` | `ErrorReplyMatchesRequest` | the node-busy reply bears the number of the target bus, not that of the request |
| `Ipmb` | `SweepLeavesNoneExpired` | after unlinking a record the sweep steps over the next, expired or not |
| `Ipmb` | `BrokenListSurvived` | after a failed malloc the next walk follows NULL before it tests for it |
| `Ipmb` | `RegisteredHaveRecord` | an evicted record leaves its number registered |
| `IpmiDispatch` | `MutexErrorMeansLockFailed` | `IPMB_ERROR_MUTEX_LOCK` is returned although no lock failed |
| `IpmiDispatch` | `BridgeGetsMutex` | a handler that is aborted with `mutex_send_res` locked leaves it locked: the IPMB tasks never get it again |
| `IpmiDispatch` | `SetStoresItsByte` | a SET without data stores the byte of an earlier request |
| `UsbShell` | `StopSticks` | a buffered command that takes longer than the 10 ms sleep ends after `shell_stop` and makes the shell active again |
| `UsbShell` | `WorkInitialised` | if the agent is not ready the command is there all the same and submits a work item without a handler |
| `CdcEcho` | `EchoComplete` | bytes that the TX FIFO does not take are not echoed |
| `SpdmResponder` | `ReplyToRequester` | a frame that arrives while another is in work redirects its response |
| `SpdmResponder` | `WholeFrame` | a frame that arrives during the copy leaves parts of two frames |
| `SpdmResponder` | `EveryFrameDispatched` | a second frame replaces the first before it is fetched |
| `GpioEvent` | `BufferNeverFull` | more edges than records reach the assertion |
| `GpioEvent` | `ZeroMeansTimeout` | poll returns 0 at once, and the caller reports a timeout |
| `EchoServer` | `ListenOpen` | a cleanup closes `fwdListenFd`, another setup puts the state back to listening, and the worker polls the copy it made at its start (`echoserver.c:835`, `916`) |
| `GpioFs` | `PinsExclusive` | two threads that want the same pin pass the unlocked test and both get it |
| `GpioFs` | `NonNegativeGivesFile` | the ioctl returns 0 without a file while a close is between free and unregister |
| `Xhci` | `AlwaysOwnEvent` | the second event of a short control transfer completes the next call |
| `Xhci` | `CallReturns` | an event handled before `event_wait` is set is not noticed, and the thread spins for ever |

Exceptions the passing properties make, because the code does:

- `TestTells`: `sm4_ctr_test` of `mbedtls_test` (`main.c:1305`) returns 0 whatever
  happened (`Quiet` in `CryptoTests`).  The numbers r and s of `ecdsa_p256_test`
  may be wrong (`OnlyPrinted`; `EcdsaTells` is what fails), and so may what no code
  compares or uses up (`Unseen`): digests that are only looked at half way (`Peek`), the hash that is
  signed without being compared, signatures of which only the time is measured, and
  all outputs of `mbedtls_throughput`.
- `PassedMeansRight`: `mbedtls_test` on the OTBN hash engine, which has no SHA-224, does not
  look at the result of `test_sha224` (`Excused`); in no other build, and for no other
  function.
- `VerdictTells`: failures of the bulk tests of `mbedtls_hash` do not enter its verdict.
- `WrongOutputReported`: the two devices of `aes256` decrypt into one buffer
  (`main.c:53`), so that a second one that writes nothing leaves the text of the first
  to be compared (`masked`).
- `FwdOpen` is about `fwdFd`, not about the copy of `fwdListenFd` (`ListenOpen` above).
- `ContextsReturned`: functions that never free a context or leak it on an error are
  named (`NeverFree`, `LeakOnError`).
- `SessionsKept`: the shim's cbc decrypt of a packet with the
  vector in front reads 16 bytes too many, which the callers in `aes256` do not
  use; a session is tested and taken without a lock (`crypto_mtls_shim.c:308`),
  and the programs have one thread.
- `ServesAgain` starts when the client has gone: one that stays and says nothing
  blocks all others.  A password given with `-P` for a built-in user is found
  before the built-in one; a receive into a full `fwdBuffer` looks like the end of
  the connection.

## Proofs

Each proof module starts from a component's specification and proves its
invariants for every value of the constants, the code's own sizes included.  The
assumptions on constants are named in the modules that declare them, and TLC
evaluates them on every run: sizes and bounds are naturals and positive where the
code divides or indexes by them (a ring has at least three cells), switches are
Booleans, there is a command (`CmdAssumption`), names of threads and of nobody
differ, flags are among those of the headers.  `CommandAssumption` says that the
duty in a request is a number, as a byte is; `SamplesAssumption` that the tables of
lengths and offsets are lists, of whole blocks for the cipher modes of `aes256`, as
they are in its source.  No other assumption is used, except
the hypotheses stated below where they belong: `InTurn` in `TurnSpec`, `NumbersInTime`
in `TimelySpec`, `Unwrapped` and, for one theorem, `[]TestTells`.

| module | theorem | establishes |
|---|---|---|
| `IpmbProofs` | `SeqTyping`, `CountCorrect`, `SweepIsSafe` | the invariants of the list |
| | `TransportKeepsTypes` | the same and all types under the threads of the transport |
| | `TransportUsesBookkeeping` | `Spec => SeqSpec` |
| | `RepliedAtMostOnce`, `AnswersFindTheirRequest` | `AtMostOneReply`, `ReplyAnswersItsRequest`, while `Unwrapped` |
| | `NumbersStayReserved` | `OutstandingSeqsReserved` of `TimelySpec`, however often numbers come round |
| `IpmiDispatchProofs` | `AnswersInOrder`, `GetsReadAcked`, `SuccessMeansQueued` | `TypeOK` and `RepliesInOrder`, `GetReadsAcked`, `SuccessIsQueued` |
| `IpmiCommandsProofs` | `FlashIsReturned`, `ErrorsAreHarmless`, `SlotsStayApart` | `MuxReturned`, `ErrorChangesNothing`, the action property `SlotsApart` |
| `SpdmProofs` | `ResponderMailbox`, `ResponderAnswersOnce` | `MailboxInv`, `AnsweredOnce` |
| | `RequesterMailbox`, `RequesterInStep` | `MailboxInv` of the requester, `AnswersInStep` |
| `GpioProofs` | `FilesStayBacked` | files, objects and paths, for any requests |
| | `HandlesAgree`, `HandlesApart`, `HandlesOwnPins` | `HandleInv`, `PinsExclusive`, the refinement `PinsAreOwned`, of `TurnSpec`: for threads that want the same pins |
| | `NoWakeupLost`, `NewestRecordTellsLevel` | `EventInv`, `NewestTellsLevel` |
| `UsbProofs` | `CdcTyping`, `FlowControlled`, `NeverWedged`, `BytesKeepOrder` | `TypeOK`, `FlowControl`, `NoWedge`, `Ordered` |
| | `RingTyping`, `RingCorrect`, `ExecutedInOrder` | `RingInv`, `InOrder` |
| `XhciProofs` | `EventsHandledInOrder`, `CallReadsOwnEvent`, `RingsHaveRoom`, `ControlEndpointRecovers` | `EventsInOrder`, `OwnEvent`, `RoomInRings`, `ControlRecovered` |
| `SamplesProofs` | `ConsoleHasOneOwner` | `OneOwner` |
| | `TriesAreLimited`, `ForwardIsOpen` | `LoginLimit`, `FwdOpen` (of `fwdFd`) of the SSH server |
| | `SessionsAreKept`, `WrongIsReported` | `SessionsKept`, `WrongOutputReported` of the cipher programs and the shim |
| | `VerdictIsTrue` | `VerdictTells` of `mbedtls_hash`; with the last, `FaultsAreReported` |
| | `PassedIsRight` | `PassedMeansRight` of the test programs, where `TestTells` holds |

**`IpmbProofs`, the list**.  `SeqInv` is the conjunction of `SeqTypeOK`,
`CountMatchesRing`, `CursorOnList` and `AgeOrder`.  None of the first three is
inductive alone: the counter stays in its type only if it is the length of the
list, since it is decremented where a record is unlinked; the sweep unlinks at
its cursor, which must therefore be on the list; and the cursor's type is bounded
by the counter's.  Lemmas state what `RemoveAt` and unlinking leave; there is one
step for each action.

**`IpmbProofs`, the threads**.  `TransportInv` adds the types of the threads'
variables, and what these rest on: a message that is tried or queued again has a
try left, a caller's message has not been tried, what RX delivers has a record.
From it every step of `Ipmb` is a step of `SeqNext` or leaves the list's variables
alone, so `Spec => SeqSpec`.

**`IpmbProofs`, whose answer an answer is**.  `AtMostOneReply` and
`ReplyAnswersItsRequest` say that requests are not confused.  `Identity` follows a
request through the places it
can be in: its caller, `ipmb_txqueue`, the hands of the TX task, the list, the
device, the record RX has taken.  `Stages` says which of these exclude each other
and that what can still be answered has not been; `Agree` that frames with one
sequence number or one request are the same frame, so that the record found by
command and number is the frame's own; `InRange` and `Counted` that numbers are
handed out in order, at most one for each request; `Genuine` that a record keeps
the number of the other bus.  A step either lets places shrink (one lemma,
`PlacesShrink`) or moves one request to the next place (`Moves`); only a new
request and `get_free_seq` add something.  All this holds as long as `Unwrapped`:
fewer requests have been made than there are sequence numbers (64).  The
hypothesis is needed and not a weakness of the proof: with 2 numbers and 3
requests TLC finds both violated, since a number that an expired or
cleared record gave back is given to a later request while the device still holds
the frame of the first.  TLC has checked `Identity` on the instance of the run
`ipmb` (4.5 million states).

**`IpmbProofs`, numbers that come round**.  `NumbersStayReserved` does without
`Unwrapped`: requests are any number and numbers are used over and over.  `TimelySpec`
excludes one thing, that `get_free_seq` is called when every number is registered or
comes to a number whose request is still in flight before the list (its caller's,
`ipmb_txqueue`'s or the TX task's); with 64 numbers and a queue of one the code relies on
that.  `Numbers` then says that the requests in flight have numbers different from each
other and from those on the list (but for the one that is recorded and being written), and that the list's numbers are registered and
different; so a number is registered while its record is on the list, and a record
that is taken off gives back no other's number.

**`IpmiDispatchProofs`**.  `QueueInv`: what is answered, what is handled, what is
queued and what a producer still has in its call are its messages in this order,
the handler's message is the dispatcher's, and who sends has the mutex.
`EnablesInv` adds that the stored byte is that of the last SET acknowledged, of one
whose acknowledgement was lost, or of the one that is about to be acknowledged.

**`IpmiCommandsProofs`**.  For each handler, `Careful` or an instance of `Sound`
bounds its results: an error leaves the device as it was, but for the two commands
the property names, and a success changes the reservations or duties of the
sender's slot only.  `CommandsInv` then holds while a command is in progress, too.

**`SpdmProofs`**.  Responder: the mailbox holds the newest frame; what has been
answered is older than what main works on, and that is older than what is pending.
Requester: without messages sent unasked, either the answer to the request of the
current step is owed or it is in the mailbox.

**`GpioProofs`**.  `PoolInv`: a thread that closes has left `gpio_lock` but still
keeps its object from the allocator, by its chip pointer or its path alone.  It
holds for any requests.  The test of `pin_mask` is made before the lock is taken,
so that two threads that ask for one pin may both get it (see the table above).  `TurnSpec`
leaves out this and nothing else: threads may want the same pins, find them open and ask
again, but of two that are between test and mark the requests have no pin in common
(`RequestsApart`).  Then a request that has passed the test stays unmarked until its turn
(`RequestsUnmarked`), and this makes `HandleInv` inductive and every step a step of
`PinOwner`.  `EventFileInv`: the signal is reset only behind
a test that has found a record.

**`UsbProofs`**.  That lifting the throttle enables the interrupt rests on flag
and enable bit being opposite, and that the ring buffer is not empty while
throttled rests on the TX half lifting the throttle whenever it takes bytes.  For
the order of the bytes each of the four buffers is increasing and before the next.

**`UsbProofs`, the ring**.  `RingInv` says that the cells before the write index hold
this lap's TRBs with the driver's cycle bit and the others the last lap's with the
other bit; that the controller's cycle state tells in which of the two laps it
is, and its index then which TRB is next; and that memory is what the driver
wrote, but for the link TRB between its toggle and the next flush.  That the
controller executes the next TRB needs all three: the bit it compares, the number
in the cell, and that the cell it reads is current.  `Room` is an assumption of
`Enqueue`; `RingsHaveRoom` is the ground for it (at most six TRBs in a ring of 32,
which leaves room for 30), as long as no control transfer has a short packet.

**`XhciProofs`**.  `EventRingInv`: the cycle bits of the cells tell the
controller's lap, the driver's cycle bit which lap the read index is in, and the
numbers of the events follow the last one handled.  `SubmissionInv`, as long as no
control transfer has had a short packet: of the current submission there is one
command, or one transfer in the ring of a running endpoint, or one unhandled
completion, or its event is in `evt_trb`, or it will never come; and nothing of
an earlier submission is on its way.

**`SamplesProofs`**.  Every image has an invariant of its own, and a step of another
image leaves its variables alone.

- Console: while the handler of the way out sleeps the backend is suspended,
  and without the set-up no work item is queued.
- SSH server: `LoginInv` says that during a login `passwdRetry` is three less the
  wrong passwords of this connection, and that who is served had fewer than three.
  `ForwardInv` says that the descriptor is open from the accept or the connect on.
- Cipher programs (`CipherInv`): `PoolInv` says between which steps of a round a
  session is taken, and by whom; `ReportInv` that what is wrong so far has been
  logged or is in a buffer that a comparison ahead will look at, which is why
  the two ciphertexts are cleared between rounds; `HashInv` that a started context
  has taken in the pieces since the last digest, and that two contexts have two
  sessions; `BufferInv` that every packet of every mode function fits.  The lengths
  are any list of whole blocks; the pool and the number of contexts are free.
- `mbedtls_hash` (`SuiteInv`): `InSuite` says of each call that what the comparison
  after it looks at is the digest of the same bytes or wrong, and that a fault main
  has not heard of is in the buffer the next comparison looks at; `InCall`
  that the context holds the bytes before `off`.  This rests on the shape of the
  lists of calls (`Shape`, `Block`: what is not compared is compared with by the
  next call, and every comparison is between digests of the same data), and on
  pieces that are cut to what is left.
- Test programs (`MainInv`): a function that something went wrong in has left a
  mark in main's counters, or `mbedtls_test` has stopped; and "passed" is said of
  counters that are 0.  The one function whose failure may leave none is
  `test_sha224` in the builds of `Excused`.  Lemmas show of each list of calls that every
  other failure is counted, stops or hangs the program (`Handled`).  The theorem takes
  `[]TestTells` as its hypothesis: what a function returns is a matter of its instructions,
  which TLC goes through.  "Went wrong" has the sense of `TestTells`, exceptions included.

`TurnSpec` and `TimelySpec` are the specifications of the runs `gpio` and `ipmb_wrap`;
`Unwrapped` is a definition of `IpmbProofs`, and the instance of the run `ipmb` satisfies it.  Some theorems
(`SeqTyping`, `CdcTyping`, `FlowControlled`, `RingTyping`, `RingCorrect`, `TransportKeepsTypes`,
`TransportUsesBookkeeping`, `FilesStayBacked`, `HandlesApart`, the two mailboxes,
`NoWakeupLost`, `SuccessMeansQueued`) are about definitions that no run lists.

Only model-checked:

- all liveness (`SweepEnds`, `ReadReturns`, `ExpiredLeave`, `QueueMoves`,
  `MailboxEmptied`, `FlowEnds`, `RecordsRead`, `Drained`, `RingDrained`, `WaitEnds`,
  `ServesAgain`), which needs fairness and ENABLED;
- `FunctionsSound` (`TestTells` and `ContextsReturned`) of the test programs: it is about lists of
  instructions that `CryptoTests` writes out and unrolls with recursive operators of
  the library (`FlattenSeq`, `FoldLeft`), so that a proof would need induction over
  data and then walk through each program as TLC does;
- `AtMostOneReply` and `ReplyAnswersItsRequest` on a state that is not `Unwrapped`, and
  `OutstandingSeqsReserved` outside of `TimelySpec`: they do not hold there.

## Hazards without a property

- `xhci.c:95`: the handler spins until a port reset completes; ports are not
  modelled.
- `gpio_fs.c:85`: the mutex is a static object that is never initialised; what a
  contended lock does then depends on the kernel's build.
- `xhci.c:636`: a ring is allocated and lost when the endpoint runs already; the
  heap is not modelled.

Where the code does not keep what one would expect at a hazard (the table above),
`PROJECT.json` names the property that remains true there.

## Plan

Done, in this order: `IpmbSeq` with its proofs, `Ipmb`, `CdcEcho` with its proofs,
`SpdmResponder`, `GpioEvent`, `GpioFs` over `PinOwner`, `IpmiDispatch`,
`SpdmRequester`, `XhciRing` with its proofs, `Xhci`, `IpmiCommands`, the response
path in `IpmiDispatch`, `EchoServer`, `HashSuite`, `Cipher`, `CryptoTests`,
`UsbShell`.

Proved since: `SpdmProofs`, `GpioProofs`, `UsbProofs`, `IpmiDispatchProofs`,
`XhciProofs`, `IpmiCommandsProofs`, `Ipmb` in `IpmbProofs`, and `SamplesProofs`.

Left to prove:

1. `CryptoTests`: `TestTells` and `ContextsReturned`, from a lemma for each
   function.  The loops would have to be written as functions on indices, as
   `TestLoop` is.
2. `Ipmb`: a weaker hypothesis than `Unwrapped` for the two theorems that still have it,
   that a number is not handed out while a frame that bears it is outstanding, as
   `NumbersInTime` says of the part up to the list.

Left to model:

1. `IpmbCodec`: `ipmb_encode`, `ipmb_decode` and the two checksums as functions on
   short byte sequences modulo 256, with the round trip as the reference.
2. `Xhci` over instances of `XhciRing` instead of queues; slots, so that the
   allocation and the address command become actions; the port registers.
3. `spdm_secret.c`: subscriptions that outlive their session, and key pair data
   beside the copy that libspdm was given; the host tester's transcripts.
4. The mailbox exchange and the shared eMMC between cores.
