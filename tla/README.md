# CUsbEnet in TLA+

CUsbEnet is a kernel-level USB Ethernet driver for the Xbox 360.  It hooks the
console's NIC exports, hands frames to and from a USB adapter of one of four
chipset families, and has to live with three processors' worth of DPCs, user
threads at any IRQL, an adapter that fails, and a console that shuts down under
it.  It has no tests.  This directory models its concurrent core, checks the
model with TLC, and proves the most important invariants with TLAPS for every
value of the constants.

Paths below are relative to `src/CUsbEnet/`.

## 1. The system

### Components

| component | state | operations | interacts with |
|---|---|---|---|
| **Transmit path** (`CUsbEnet.cpp`) | ring of packet descriptors (`XmitPackets`, 80), pool of trackers (`XmitTrackers`, 64) with flags WAITING / QUEUED / BUSY, `PendingXmitCount`, `ActiveXmitCount` | `NicXmit`, tracker DPC, `CompleteTransmit` and its refill loop | framing of the backend, USB bulk-out endpoint, users |
| **Transmit framing** (four backends) | none | `AppendTransmitFrame` and the sizes around it | transmit path |
| **Control channel** (`CUsbEnet.cpp`) | one `ControlRequest`, `ControlEvent`, flags CAN_USER_TRANSFER / TRANSFER_IN_PROGRESS / ACTIVE | queue, DPC, complete, prepare and wait of user threads | backends, option calls, USB default endpoint |
| **RTL8153 backend** (`Rtl8153.cpp`) | init stage, runtime operation, pending MAC / filter / link-poll requests, PHY flags | `AdvanceInitStage`, `CompleteRegisterOperation`, runtime requests, timer, link interrupt | control channel, users' options |
| **AX88178 backend** (`Ax88178.cpp`) | init stage, serial-management ownership, filter update, recovery level, drain and replay | the same, plus a software/hardware handover of the PHY bus and transport recovery | control channel, receive ring, interrupt pipe |
| **AX88179 / AX88179A backends** (`Ax88179x_178A_772D.cpp`) | init stage, link-reset stage and retries, interrupt status, recovery | init table, link reset after each link-up, transport recovery | control channel, all pipes |
| **Users and callbacks** (`CUsbEnet.cpp`, `CNicUser.h`) | user list, aggregate filter, CALLBACK_IN_PROGRESS, link-callback flag, NOTIFY_LINK_STATE, receive ring | attach, detach, receive delivery, link notification | hooks, backend filter, bulk-in endpoint |
| **Lifecycle** (`CUsbEnet.cpp`, `UsbEnet.cpp`, `Hooks.cpp`, `Main.cpp`) | `DeviceAttached`, STOPPING, RESETTING, endpoint handles, DMA memory, `DeviceNode` | add, init, remove, EHCI shutdown, unload, chain of asynchronous closes | USBD, everything else |
| **Receive ring** (`CUsbEnet.cpp`) | `InFlight` per request, `ReceiveRunning` | submission, completion, stop and restart | users, recovery |
| **Interrupt pipe** (`CUsbEnet.cpp`) | in-flight and paused words | start, pause, completion | link state, recovery |
| **Receive parsers** (four backends, `CUsbEnet.cpp`) | the parse context of one completion; on the AX88179 classes the words that detect a stale stream (`m_Rx...`) | `InitializeReceiveParser`, `GetNextReceiveFrame`, the loop of `CompleteReceive` with the SNAP conversion | receive completions, recovery |
| Hooks, plug-in start-up, re-enumeration, detours, statistics | | | kernel |

All driver state is under one spin lock, `NicLock`.  A handler that takes it
once is one action.  A handler that drops it (to wait, or to call a user) is
split where it does.  USB completions are DPCs on one processor, one after the
other (processor 2 below), the tracker and control DPCs are queued to another,
the timer fires on any, `NicXmit` runs anywhere at any IRQL, option, attach and
detach calls are PASSIVE_LEVEL threads.

### What is hard in it

* **Several schedulers for one tracker.**  `NicXmit` (directly, or by way of a
  DPC), the DPC and the refill loop of a completion all submit.  Each has its
  own view of the flags and the limits.
* **State read off reused memory.**  The class of a tracker and its frame
  count are read off descriptors that other submissions release.
* **One event for two purposes.**  Turn and result of a user control transfer
  share `ControlEvent`, and every internal request goes through it too.
* **Callbacks without the lock**, with two flags in its place.
* **One extension, one close request, three closers** (removal, shutdown,
  unload), plus the close that a failing `Init` starts.
* **Requests that overtake each other**: a filter or address changes while the
  value before it is on its way, and transfers fail in between.
* **Recovery beside everything else.**  A reinitialization pauses the
  interrupt, cancels and drains what is in flight and replays init, while
  completions that were on their way start transfers again, users call, and a
  receive completion is out of the lock in its callbacks.

`PROJECT.json` lists the hazards one by one, each at its line, with the
properties that would catch it.

### What makes each component correct

* Transmit: an accepted frame leaves exactly once; USB never gets a tracker
  twice or more transfers than the limit; nothing is stranded; debug traffic
  keeps its reserved transfer; releasing a tracker's descriptors releases
  exactly its own.
* Control: a completion belongs to the operation that asked; no call hangs; a
  result is ready when a thread is let through to it.
* Backend: what the driver was last asked for gets into the adapter, despite
  failures; the address is only written in config mode.
* Users: callbacks exclude each other; none after detach; each link change is
  delivered; the filter is exact.
* Receive ring and interrupt pipe: no request is lost or given out twice while
  reception stops and starts; the interrupt outlives every pause.
* Receive parsers: whatever a transfer holds, reads stay inside it and the loop
  ends; of a proper transfer every good frame is delivered; a stale stream is
  noticed, and nothing else is taken for one.
* Recovery: the replay meets a quiet adapter; drain and replay come to an end.
* Lifecycle: one close chain; memory freed last; extension freed once; every
  removal and shutdown comes to an end.

## 2. Modules

| module | models | state and actions |
|---|---|---|
| `UsbEnetFraming` | sizes and `AppendTransmitFrame` of the four families | pure operators over lengths; `Chipset` is a constant |
| `UsbEnetXmit` | transmit path | `tx` is the device extension's transmit fields as one record; `refill` is a completion that holds the lock between two iterations of its loop; `closing` is RESETTING or STOPPING. Actions: `NicXmit`, `BulkXmitSwitchProcs`, `CompleteTransmit`, `ScheduleReadyXmitTrackers`, `BeginClose` |
| `XmitService` | what the transmit path promises | frames `held` and transfers on the `wire` |
| `UsbEnetControl` | the control channel | operators from device record to device record; no variables of its own |
| `Rtl8153` | RTL8153 backend, composed with the control channel and user threads | `dev` (flags, request, event, init stage, runtime requests), `pc`/`op` per thread, `regs` and `link` of the adapter |
| `Ax88178` | AX88178 backend without transport recovery, composed with the control channel | `dev` (flags, request, init stage, the one kernel timer, PHY transaction, filter update, link), `regs` and `link` of the adapter. Actions: a request succeeds or fails, the pause timer, the running timer, the interrupt, user calls, close |
| `Ax88178Recovery` | transport recovery of the AX88178 with the receive ring, the interrupt pipe and receive callbacks | `dev` (ring, control request, filter update, interrupt words, recovery), `pc` of processor 2 and the request it works on. Actions: the completion of each pipe and of each kind of control request, the return from callbacks, the resubmission of the interrupt without the lock, the timer, users' calls, close |
| `Ax88179` | both AX88179 classes: init table, link reset, link state, filter, address, recovery; composed with the control channel | `dev` (flags, request, stage, link reset, interrupt status, recovery, timer), `regs` and `cable` of the adapter. Actions: a request succeeds or fails, the two timers, the interrupt, transfers of the pipes end or fail, time passes, user calls, close |
| `UsbEnetUsers` | users, receive delivery, link notification | flags, list, a program counter per DPC context and per user thread, the receive ring |
| `UsbEnetClose` | lifecycle | `dev` (flags, handles, memory, node, outstanding closes), USBD's view of each node, what each agent does next |
| `UsbEnetReceive` | the parsers of all families and what surrounds a parse | `context` (position, end of packets, table), `contents` of the buffer, `frames` offered to users so far, `desync` (the stale-stream words), `ring` (requests with USB, drain, replay), `pc` of `CompleteReceive`. Actions: a completion with an intact, damaged or stale transfer, one header, a callback returns, a cancelled request completes, the timer's restart, drain, replay and timeout, a filter change |
| `UsbEnetXmitProofs`, `UsbEnetUsersProofs`, `Rtl8153Proofs`, `Ax88178Proofs`, `Ax88179Proofs`, `Ax88178RecoveryProofs`, `UsbEnetCloseProofs`, `UsbEnetReceiveProofs` | theorems, section 5 | |
| `MC...` | constants for TLC | |

The helpers of the transmit path are operators on the record `tx`, so that an
action can apply them in the order in which the code calls them (`NicXmit`
closes one tracker, opens the next, fills it and submits it in one step of the
lock).  `UsbEnetControl` is written in the same style, and `Rtl8153` and
`Ax88178` call it as the backends call the driver.

Recovery is in two modules for a reason.  What decides it
for the AX88178 is the overlap of processor 2, which leaves the lock in
callbacks, with the timer; `Ax88178Recovery` has the ring request by request
and shrinks init to a first and a second half.  For the AX88179 it is the
overlap of drain and replay with link resets, polls, addresses and filters;
`Ax88179` has the whole table of init and link-reset stages and takes a pipe as
in flight or not.  In `Ax88179` the two classes are one model: a definition that
is not named for a class is the same in both, and the tables and the few
conditions on `generation` are what differs.  One handler differs in its steps:
the AX179A class reads the init stage before it takes the lock in the completion
of a PHY write (line 2878), so that its completion is two actions,
`BeginCompleteWritePhy` and `SucceedRequest`, between which a timer, a user or
the interrupt may come.

`Ax88178` is the backend in which everything meets in one function: any
completion may end a PHY transaction, and `FinishPhyTransaction` decides from
the init stage, a patch, the LED step, the Realtek step and two link flags what
comes next, which is often the next init stage and its first request.  The
module follows that: the stages are operators `Enter...` from device record to
device record, defined from the last to the first because a stage that cannot
queue its transfer runs on into the next in the same step.  A request goes
straight to its completion; the control DPC between them only submits it, or
cancels it when the device closes, which is `FailRequest` with the registers
unchanged.  The kernel has one timer for the device, so arming it replaces the
DPC it was armed with.

`UsbEnetReceive` takes bytes away and keeps positions.  A header is a record
(length, good or not, kind of frame); a transfer that is as the adapter laid it
out has its headers at the offsets where the adapter put them, and everywhere
else, and in every other transfer, reading a header returns any record.  A
parser that loses its step therefore reads anything at once.  The layout is the
adapter's and is marked external: it is what the parsers of the source presume.
The end of the packets and the start of the table are one field (`dataEnd`),
since the code computes both from the same word.  The parsers differ in four
small operators (`HasHeader`, `Consumed`, `Rejected`, `Skipped`); the loop
around them is one for all.  A frame in `frames` went on to the users' filters;
whether a user took it is the business of `UsbEnetUsers`.

Operators marked `mutant` in a comment are variants of the definition after
them with one plausible mistake.  They are used by no specification; each
shows that one property of a run notices that mistake.

Data are abstracted: a frame is an identity, a user and a length; a received
frame is the destination class it falls into; a register value is a symbol;
init stages that only transfer one more register are one stage (`InitStages`
in `Rtl8153` keeps each stage that waits, polls, branches or writes one of the
registers a property is about; in `Ax88178` the four GPIO writes and two resets
are one stage with one pause, and the three PHY advertisement writes are one).
A link is up or down (in `Ax88179`, down or a speed, which decides the medium
mode); duplex is left out, and a read of the link registers may besides report
news that do not change it.

### Ghosts and histories

`addressOvertaken` and `filterOvertaken`
(`Rtl8153`: a change came while the value before it was on its way),
`told`, `addressLost`, `nodeIdFailed`, `hashLost`, `pageLost` (`Ax88178`: the link state
users were told of, and which kind of request was dropped or failed), the same
kind of marks in `Ax88179` (`rxLost`, `startLost`, `addressLost`, `retryLost`,
`mediumStale`), `restarted` and `disturbed` (`Ax88178Recovery`: the ring was
started during a drain; a PHY transaction that is not its own ran during a
replay), `invalidRun` and `forgotten` (`UsbEnetReceive`: how many transfers in a row
were invalid, counted by the model's own rule and not by signatures; the mark of
a stale stream was taken away without a fresh start),
`failed` and `raced` (`UsbEnetClose`: an `Init` failed; a thread closed on a stale
`DeviceAttached`), `seen` (`UsbEnetUsers`: the link state a user was told
last).  No guard depends on them, except that `failed` bounds the failures.

## 3. Runs

| run | question | bounds | result |
|---|---|---|---|
| `xmit_ax88178` | scheduling, limits, walk, separation of users, refinement of `XmitService`, with aggregation and terminators | 2 users, 3 packets, 3 trackers, 4 frames, lengths 60 and 508, limits 2 and 1 | holds |
| `xmit_ax179a_retail` | framing that pads, a buffer the frames just fill, retail title user; draining | 2 packets, 3 trackers, 3 frames, lengths 60 and 504 | holds |
| `rtl8153_runtime` | init and runtime requests with failures | 1 thread, 2 registers, 2 addresses, 2 filters, 1 fault, 2 changes, 1 poll | holds |
| `ax88178` | init, PHY transactions, vendor setup, filter, address, link with failures and dropped requests | 1 address, 2 filters, 3 EEPROMs, user PHY calls of 1 register, 2-write patch, 1 retry, 2 events (failures, user calls, link changes, restarts, close) | holds (360,762 states) |
| `ax88179` | init, link reset, polls, filter, address and recovery of both classes | both classes, 1 address, 1 filter, 1 speed, 1 PHY retry, 1 FIFO retry, error thresholds 2 and 3, 1 fault and 1 call | holds (390,840 states) |
| `recovery` | drain and replay beside receive callbacks, the interrupt pipe, filter writes, the timer | 2 receive requests, error thresholds 2 and 3, 3 faults, 1 call | holds (81,174 states) |
| `receive` | parsers of all families on intact, damaged and cleared transfers; detection and end of a stale receive stream | 2 packets of lengths 0, 17, 46, three damaged lengths, four trailers, 2 requests, streaks of 2 and 3, 2 calls | holds (118,363 states) |
| `users` | attach, detach, receive, link notification | 2 users with overlapping masks, 2 contexts, 2 requests, 2 link changes, 3 attaches | holds |
| `close` | add, failing `Init`, remove, shutdown, unload | 2 nodes, both threads, 1 failure | holds |
| `xmit_rtl8153_walk`, `rtl8153_two_users`, `close_failed_init` | three statements of comments and assertions | as above | violated, see section 6 |

### The bounds, and why they are enough

*Transmit.*  Two users of different classes are all the classes there are.
Three packets and three trackers are the fewest with which a ring is skipped
and wraps, one tracker is with USB, one waits, and one is open.  Four frames
fill the packet ring and leave one that meets it full.  Length 60 is immediate
(below `DebugImmediateFrameSize`).  508 with the AX88178 header is exactly
512, one USB packet, so that terminators appear alone and in aggregates; two
such frames reach the submit threshold.  504 on AX179A is 512 with its
descriptor: two of them just fill the buffer of 1024, so that their
terminator has no room, and appending the second must be refused.  The limits 2 and 1 keep the relation `MaximumTitlePendingXmitCount =
MaximumPendingXmitCount - 1` of the source.  The ring is exercised beyond its
size because frames are reused when they have left.

*Control and RTL8153.*  One user thread races every internal request; a second
one breaks `PhyResultIsOwn`, which has a run of its own.  One fault hits each
of the transfers in some behaviour, and its retry; two changes are enough for
one to overtake the other.  1000 polls are one poll: the only thing counted is
whether the bound is passed.

*AX88178.*  The events are everything the environment may do beyond answering:
a failed request, a user's PHY call, an address or filter change, a link
change, a restart of reception, the close.  Two of them are every pair, at
every point of init and after it: a failure that meets a user call, a filter
change that meets a restart, an address that comes in a pause.  The patch has
two writes (a first and a last), the PHY is retried once before the limit is
reached, the cached registers end at 2 so that a read of all goes through the
first, a middle and the last.  The user's register is the status register, the
one whose value drives the link state.  The run is a retail console; the
devkit's second address takes the same path through `WriteNodeId`.

*AX88179.*  One fault is a failed request, a row of up to three transport
errors (so that each level of recovery is reached by one fault), a transmit
timeout, a silence, or stale data; one call is a user's PHY access, a new
address or filter, a change of the cable, or the close.  Each pair of them meets
at every stage of the init table, the link reset, the drain and the replay, in
both classes.  The title address is there from the start or comes later.  PHY
retries and FIFO retries of one are a last try and one before it.  What one fault
leaves out is a second transport error during the drain that the first one
began: two faults do not finish in minutes.  `ReplayQuiescent` and
`InitNeverStalls` are theorems for any number of faults; for `Settles` the second
error stays unexplored here, and `recovery` has it for the other family.

*Recovery.*  Two receive requests are one in callbacks and one elsewhere.
Three faults are a level of recovery each with thresholds of 2 and 3: two
errors reinitialize, the third may come during the drain, the replay, or before
the tick that acts on the level.  With two calls the same properties hold
(305,000 states, three minutes).

*Receive.*  Two packets are one that stands behind another's padding: 17 needs
padding in every family, 46 in those that pad to 8, 0 is the empty packet, and
46 less the four bytes of FCS is the shortest frame that passes (42).  The
damaged lengths end before any header, behind the packets and on the buffer's
end; the trailers' tables fit exactly, loosely and not at all.  The streaks 2 and
3 stand for 4 and 256 of the source: what matters is that the mark needs the
streak to equal the first and the escalation to have reached the second; with 4 and 6 and three
calls the same properties hold on transfers of one packet.  Two calls are the
stall itself and one restart, filter change or reinitialization beside it, or two
of these without it.  Two requests are one being parsed and one with USB.

*Users.*  Two users overlap in one destination.  Two contexts are the receive
completion and one other that finds link changes.  The copy of the user list
is limited to 16 in the source and to 2 here, both more than the users there
are (a run with a limit of 1 makes `LinkStateDelivered` fail, as the code
does with more than 16 users).  Three attaches let one user leave and return.

*Lifecycle.*  Two nodes are one device and its successor; with three nodes the
same properties hold (98 s).  One failing `Init` opens from none to all of the
endpoints.

`CHECK_DEADLOCK FALSE` everywhere: a closed device has nothing left to do, and
the bounded counters of changes run out.

### Fairness

* Transmit (`xmit_ax179a_retail`): the kernel runs queued
  DPCs, USB completes each transfer (with success or failure), a completion
  that has the lock finishes its loop.  Nothing is assumed of `NicXmit`.
* RTL8153: weak fairness of the control DPC, of the completion of a transfer
  (good or bad), of the one-second timer and of the thread's steps.  Strong
  fairness of `TurnTaken`: a woken thread competes with the timer's next
  request for the lock, and the timer asks once a second.
* AX88178: every request completes (well or badly), the pause timer and the
  running timer fire, the adapter goes on sending its interrupt.  Strong
  fairness of a tick with nothing to do, and of one that finds the five-second
  fallback due, with the channel free: a transfer takes milliseconds and the
  timer at least 200 of them, so PHY polls do not fill every gap.  Failures,
  restarts and user calls are never assumed.
* AX88179: every request completes, both timers fire, the adapter reports its
  link, the PHY negotiates, the clock goes on.  No transfer of a pipe need ever
  complete: the timeout of the drain makes up for that.
* Recovery: callbacks return, the window without the lock ends, the pause timer
  fires.  Strong fairness of the completion of a control request, of a receive
  request while reception is off and of a transfer during a drain: processor 2
  takes its DPCs in order, so that one that is due is not passed for ever by
  others.  Strong fairness of a quiet tick without a poll, as for the AX88178.
* Receive: parses and callbacks go on; a stalled adapter goes on filling buffers
  (a healthy one need not send anything); cancelled requests complete; a replay that began ends.  Strong fairness of the start of reception
  and of the drain's timeout: both wait for `CompleteReceive` to be idle, which
  on processor 2 is the gap between two DPCs.
* Users: callbacks return, DPCs run on, and a receive buffer is finite
  (`SF` of leaving the receive loop).  Strong fairness of a detach: it polls
  every millisecond, and no callback runs for ever.
* Lifecycle: USBD completes every close, threads run on.

Adding and removing devices, sending, attaching, changing filters and
addresses, and faults are never assumed to happen.

## 4. What the properties say

Each module has a type invariant `TypeOK`.  It is a theorem in `UsbEnetXmit`,
`UsbEnetUsers`, `UsbEnetClose`, `Ax88178Recovery`, `UsbEnetReceive` and `Ax88178`
(where it says that no way through init passes its last stage), and the first
conjunct of `OperationOwnsRequest` in `Rtl8153`, of `RequestsOwned` in `Ax88178`
and of `PhyFlagsOwnRequest` in `Ax88179`, theorems too.

*Transmit.*  `ScheduledOnce` and `PendingBounded` make the three submitters
agree.  `NoStrandedTracker` is the absence of a lost wakeup: with the lock free
and the device open, frames are held only while a transfer or a DPC is
outstanding, and a tracker waits only while title traffic has its transfers used
up; `Drains` is the same as a liveness property.  `WalkMatchesBuffer` compares
what the descriptor walk finds with what was copied to the DMA buffer.
`UsersKeptApart` is about contents, not about the descriptors from which the
code decides: no transfer mixes users, and title traffic never takes the
transfer reserved for debug traffic.  `AppendFits` covers every length the model
knows at every reachable offset.  `EachFrameSentOnce` is the refinement of
`XmitService`: `held` maps to the frames in trackers not with USB, `wire` to the
set of contents of those that are.

*Control and RTL8153.*  `OperationOwnsRequest`, `AddressWrittenInConfigMode`, `CallReturns`, and `Settles`, which says that the
adapter ends with the filter, address and link state last asked for.  `Settles`
excludes by name the two cases in which the driver forgets a request (it came
while the value before it was on its way); both are listed as hazards.

*AX88178.*  `RequestsOwned` has three parts beside the types.  No failed or refused request
leaves the PHY marked busy; the PHY is never read or written while the hardware
has the MII bus; and the assertions of the completion routines hold, each
request belonging to the stage that asked for it, although the end of a user's
PHY call also advances init.
`InitNeverStalls` says that whatever is dropped or fails, somebody goes on,
with the one exception of a failed read of the node ID, after which the code
just returns.  `PageRestored` is about the Realtek pages.  `Settles` says what
a running adapter comes to rest with, and names what the driver does not do: a
node ID whose write was dropped is not written again (`Ax88178.cpp:824` only
asserts), a hash write that failed after it took effect leaves the driver's
copy behind the adapter, and with a PHY that was left on another page the link
registers mean nothing.

What the fairness had to say is as telling: until a first interrupt has come,
every tick polls the PHY, and a filter change deferred to the timer can wait
for as long as those polls occupy the channel; and a link-down interrupt that is
missed is not made up for by the fallback poll, because the next tick believes
the last interrupt.  The run assumes that the adapter keeps reporting.

*AX88179.*  `PhyFlagsOwnRequest` covers the link reset too: a stage left behind
would refuse every later link reset.  `ReplayQuiescent` says that between the
drain and the start of reception nothing but the replay's own requests is on its
way.  `InitNeverStalls` names the reasons for which init does stand still
(section 8).  `Settles` joins two questions: every reinitialization ends, in a
ready device or a device reset, and a ready device has what was last asked for.

*Recovery.*  `RingAccounted`: while reception is on, each receive request is
with USB or being processed, and none is handed out twice or under a running
callback.  The one exception is a restart by the timer in just that moment with
the control request taken, at which a debug build stops (section 8).
`InterruptAlive`: with no recovery on, the interrupt is with USB or about to be.
`ReplayQuiescent` as above.  `Settles` says that drain and replay end with
reception on, except for two kinds of disturbance that the code does not guard
against, both marked by ghosts; without either exception TLC finds the
counterexample.

*Receive.*  `FramesApart` and `ReadsInTransfer` are about transfers of any
contents: frames are whole and apart, so that the SNAP conversion, which
rewrites eight bytes in place, touches no other frame and no header still to be
read; and the table of the AX88179, checked only as a whole, is never overrun,
even when a replay clears the memory under the parse.  `IntactDelivered`
compares the frames delivered with those the adapter sent, through an
independent definition of the layout (`FramesSent`).  `ParseEnds` needs every
record to move the position.  `DrainJustified` ties the mark of a stale stream
to a count of invalid transfers that the code does not keep.  `StallEnds` has
one exception: a restart that met a busy control channel took the mark away
when the streak was already complete (section 8).

*Users.*  `CallbacksExclusive`, `NoCallbackAfterDetach`, `FilterIsUnion`,
`LinkStateDelivered`, `DetachReturns`.

*Lifecycle.*  `OneChain` (one close outstanding, the extension freed once),
`BuffersOutliveEndpoints` (DMA memory is freed after the last endpoint is
closed, and `Init` starts on an extension without endpoints and memory),
`AnswersOwnNode` (the end of the chain reads the node after it has returned the
extension, and until it has answered no other device is in it) and
`RemoveCompletes` hold for behaviours that are `Sound`: no `Init` failed, and no
thread closed on a stale `DeviceAttached`.  Those two
exceptions are real and are reported (`close_failed_init`, and a hazard at
`CUsbEnet.cpp:1681`); naming them shows that nothing else breaks the close.
`PowerDownCompletes` holds without them.

## 5. Theorems

`tlapm` checks every proof to its leaves; nothing is assumed but the named
assumptions on constants (`FramingAssumption`, `XmitAssumption`,
`ControlAssumption`, `RequestAssumption`, `Rtl8153Assumption`,
`Ax88178Assumption`, `Ax88179Assumption`, `UsersAssumption`, `RecoveryAssumption`, `CloseAssumption`,
`ReceiveAssumption`), which TLC evaluates on the instances, and the hypotheses a
theorem states.

**Transmit** (`UsbEnetXmitProofs`).  Everything the runs check about safety is
proved, for any number of packets, trackers, users and frames, any limits and
any buffer size, in three layers.

`TypeCorrect`, `NeverScheduledTwice` and `NeverOverCommitted` prove `TypeOK`,
`ScheduledOnce` and `PendingBounded` for any chipset.  None of the three is
inductive by itself: that a submitted tracker is new to `busy`, and so counts,
needs the partition of the scheduling flags; that the DPC's tracker is in no
other set needs the DPC queue to hold each queued tracker once; and both need
the types.  The invariant is `IInv`, the conjunction of the three as a predicate
`Good` on the record `tx`.  Each helper (release, submit, queue, wait, allocate,
store, fill, close) has a lemma that it keeps `Good` under the condition its
callers establish, and each action a lemma that combines those in the order of
the code.  `NearestElement` is the fact about searches: what a search of a ring
returns is an element of the set searched.

`WalkExactlyOwnFrames`, `UsersNeverMixed` and `NoLostWakeup` rest on `WInv`, which
adds what the descriptors have to do with the buffers.  `Owned`: a scheduled
tracker is open; each open tracker is `LaidOut`, that is, the descriptors from
its first one on, as many as frames were copied, are its own, name the user that
was copied, have a positive length, and those lengths taken off the transfer one
by one come to zero exactly at the last; and every descriptor in use is one of
these.  `Apart`: no buffer in use is empty or holds frames of two users, no frame
is in two, and title traffic has at most its share of transfers.  `Wakeful`:
with the lock free, `Heeded` and `Stirring` are the two halves of
`NoStrandedTracker`.  The layout is what an induction over the walk would need,
and makes one superfluous: a walk is a recursive function that subtracts
lengths until the remainder is zero or less, so its end is the least point at
which the `rest` function of the layout is zero (`WalkExact`), whatever the
length of the ring.  The hypothesis `Chipset # "RTL8153"` excludes the family
whose recorded lengths never come out even (`xmit_rtl8153_walk`).

`AppendsFit` is arithmetic: whatever is in a buffer, the limit of
`GetMaximumAggregateTransferSize` leaves room for padding and terminator.  It
holds of all four families; that of the RTL8153 needs that no user sends an
empty frame, which its backend refuses.  `ImplementsService` proves the
refinement `EachFrameSentOnce`: under `WInv` each step of the model is a step of
`XmitService` or a stutter.  `NicXmit` accepts a frame that no other buffer holds
and may put some held frames on the wire as one transfer more; the DPC puts one
tracker's frames there; a completion takes one off.  That contents stay apart
as sets of frames is `Apart`, that the wire stays below its limit is
`PendingBounded`.

**Control and RTL8153** (`Rtl8153Proofs`).  `OperationsOwnRequests` and
`AddressInConfigMode`, for any threads, PHY registers, addresses, filters, polls
and any number of faults and changes.  `Good` says that the device has its
types; that the channel is taken exactly when a request is there, and each PHY
flag is up exactly for its operation (`Owned`); what each stage allows (`Staged`);
and that the outstanding request is the one its operation or stage would have
queued (`Fits`).  The last is the strengthening that matters: a completion only
knows the operation, and without `Fits` it could be read as the answer to
something else.  `InConfigMode` ties the register CRWECR of the adapter to the
stages and steps that write the address, through failures and retries of each of
the four transfers.  A handler is a composition of functions on the device
record, and each of those has a lemma that says which predicate it takes to
which: `Idle` (the channel is free), `Finished` (the result of a runtime
operation is taken), `Quiet` (init may advance).

**AX88178** (`Ax88178Proofs`).  `TypesHold`, `RequestsAlwaysOwned`, `InitGoesOn`
and `PageAlwaysRestored` prove all safety properties of the `ax88178` run, for
any addresses, filters, EEPROMs and PHY registers of users, any length of the
patch and retry limit, and any number of failures and calls.  The difficulty is
that everything ends in `AdvanceInitStage`: a user's PHY call, a change of
address or a late failure advances init from a stage the code did not have in
mind, so that none of the four is inductive.  The invariant `Good` has six parts.
`Typed`: the fields have their types.  `Bus`: the PHY is busy exactly while a
request of its transaction is outstanding, it is not read and written at once,
and it is only read or written while software has the MII bus.  `OfStage`: a
request of init belongs to its stage, and the pause timer to the pause.
`Staged`: EEPROM, filter, patch, Realtek and LED steps run only where they
belong, and the two vendor setups never together.  `Live`: somebody goes on with
init.  `Paged`: the page the PHY is on, as a function of the step of the Realtek
setup and of the transaction under way.  A device that closes keeps only the
first three and the agreement of channel and request.  A handler is a composition
of functions on the device record; between two of them the device is `Free`
(nothing is outstanding), `Ready` (no vendor setup is under way, so init may
advance) or `Open` (any stage may be entered), and each function has a lemma
that says which of these it needs and that the device is `Good` after it.
`PageAlwaysRestored` has the hypothesis that users do not name the page register
themselves.  The code does not keep them from it (`CUsbEnet.cpp:2161` takes any
of 32 registers), and a user who does so moves the PHY to another page; the
theorem says that the driver does not.

**AX88179** (`Ax88179Proofs`).  `PhyFlagsCorrect`, `ReplayCorrect` and
`InitCorrect` prove all safety properties of the `ax88179` run, and `Invariant`
the inductive invariant they follow from: for both classes, any addresses,
filters, speeds and PHY registers of users, any retry limits and error
thresholds, and any number of faults and calls.  Here too everything meets in
`AdvanceInitStage`: a PHY answer, a node ID, the end of a drain and a
device reset can each move init, at a stage that the handler does not look at.
The invariant has four layers.  `Base`: types, and channel, PHY flags, drain and
replay agree; init is at most one stage past its table.  `Placed`: a drain belongs to a
device whose init is complete, a replay to one whose init is not.  `Steady`
adds that a link reset is under way exactly while its request is outstanding.
`Good` adds what `InitNeverStalls` needs and does not say itself: the
*completion* of the outstanding request leads init on (`Leads`: the request is
one of init's own, or a PHY access whose answer the stage takes), or nothing is
needed (`Waiting`: the timer is armed, or init waits for a reason that is
known).  `InitNeverStalls` alone is not inductive: an outstanding request keeps
it true, but says nothing of the time after its completion.  Within a handler,
once a request has completed, the device is only `Steady`, until init is led on
or the next request is queued.  Each function on
the device record has a lemma that says which layer it needs and which it
leaves; `Keeps` and `Near` say which fields it leaves alone, so that a predicate
carries over without being unfolded.  A PHY write of the AX179A class leads
init on by the stage it read before the lock, so `Leads` is there about that
stage too.  `NextStage`, where the loop over the
stages stops, is a least element; that there is one comes from the
well-foundedness of the naturals.

**Users** (`UsbEnetUsersProofs`).  `TypeCorrect`, `CallbacksNeverOverlap`,
`DetachedNeverCalled`, `FilterExact`, for any users, masks, contexts and
requests.  The strengthening ties the flags to the program counters: the
receive flag is set exactly while the receive context delivers, the link flag
exactly while one context runs link callbacks, and a context that runs no
callbacks has nobody left to call.

**Recovery** (`Ax88178RecoveryProofs`).  `TypeCorrect`, `RingNeverLoses`,
`InterruptNeverLost` and `ReplayUndisturbed` prove all safety properties of the
`recovery` run for a ring of any size, any thresholds and any number of faults.
`ReplayQuiescent` is far from inductive: that no late completion gives a request
to USB during the replay depends on which control request may be outstanding at
which stage, that on the timer, and that on where `active` is set.  `Linked` says
so: while the device is not closing, a replay is active exactly when init is not
complete; init's own request exists only between the drain and the start of
reception, where no stop or filter write does; and the pause of init belongs to
its first half.  `Ring` adds to `RingAccounted` that the request processor 2
works on is not with USB.  The rest is the types.  Each helper of the module has
a lemma on what it changes, and each action one that follows the helpers in the
order of the code.

**Lifecycle** (`UsbEnetCloseProofs`).  `TypeCorrect`, `ClosesFormOneChain`,
`AnswersForOwnNode` and `BuffersFreedLast`, for any number of devices, both endpoint orders and any set
of threads.  The strengthening `Chained` says who runs the close: only USBD's DPC
ever reaches the end of the chain (a thread that begins it finds endpoints open);
a device in use that nobody works on is either untouched or has one close with
USBD; and an extension that is not attached, or being initialised or freed, has
no endpoint, no close and no memory.  `TypeCorrect` needs besides that what is
open has a node, and holds for failed `Init`s and racing threads too.
`AnswersForOwnNode` needs that an extension in use belongs to a node that is
present, and that the one who still has to answer a removal is the only one who
works on that node (`Owned`).  The other three theorems carry the condition `Sound` of their properties.

**Receive** (`UsbEnetReceiveProofs`).  `TypesCorrect`, `FramesStayApart`,
`ReadsStayInTransfer` and `DrainsAreJustified`, for any packet and transfer
lengths, trailers, numbers of requests and thresholds, and for all families.
The invariant has four parts beside the types.  `Parsed`: while a parse runs,
the position has not passed the end of the packets, which is inside the
transfer, and for the AX88179 the whole table ends before the trailer
(`TableFits`), which is what makes its unchecked reads sound; and every frame so
far ends at or before the position (`FramesBehind`), from which `FramesApart`
follows for the next one.  `RequestTaken`: the request being
parsed is not with USB, so that giving it back keeps the count.  `StreakCounted`:
the history of invalid transfers is at least the code's streak, as far as it
counts.  `DrainJustified` itself is the fourth.  The arithmetic of the padding
is in lemmas of its own.

**Only model-checked**: all liveness and the properties under fairness (out of
the prover's reach); `IntactDelivered` (the layout of a transfer is a recursive
function, and what it computes for every transfer needs an induction the provers
cannot do).  Every other safety property of the runs is a theorem.

## 6. Disagreements between code and comments or assertions

Each has a run that shows it; `PROJECT.json` quotes the lines.

1. `xmit_rtl8153_walk`: RTL8153 reports a frame without its descriptor, and
   the walk of its descriptors never comes out even (`Rtl8153.cpp:1093`).
2. `rtl8153_two_users`: two threads that read PHY registers can take each
   other's event (`CUsbEnet.cpp:614`).
3. `close_failed_init`: a failed `Init` and a removal free the extension twice
   (`CUsbEnet.cpp:2437`).

In a release build `TRAP_ASSERT` compiles to nothing (`_TRAP` is 0), so the
model goes on where an assertion would have stopped.

## 7. What could be added

* `NicXmit` racing a detach: transmit composed with users.

## 8. Known deviations, and what is not modelled

### Weaknesses the models show

These are properties the code does not have.  Where a property above comes near
one, it names the exception.

*Transmit.*  A small frame overtakes a large one of the same user when the other
user's frame lies between them, since only the preceding descriptor is looked at
(`CUsbEnet.cpp:1228`).  An open debug aggregate is not flushed while title
traffic keeps a transfer pending (`CUsbEnet.cpp:475`).

*AX88178, recovery.*  `RestartReceiving` with the control request taken gives the
whole ring to USB, the request being parsed in callbacks included
(`Ax88178.cpp:1165`).  The completion of a stop or filter write that was
outstanding when a drain began starts the ring again (`Ax88178.cpp:1503`), and
this drain has no failure timeout: the endpoints are reset at every tick.  The
pause of the interrupt is undone by the completion that had decided to resubmit
before it (`CUsbEnet.cpp:1594`), so that the interrupt's PHY read can take the
control request from the replay, which has no retry there.  A pending filter
update waits for a tick that finds the control request free, which polls at
every tick prevent until a first interrupt has come (`Ax88178.cpp:1748`).
Steady transmission can put off the drain, since `NicXmit` stays open during it.

*AX88179.* The tick that finds the channel busy while it waits for the PHY does
not arm itself again (line 1303), although the message at 1163 calls the wait
bounded: one PHY access of a user at that moment is enough.  A write of RX_CTL
dropped at the start of reception stops init too (598).  In both cases init
stands still for ever.  A change of the address or filter, or a user's PHY
write, during init advances it out of turn, skips stages, and can push it past
the last one (207, 1204).  The AX179A class decides from a stage read before the
lock (2878), so that the end of a user's PHY write can do so after the init it
saw has moved on.  A drain is undone by a filter change or the completion of a
stop.  An error during it moves `m_RecoveryRequestTick`, and with it the
timeout.  The medium mode is that of init after a replay on a link that init
already knew, or when a user reads PHYSR during init.  Filter and address writes
that meet a busy channel are dropped.  A level of recovery raised during init is
consumed and lost.

*AX88179, stale streams.*  The mark is set when the streak equals 4
(`Ax88179x_178A_772D.cpp:1412`), and a restart that finds the control channel
busy takes only the mark away (634).  The streak is then past 4, and a stream
that goes on repeating the same buffer is never marked, hence never escalated,
until something resets the streak.  A request in its callbacks is not counted as
in flight, so a replay can clear the receive memory under it (811, 2513): the
frames behind the one being delivered are lost, and users may see zeroes, but no
read leaves the transfer.

*Users.*  `NicAttachUser` tells its user of the link after it has released the
lock and sets no flag (`CUsbEnet.cpp:1977`): receive callbacks can run beside it,
against the comment at 932.  `NicFlushXmitQueue` is empty (`CUsbEnet.cpp:1122`), so frames of a
user that detaches stay in the descriptors, with the pointer to it, and leave
later.

### Not modelled

Contents of frames and registers;
statistics, throughput counters and logging (no decision depends on them); the
detour machinery and address resolution (machine code and kernel addresses); the
USB stack and the kernel beyond the services the driver calls (modelled by what
the driver may rely on: a DPC runs once per insertion, a transfer completes
once, a synchronization event wakes one waiter); module loading, the scan for
users that attached before the hooks, and the bounded re-enumeration retry,
which run once at start-up.
