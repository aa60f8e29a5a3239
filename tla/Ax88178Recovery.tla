-------------------------- MODULE Ax88178Recovery ---------------------------
(***************************************************************************)
(* Recovery from transport errors in the AX88178 backend: the receive ring *)
(* with its restart, the interrupt transfer, the receive filter that       *)
(* starts reception, and the full reinitialization with its drain and      *)
(* replay.  Completions of transfers run on processor 2, one after the     *)
(* other; the timer and the users run on other processors, also while      *)
(* processor 2 is in callbacks, without NicLock.  The stages between the   *)
(* drain and the start of reception (in Ax88178) are two here, "replay"    *)
(* and "resume", with a request in each and a pause between them.          *)
(***************************************************************************)
EXTENDS Naturals, FiniteSets

CONSTANTS
  RecvPackets,         \* the receive ring
  NoPacket,
  ReinitializeErrors,  \* 3 in the source: errors in a row that reinitialize
  ResetDeviceErrors,   \* 5 in the source: errors in a row that reset the device
  MaxFaults,           \* bound: errors, timeouts and silences in a behaviour
  MaxCalls             \* bound: calls of users and changes of the link

ASSUME RecoveryAssumption ==
  /\ IsFiniteSet(RecvPackets)
  /\ NoPacket \notin RecvPackets
  /\ ReinitializeErrors \in Nat \ {0}
  /\ ResetDeviceErrors \in Nat /\ ResetDeviceErrors > ReinitializeErrors
  /\ MaxFaults \in Nat /\ MaxCalls \in Nat

Pipes == {"receive", "transmit", "interrupt"}

(* AX88178_RECOVERY_LEVEL.                                                   *)
RecoveryIdle         == 0
RecoveryResetPipe    == 1
RecoveryReinitialize == 2
RecoveryResetDevice  == 3

VARIABLES
  dev,      \* the device extension and the fields of CAx88178
  pc,       \* processor 2: "idle", "receive" (in callbacks), "interrupt"
  packet,   \* the receive request it is processing
  faults, calls   \* counters of the bounds

vars == <<dev, pc, packet, faults, calls>>

Device == [
  running       |-> TRUE,         \* ReceiveRunning
  received      |-> FALSE,        \* 00080000: frames arrived since the last restart
  callback      |-> FALSE,        \* CALLBACK_IN_PROGRESS
  closing       |-> FALSE,        \* RESETTING or STOPPING
  inFlight      |-> RecvPackets,  \* the requests with InFlight set (RxInFlightCount)
  transmitting  |-> FALSE,        \* PendingXmitCount # 0
  control       |-> "none",       \* the control request: stop, hash, rxControl, phy, init
  filterPending |-> FALSE,        \* m_FilterUpdatePending
  submitRing    |-> FALSE,        \* m_FilterSubmitReceiveRing
  interrupt     |-> TRUE,         \* g_UsbEnetInterruptInFlight
  paused        |-> FALSE,        \* g_UsbEnetInterruptPaused
  stage         |-> "complete",   \* InitStage: "replay", "resume", "start", "complete"
  timer         |-> "running",    \* the DPC the kernel timer is armed with
  errors        |-> [pipe \in Pipes |-> 0],   \* m_RecoveryErrorCount
  txTimeouts    |-> 0,            \* m_TxTimeoutCount
  level         |-> RecoveryIdle, \* m_RecoveryLevel
  pipe          |-> "receive",    \* m_RecoveryPipe
  pending       |-> FALSE,        \* m_FullReinitializePending: the drain
  active        |-> FALSE,        \* m_FullReinitializeActive: the replay
  usbReset      |-> FALSE,        \* ResetUsbDevice was called: the end of this device
  trapped       |-> FALSE,        \* an assertion of SubmitReceivePacket failed
  disturbed     |-> FALSE,        \* ghost: a PHY transaction not its own ran during init
  restarted     |-> FALSE ]       \* ghost: the ring was started during a drain

FilterStep(d) == d.control \in {"hash", "rxControl"}   \* m_FilterStep is not Idle

Free(d) == d.control = "none" /\ ~d.closing   \* QueueControlTransfer succeeds

-----------------------------------------------------------------------------
(* The receive ring.  The assertions stop a debug build.                     *)

SubmitReceivePacket(d, p) ==
  IF d.closing THEN d
  ELSE [d EXCEPT !.trapped = @ \/ d.callback \/ p \in d.inFlight,
                 !.inFlight = @ \cup {p}]

SubmitReceive(d) ==
  IF d.closing \/ d.inFlight = RecvPackets THEN d
  ELSE [d EXCEPT !.trapped = @ \/ d.callback, !.inFlight = RecvPackets]

StartDrainedRing(d) ==   \* mutant
  LET e == [d EXCEPT !.running = TRUE, !.restarted = @ \/ d.pending]
  IN  IF d.inFlight = {} THEN SubmitReceive(e) ELSE e

StartRing(d) ==
  SubmitReceive([d EXCEPT !.running = TRUE, !.restarted = @ \/ d.pending])

-----------------------------------------------------------------------------
(* The receive filter; a write of it starts reception when so asked.         *)

BeginFilterUpdate(d, submit, hash) ==
  LET e == [d EXCEPT !.submitRing = @ \/ submit]
  IN  CASE d.closing -> d
        [] Free(d)   -> [e EXCEPT !.control = IF hash THEN "hash" ELSE "rxControl",
                                  !.filterPending = FALSE]
        [] OTHER     -> [e EXCEPT !.filterPending = TRUE]

UpdateReceiveFilter(d, hash) ==
  IF d.stage \in {"replay", "resume"} \/ d.closing THEN d ELSE BeginFilterUpdate(d, FALSE, hash)

(* The requests in flight are cancelled: they complete with any status, as   *)
(* they may at any time.                                                     *)
RestartReceiving(d) ==
  IF d.closing \/ ~d.running THEN d
  ELSE IF Free(d) THEN [d EXCEPT !.running = FALSE, !.control = "stop"]
  ELSE SubmitReceive(d)

-----------------------------------------------------------------------------
(* The interrupt transfer.                                                   *)

StartInterruptLateUnpause(d) ==   \* mutant
  IF d.closing \/ d.interrupt THEN d
  ELSE [d EXCEPT !.paused = FALSE, !.interrupt = TRUE]

StartInterruptLinkStatus(d) ==
  [d EXCEPT !.paused = FALSE, !.interrupt = @ \/ ~d.closing]

PauseInterruptLinkStatus(d) == [d EXCEPT !.paused = TRUE]

-----------------------------------------------------------------------------
(* Recovery.                                                                 *)

Least(m, n) == IF m < n THEN m ELSE n

LevelOf(count) ==
  CASE count >= ResetDeviceErrors  -> RecoveryResetDevice
    [] count >= ReinitializeErrors /\ count < ResetDeviceErrors -> RecoveryReinitialize
    [] OTHER -> RecoveryResetPipe

Raise(d, level, pipe) ==
  IF level > d.level THEN [d EXCEPT !.level = level, !.pipe = pipe] ELSE d

(* late: the last error of the pipe is longer ago than the error window.     *)
HandleTransportCompletion(d, pipe, status, late) ==
  LET count == IF late THEN 1 ELSE Least(d.errors[pipe] + 1, ResetDeviceErrors)
  IN  CASE d.closing \/ status = "cancelled" -> d
        [] ~d.closing /\ status = "success"  ->
             IF late THEN [d EXCEPT !.errors[pipe] = 0] ELSE d
        [] OTHER -> Raise([d EXCEPT !.errors[pipe] = count], LevelOf(count), pipe)

RequestFullReinitialize(d) ==
  IF d.closing \/ d.stage # "complete" \/ d.pending \/ d.active THEN d
  ELSE PauseInterruptLinkStatus([d EXCEPT !.pending = TRUE, !.running = FALSE])

Recover(d) ==
  LET e == [d EXCEPT !.level = RecoveryIdle]
  IN  CASE d.level = RecoveryIdle \/ d.pending \/ d.active -> d
        [] d.level = RecoveryResetPipe /\ ~d.pending /\ ~d.active ->
             IF d.pipe = "receive" /\ d.running THEN RestartReceiving(e) ELSE e
        [] d.level = RecoveryReinitialize /\ ~d.pending /\ ~d.active ->
             RequestFullReinitialize(e)
        [] OTHER -> [PauseInterruptLinkStatus(e) EXCEPT !.running = FALSE, !.usbReset = TRUE]

DrainIgnoresRing(d) == ~d.transmitting /\ d.control = "none"   \* mutant

(* At the timeout of the drain the control request is cancelled and the      *)
(* endpoints are reset, which again only lets requests complete.  The drain  *)
(* does not wait for the interrupt transfer.                                 *)
Drained(d) == d.inFlight = {} /\ ~d.transmitting /\ d.control = "none"

(* ResetState, and the first request of init.                                *)
BeginReplay(d) ==
  [d EXCEPT !.pending = FALSE, !.active = TRUE, !.stage = "replay", !.control = "init",
            !.running = FALSE, !.received = FALSE, !.restarted = FALSE,
            !.filterPending = FALSE, !.submitRing = FALSE,
            !.errors = [pipe \in Pipes |-> 0], !.txTimeouts = 0, !.level = RecoveryIdle]

ProcessRecovery(d) ==
  LET e == Recover(d) IN IF e.pending /\ Drained(e) THEN BeginReplay(e) ELSE e

(* AdvanceInitStage to Ready, which turns into Complete.                     *)
InitReady(d) ==
  StartInterruptLinkStatus([d EXCEPT !.stage = "complete", !.active = FALSE, !.timer = "running"])

-----------------------------------------------------------------------------
(* Processor 2.                                                              *)

EndReceiveOnceMore(d, p) == SubmitReceivePacket(d, p)   \* mutant

EndReceive(d, p) ==
  IF d.running /\ ~d.closing THEN SubmitReceivePacket(d, p) ELSE d

Statuses == {"success", "cancelled", "error"}

Fault(happens) ==
  /\ happens => faults < MaxFaults
  /\ faults' = IF happens THEN faults + 1 ELSE faults

(* A receive completes: with frames for users, whom it calls without the     *)
(* lock, or with none.                                                       *)
CompleteReceive(p, status, late) ==
  /\ pc = "idle" /\ p \in dev.inFlight
  /\ Fault(status = "error")
  /\ LET d == HandleTransportCompletion([dev EXCEPT !.inFlight = @ \ {p}],
                                        "receive", status, late)
     IN  \/ /\ status = "success"
            /\ dev' = [d EXCEPT !.received = TRUE, !.callback = TRUE]
            /\ pc' = "receive" /\ packet' = p
         \/ /\ \E received \in {d.received, status = "success" \/ d.received} :
                  dev' = EndReceive([d EXCEPT !.received = received], p)
            /\ UNCHANGED <<pc, packet>>
  /\ UNCHANGED calls

(* Back from the callbacks, for more frames or, as here, for the last time.  *)
EndCallbacks ==
  /\ pc = "receive"
  /\ dev' = EndReceive([dev EXCEPT !.callback = FALSE], packet)
  /\ pc' = "idle" /\ packet' = NoPacket
  /\ UNCHANGED <<faults, calls>>

(* A status that shows a change, as the first one since ResetState does,     *)
(* begins to read the PHY if the control request is free.                    *)
ProcessInterruptLinkStatus(d) ==
  [d EXCEPT !.control = IF Free(d) THEN "phy" ELSE @,
            !.disturbed = @ \/ d.stage # "complete"]

CompleteInterruptLinkStatus(status, changed, late) ==
  /\ pc = "idle" /\ dev.interrupt
  /\ Fault(status = "error")
  /\ changed => status = "success" /\ ~dev.paused
  /\ IF changed /\ dev.stage = "complete"
     THEN calls < MaxCalls /\ calls' = calls + 1
     ELSE UNCHANGED calls
  /\ status = "success" /\ ~dev.paused /\ dev.stage # "complete" => changed
  /\ LET d == [dev EXCEPT !.interrupt = FALSE]
         e == IF changed THEN ProcessInterruptLinkStatus(d) ELSE d
     IN  dev' = HandleTransportCompletion(e, "interrupt", status, late)
  /\ pc' = IF dev.paused \/ dev.closing THEN "idle" ELSE "interrupt"
  /\ UNCHANGED packet

(* Decided under the lock, done after it was released and users were called. *)
ResubmitInterrupt ==
  /\ pc = "interrupt"
  /\ dev' = StartInterruptLinkStatus(dev)
  /\ pc' = "idle"
  /\ UNCHANGED <<packet, faults, calls>>

(* last: no other transmission is outstanding.                               *)
CompleteTransmit(status, last, late) ==
  /\ pc = "idle" /\ dev.transmitting
  /\ Fault(status = "error")
  /\ LET timeouts == IF last /\ status = "success" /\ ~dev.closing THEN 0 ELSE dev.txTimeouts
     IN  dev' = HandleTransportCompletion(
                  [dev EXCEPT !.transmitting = ~last, !.txTimeouts = timeouts],
                  "transmit", status, late)
  /\ UNCHANGED <<pc, packet, calls>>

(* Completions of the control request; a failed one but of the filter is     *)
(* taken as a success.                                                       *)
Completed(op) ==
  /\ pc = "idle" /\ dev.control = op
  /\ UNCHANGED <<pc, packet, calls>>

Done(d) == [d EXCEPT !.control = "none"]

CompleteStopReceiving(hash) ==
  /\ Completed("stop")
  /\ dev' = BeginFilterUpdate([Done(dev) EXCEPT !.received = FALSE], TRUE, hash)
  /\ UNCHANGED faults

Retry(d) == [d EXCEPT !.filterPending = TRUE, !.timer = "running"]

CompleteFilterHash(succeeds) ==
  /\ Completed("hash")
  /\ Fault(~succeeds)
  /\ LET d == [Done(dev) EXCEPT !.filterPending = @ \/ ~succeeds]
     IN  dev' = IF Free(d) THEN [d EXCEPT !.control = "rxControl"] ELSE Retry(d)

CompleteFilterUpdate(succeeds, hash) ==
  /\ Completed("rxControl")
  /\ Fault(~succeeds)
  /\ LET d == Done(dev)
         e == [IF d.submitRing /\ ~d.running THEN StartRing(d) ELSE d EXCEPT !.submitRing = FALSE]
     IN  dev' = CASE ~succeeds -> Retry(d)
                  [] succeeds /\ e.stage = "start" /\ e.closing -> [e EXCEPT !.stage = "complete"]
                  [] succeeds /\ e.stage = "start" /\ ~e.closing -> InitReady(e)
                  [] succeeds /\ e.stage # "start" /\ e.filterPending -> BeginFilterUpdate(e, FALSE, hash)
                  [] OTHER -> e

CompletePhy ==
  /\ Completed("phy")
  /\ dev' = Done(dev)
  /\ UNCHANGED faults

(* The first half of init ends in a pause, the second in StartReceiving.     *)
CompleteInit(hash) ==
  /\ Completed("init")
  /\ dev' = CASE dev.closing -> [Done(dev) EXCEPT !.stage = "complete"]
              [] ~dev.closing /\ dev.stage = "replay" -> [Done(dev) EXCEPT !.timer = "advance"]
              [] OTHER -> BeginFilterUpdate([Done(dev) EXCEPT !.stage = "start"], TRUE, hash)
  /\ UNCHANGED faults

-----------------------------------------------------------------------------
(* The timer, on another processor.                                          *)

(* The end of the pause; a request that init cannot queue is not made.       *)
TimerAdvance ==
  /\ dev.timer = "advance"
  /\ LET d == [dev EXCEPT !.timer = "none"]
     IN  dev' = IF d.closing THEN [d EXCEPT !.stage = "complete"]
                ELSE [d EXCEPT !.stage = "resume",
                               !.control = IF Free(d) THEN "init" ELSE @]
  /\ UNCHANGED <<pc, packet, faults, calls>>

Ticks == {"quiet", "silence", "txTimeout"}

TransmitTimesOut(d) ==
  LET count == Least(d.txTimeouts + 1, ResetDeviceErrors)
  IN  [d EXCEPT !.txTimeouts = count, !.level = LevelOf(count), !.pipe = "transmit"]

(* No frame for five seconds (callbacks do not last so long) on an active    *)
(* link restarts reception; else the PHY may be polled, also during a drain. *)
RunningTick(d, silence, poll, hash) ==
  LET e == CASE silence -> RestartReceiving(d)
             [] ~silence /\ poll /\ Free(d) -> [d EXCEPT !.control = "phy"]
             [] OTHER -> d
      f == IF e.filterPending /\ e.control = "none" THEN BeginFilterUpdate(e, FALSE, hash) ELSE e
  IN  [f EXCEPT !.timer = "running"]

RunTimer(tick, poll, hash) ==
  /\ dev.timer = "running"
  /\ Fault(tick # "quiet")
  /\ tick = "txTimeout" =>
       dev.transmitting /\ dev.level = RecoveryIdle /\ ~dev.pending /\ ~dev.active
  /\ tick = "silence" => dev.running /\ dev.received /\ ~dev.callback
  /\ LET d == [dev EXCEPT !.timer = "none"]
         e == ProcessRecovery(IF tick = "txTimeout" THEN TransmitTimesOut(d) ELSE d)
         silence == tick = "silence" /\ e.running
     IN  dev' = CASE d.closing -> d
                  [] ~d.closing /\ d.stage = "start" /\ ~FilterStep(d) ->
                       BeginFilterUpdate(d, TRUE, hash)
                  [] ~d.closing /\ d.stage = "complete" /\ ~e.usbReset /\ e.stage = "complete" ->
                       RunningTick(e, silence, poll, hash)
                  [] OTHER -> e
  /\ UNCHANGED <<pc, packet, calls>>

-----------------------------------------------------------------------------
(* Users, on any processor.                                                  *)

Call ==
  /\ calls < MaxCalls /\ calls' = calls + 1
  /\ ~dev.closing
  /\ UNCHANGED <<pc, packet, faults>>

Transmit ==
  /\ Call
  /\ dev.stage = "complete" /\ ~dev.transmitting
  /\ dev' = [dev EXCEPT !.transmitting = TRUE]

ChangeReceiveFilter(hash) ==
  /\ Call
  /\ dev' = UpdateReceiveFilter(dev, hash)

BeginUserPhyTransfer ==
  /\ Call
  /\ Free(dev)
  /\ dev' = [dev EXCEPT !.control = "phy", !.disturbed = @ \/ dev.stage # "complete"]

BeginClose ==
  /\ Call
  /\ dev' = [dev EXCEPT !.closing = TRUE, !.running = FALSE, !.timer = "none"]

-----------------------------------------------------------------------------

(* A device that is ready, with its receive ring and interrupt submitted.    *)
Init ==
  /\ dev = Device
  /\ pc = "idle" /\ packet = NoPacket
  /\ faults = 0 /\ calls = 0

Late(pipe) == IF dev.errors[pipe] = 0 THEN {FALSE} ELSE BOOLEAN

Receive ==
  \E p \in RecvPackets, status \in Statuses, late \in Late("receive") :
    CompleteReceive(p, status, late)

Interrupt ==
  \E status \in Statuses, changed \in BOOLEAN, late \in Late("interrupt") :
    CompleteInterruptLinkStatus(status, changed, late)

EndTransmit ==
  \E status \in Statuses, last \in BOOLEAN, late \in Late("transmit") :
    CompleteTransmit(status, last, late)

CompleteControl ==
  \E hash \in BOOLEAN :
    \/ CompleteStopReceiving(hash)
    \/ \E succeeds \in BOOLEAN : CompleteFilterHash(succeeds) \/ CompleteFilterUpdate(succeeds, hash)
    \/ CompletePhy
    \/ CompleteInit(hash)

Next ==
  /\ ~dev.usbReset /\ ~dev.trapped
  /\ \/ Receive \/ EndCallbacks
     \/ Interrupt \/ ResubmitInterrupt
     \/ EndTransmit
     \/ CompleteControl
     \/ TimerAdvance
     \/ \E tick \in Ticks, poll, hash \in BOOLEAN : RunTimer(tick, poll, hash)
     \/ Transmit
     \/ \E hash \in BOOLEAN : ChangeReceiveFilter(hash)
     \/ BeginUserPhyTransfer
     \/ BeginClose

Spec == Init /\ [][Next]_vars

(* Callbacks return, timers run, and processor 2 takes its DPCs in order: a  *)
(* cancelled or a control request completes though other requests complete   *)
(* again and again.  An adapter that reports its status is not polled at     *)
(* every tick; were it, a pending filter update would never find the control *)
(* request free.                                                             *)
Fairness ==
  /\ WF_vars(EndCallbacks)
  /\ WF_vars(ResubmitInterrupt)
  /\ WF_vars(TimerAdvance)
  /\ SF_vars(\E hash \in BOOLEAN : RunTimer("quiet", FALSE, hash))
  /\ SF_vars(CompleteControl)
  /\ SF_vars(~dev.running /\ Receive)
  /\ SF_vars(dev.pending /\ EndTransmit /\ ~dev'.transmitting)

FairSpec == Spec /\ Fairness

-----------------------------------------------------------------------------
(* Properties.                                                               *)

DeviceType == [
  running: BOOLEAN, received: BOOLEAN, callback: BOOLEAN, closing: BOOLEAN,
  inFlight: SUBSET RecvPackets, transmitting: BOOLEAN,
  control: {"none", "stop", "hash", "rxControl", "phy", "init"},
  filterPending: BOOLEAN, submitRing: BOOLEAN, interrupt: BOOLEAN, paused: BOOLEAN,
  stage: {"replay", "resume", "start", "complete"},
  timer: {"none", "advance", "running"},
  errors: [Pipes -> 0 .. ResetDeviceErrors], txTimeouts: 0 .. ResetDeviceErrors,
  level: RecoveryIdle .. RecoveryResetDevice, pipe: Pipes,
  pending: BOOLEAN, active: BOOLEAN, usbReset: BOOLEAN,
  trapped: BOOLEAN, disturbed: BOOLEAN, restarted: BOOLEAN ]

(* The fields hold values of their types, and CALLBACK_IN_PROGRESS is set    *)
(* exactly while processor 2 is in callbacks with a receive request.         *)
TypeOK ==
  /\ dev \in DeviceType
  /\ pc \in {"idle", "receive", "interrupt"}
  /\ dev.callback = (pc = "receive")
  /\ packet \in IF pc = "receive" THEN RecvPackets ELSE {NoPacket}
  /\ faults \in 0 .. MaxFaults /\ calls \in 0 .. MaxCalls

(* Each receive request is accounted for.  Reception loses none: while it is *)
(* on, each is with USB or being processed, though cancelled ones complete   *)
(* before, while or after the ring is started again.  And none is submitted  *)
(* twice, or while callbacks still read a buffer (the assertions at          *)
(* CUsbEnet.cpp:1611 and 1616), except by a restart that the timer tries in  *)
(* that moment and that finds the control request taken.                     *)
RingAccounted ==
  /\ dev.running /\ ~dev.closing /\ ~dev.trapped =>
       dev.inFlight \cup ({packet} \ {NoPacket}) = RecvPackets
  /\ dev.trapped => pc = "receive" /\ dev.control # "none"

(* The interrupt survives each race of its pause with its resubmission: when *)
(* no recovery wants it off, it is with USB or about to be, so that link     *)
(* changes go on being seen.                                                 *)
InterruptAlive ==
  dev.stage = "complete" /\ ~dev.pending /\ ~dev.closing /\ ~dev.usbReset =>
    ~dev.paused /\ (dev.interrupt \/ pc = "interrupt")

(* Between the drain and the start of reception no bulk transfer is with USB *)
(* that would meet an adapter under initialization, whatever completes late. *)
ReplayQuiescent ==
  dev.active =>
    /\ dev.inFlight = {} /\ ~dev.transmitting
    /\ dev.running => dev.closing

(* Recovery comes to an end: drain and replay are over, no level is left to  *)
(* act on, and reception is on.  Excepted are a drain whose ring was started *)
(* again, and a replay during which a PHY transaction not its own began.     *)
Settles ==
  <>[](\/ dev.closing \/ dev.usbReset \/ dev.trapped \/ dev.restarted \/ dev.disturbed
       \/ ~dev.pending /\ ~dev.active /\ dev.level = RecoveryIdle /\ dev.running)
=============================================================================
