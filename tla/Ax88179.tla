------------------------------ MODULE Ax88179 -------------------------------
(***************************************************************************)
(* The AX88179 backends: CAx88179_178A and the AX179A family, two classes  *)
(* of the same build.  Their init sequence is a table of stages here; the  *)
(* link reset that follows a link-up is another.  Added to that are the    *)
(* receive filter, the Ethernet address, the link state by interrupt and   *)
(* by polling, and the recovery from transport errors: a pipe reset, a     *)
(* full reinitialization (drain every transfer, then replay the init       *)
(* sequence), a USB device reset.  A definition that is not named for a    *)
(* class is the same in both and translated from CAx88179_178A.  Every     *)
(* handler runs under NicLock and is one step; what happens while receive  *)
(* callbacks have dropped the lock is in UsbEnetUsers and Ax88178Recovery. *)
(* Stages that do the same to the state are one stage here.                *)
(***************************************************************************)
EXTENDS UsbEnetControl, FiniteSetsExt

CONSTANTS
  Generations,              \* classes to look at: "ax88179", "ax179a" or both
  Addresses,                \* Ethernet addresses
  NoAddress,                \* the zero address
  Filters,                  \* values of RX_CTL that the users' filters ask for
  Speeds,                   \* link speeds
  PhyReadyMaximumRetries,   \* 31 in the source
  MaximumLinkResetRetries,  \* 16 in the source
  ReinitializeErrors,       \* 3 in the source: errors of a pipe before a reinitialization
  ResetDeviceErrors,        \* 5 in the source: errors before a device reset
  MaxFaults,                \* bound: failed requests and transfers, timeouts
  MaxCalls                  \* bound: calls of users and the kernel, changes of the cable

ASSUME Ax88179Assumption ==
  /\ Generations \subseteq {"ax88179", "ax179a"}
  /\ NoAddress \notin Addresses
  /\ {"stop", "none"} \cap Filters = {}
  /\ Speeds # {} /\ {"down", "10"} \cap Speeds = {}
  /\ PhyReadyMaximumRetries \in Nat /\ MaximumLinkResetRetries \in Nat
  /\ ReinitializeErrors \in Nat \ {0} /\ ResetDeviceErrors \in Nat
  /\ ReinitializeErrors < ResetDeviceErrors
  /\ MaxFaults \in Nat /\ MaxCalls \in Nat

VARIABLES
  dev,      \* the device extension and the fields of the backend
  regs,     \* adapter: node ID, RX_CTL, medium mode, and whether the PHY has a link
  cable,    \* what the other end of the cable offers: "down" or a speed
  faults,   \* counters of the bounds
  calls

vars == <<dev, regs, cable, faults, calls>>

(* F of the value, in a form that makes TLC evaluate the value only once.    *)
Apply(F(_), value) == CHOOSE r \in {F(v) : v \in {value}} : TRUE

Request(op, value) == [op |-> op, value |-> value]
Op(d) == IF d.canUserTransfer THEN d.request.op ELSE "none"

StageOps == {"mac", "phyPower", "readNodeId", "stopRx", "medium"}   \* one stage of init each

Requests ==
  [op: StageOps \cup {"stopReceiving"}, value: {"none"}]
    \cup [op: {"writeNodeId"}, value: Addresses \cup {NoAddress}]
    \cup [op: {"startReceiving"}, value: Filters \cup {"none"}]
    \cup [op: {"linkReset"},
          value: Filters \cup Speeds \cup {"none", "stop", "down", "10", "1000", "fifo", "mac"}]
    \cup [op: {"readPhy", "writePhy"}, register: Nat]

ASSUME RequestAssumption == NoRequest \notin Requests

-----------------------------------------------------------------------------
(* The tables.  A stage is named for what it does: "mac" stands for register *)
(* accesses that matter to nothing else here.                                *)

Ax88179Init ==
  << "phyPower", "pause", "mac", "pause", "readNodeId", "address", "writeNodeId", "mac",
     "start", "medium", "waitPhy", "phyWrite", "readBmcr", "phyWrite", "settle", "phyWrite",
     "restart", "complete" >>

(* As the AX88179A and B run it: the AX88772D leaves out the writes before   *)
(* the BMCR is read, the AX88279 all from there to the restart.              *)
Ax179AInit ==
  << "mac", "phyPower", "pause", "mac", "pause", "mac", "stopRx", "mac", "readNodeId", "address",
     "writeNodeId", "mac", "start", "medium", "waitPhy", "phyWrite", "readBmcr", "phyWrite",
     "settle", "phyWrite", "restart", "complete" >>

Ax88179LinkReset == << "stop", "start", "fifo", "mac", "medium", "mac" >>

Ax179ALinkReset == << "stop", "mac", "medium", "start", "mac" >>

Stages(d)    == IF d.generation = "ax88179" THEN Ax88179Init ELSE Ax179AInit
LinkReset(d) == IF d.generation = "ax88179" THEN Ax88179LinkReset ELSE Ax179ALinkReset

Complete(d)    == Len(Stages(d))
StageOf(d, kind) == CHOOSE s \in DOMAIN Stages(d) : Stages(d)[s] = kind  \* of a kind used once
KindAt(d, s)   == IF s \in DOMAIN Stages(d) THEN Stages(d)[s] ELSE "none"
Kind(d)        == KindAt(d, d.initStage)
IsReady(d)     == Kind(d) = "complete"

Pipes == {"receive", "transmit", "interrupt"}

(* Recovery levels.                                                          *)
RecoveryIdle         == 0
RecoveryResetPipe    == 1
RecoveryReinitialize == 2
RecoveryResetDevice  == 3

(* PHY registers.                                                            *)
MiiBmcr           == 0
PhyIdentifier     == 2
PhyPhysicalStatus == 17

(* What ResetState clears, when the device is set up and before each replay. *)
ResetFields == [
  initStage      |-> 0,
  rxControl      |-> "stop",       \* m_ReceiveControl
  linkReset      |-> 0,            \* m_LinkResetStage; 0: none in progress
  linkRetries    |-> 0,            \* m_LinkResetRetries
  resetLink      |-> "down",       \* m_LinkResetLinkState, m_LinkSpeed
  interrupt      |-> "none",       \* m_InterruptStatusSeen and m_InterruptLinkUp
  refreshPending |-> FALSE,        \* m_InterruptPhyRefreshPending
  retries        |-> 0,            \* m_PhyReadyRetryCount
  retryPending   |-> FALSE,        \* m_PhyReadyRetryPending
  level          |-> RecoveryIdle, \* m_RecoveryLevel
  pipe           |-> "receive",    \* m_RecoveryPipe
  pending        |-> FALSE,        \* m_FullReinitializePending
  replay         |-> FALSE,        \* m_FullReinitializeActive
  hardPending    |-> FALSE,        \* m_RxHardRecoveryPending
  errors         |-> [p \in Pipes |-> 0],  \* m_RecoveryErrorCount
  overdue        |-> FALSE,        \* the drain timeout since m_RecoveryRequestTick is over
  timeouts       |-> 0,            \* m_TxTimeoutCount
  grace          |-> FALSE ]       \* within five seconds of m_RxHardRecoveryLinkGraceTick

DeviceFields == [
  generation  |-> "ax88179",
  timer       |-> "none",          \* the DPC the kernel timer is armed with
  title       |-> NoAddress,       \* the kernel's title address
  unicast     |-> NoAddress,       \* UnicastAddress
  alternate   |-> NoAddress,       \* AlternateUnicastAddress, not kept by a retail console
  phyRead     |-> FALSE,           \* PHY_READ_IN_PROGRESS
  phyWrite    |-> FALSE,           \* PHY_WRITE_IN_PROGRESS
  completedStage |-> 0,            \* the local CompletedStage of CompleteWritePhy; 0: not read
  linkState   |-> "down",          \* LinkState: down or the speed
  told        |-> "down",          \* ghost: the link state users were told of
  filter      |-> "none",          \* AggregateReceiveFilter: no users yet
  running     |-> FALSE,           \* ReceiveRunning
  pipes       |-> {},              \* those with transfers in flight
  paused      |-> FALSE,           \* g_UsbEnetInterruptPaused
  usbReset    |-> FALSE,           \* ghost: ResetUsbDevice was called
  rxLost      |-> FALSE,           \* ghost: the last write of RX_CTL was dropped or failed
  startLost   |-> FALSE,           \* ghost: StartReceiving last found the channel busy
  addressLost |-> FALSE,           \* ghost: so was the last write of the node ID
  mediumStale |-> FALSE,           \* ghost: no link reset has written the medium mode since
                                   \* init did, of a link already known, or its write failed
  retryLost   |-> FALSE ]          \* ghost: a retry tick found the channel busy

Device ==
  [field \in DOMAIN ControlFields \cup DOMAIN ResetFields \cup DOMAIN DeviceFields |->
     CASE field \in DOMAIN ControlFields -> ControlFields[field]
       [] field \in DOMAIN ResetFields   -> ResetFields[field]
       [] OTHER                          -> DeviceFields[field]]

-----------------------------------------------------------------------------
(* Requests.  Unlike the AX88178's, a PHY access is one request.             *)

PhyBusy(d)     == d.phyRead \/ d.phyWrite
CanBeginPhy(d) == ~PhyBusy(d) /\ CanQueueControlTransfer(d)
Outstanding(d) == d.canUserTransfer \/ PhyBusy(d)

QueueOrDrop(d, op, value) ==
  IF CanQueueControlTransfer(d) THEN QueueControlTransfer(d, Request(op, value)) ELSE d

(* The register is CurrentPhyRegister, which only a PHY access in progress   *)
(* reads, and which a refused one leaves alone while there is one.           *)
PhyRequest(flag, register) ==
  [op |-> IF flag = "phyRead" THEN "readPhy" ELSE "writePhy", register |-> register]

(* flag: phyRead or phyWrite.                                                *)
BeginPhy(d, flag, register) ==
  IF CanBeginPhy(d)
  THEN QueueControlTransfer([d EXCEPT ![flag] = TRUE], PhyRequest(flag, register))
  ELSE d

BeginReadPhy(d, register)  == BeginPhy(d, "phyRead", register)
BeginWritePhy(d, register) == BeginPhy(d, "phyWrite", register)

NodeAddress(d) == IF d.unicast # NoAddress THEN d.unicast ELSE d.alternate

RecoverXboxAddresses(d) ==
  [d EXCEPT !.unicast   = IF d.title # NoAddress THEN d.title ELSE @,
            !.alternate = NoAddress]

-----------------------------------------------------------------------------
(* Reception.  RX_CTL says what to receive, or "stop".                       *)

(* Packets that are not in flight are given to the USB stack; the write of   *)
(* RX_CTL is dropped when the channel is busy.                               *)
StartReceiving(d) ==
  LET r == [d EXCEPT !.running = TRUE, !.pipes = @ \cup {"receive"}, !.rxControl = d.filter,
                     !.rxLost = ~CanQueueControlTransfer(d),
                     !.startLost = ~CanQueueControlTransfer(d)]
  IN  IF d.closing THEN d ELSE QueueOrDrop(r, "startReceiving", d.filter)

UpdateReceiveFilterAnyStage(d) == StartReceiving(d)   \* mutant

UpdateReceiveFilter(d) ==
  IF d.initStage < StageOf(d, "start") THEN d ELSE StartReceiving(d)

RestartReceiving(d) ==
  IF d.running /\ CanQueueControlTransfer(d)
  THEN QueueOrDrop([d EXCEPT !.running = FALSE], "stopReceiving", "none")
  ELSE d

-----------------------------------------------------------------------------
(* AdvanceInitStage.  A stage that cannot queue its request goes on to the   *)
(* next, so that one call may pass several stages.  Where it stops: at a     *)
(* pause, at the start of reception even if its write is dropped, at an      *)
(* address that is not known, at a stage whose request it could queue.       *)

PhyKinds   == {"waitPhy", "phyWrite", "readBmcr", "restart"}
WriteKinds == {"phyWrite", "readBmcr", "settle", "restart"}   \* PhyWriteMmdAccess1 and on

Stays(d, s) ==
  LET kind == Stages(d)[s]
      a == IF d.initStage < StageOf(d, "address") THEN RecoverXboxAddresses(d) ELSE d
  IN  CASE kind \in {"pause", "settle", "start", "complete"} -> TRUE
        [] kind = "address"     -> NodeAddress(a) = NoAddress
        [] kind = "writeNodeId" -> NodeAddress(a) # NoAddress /\ CanQueueControlTransfer(d)
        [] kind \in PhyKinds    -> CanBeginPhy(d)
        [] OTHER                -> CanQueueControlTransfer(d)

(* Complete + 1 is past the last stage: the assertion there is debug code.   *)
NextStage(d) ==
  Min({s \in DOMAIN Stages(d) : s > d.initStage /\ Stays(d, s)} \cup {Complete(d) + 1})

(* What the stages entered on the way, the last one included, do besides.    *)
(* The fields of one stage are cleared at each: no other one reads them.     *)
Entered(d, kinds) ==
  LET a == IF "address" \in kinds THEN RecoverXboxAddresses(d) ELSE d
  IN  [a EXCEPT
         !.retries      = 0,
         !.retryPending = FALSE,
         !.retryLost    = FALSE,
         !.startLost    = FALSE,
         !.addressLost  = @ \/ ("writeNodeId" \in kinds /\ ~CanQueueControlTransfer(d)),
         !.resetLink    = IF "medium" \in kinds /\ d.generation = "ax179a" THEN "1000" ELSE @,
         !.mediumStale  = @ \/ ("medium" \in kinds /\ d.generation = "ax88179" /\
                                d.linkState # "down")]

(* A stage after a pause also stops the timer, which has just run.           *)
Begin(d) ==
  CASE Kind(d) \in {"pause", "settle"} -> [d EXCEPT !.timer = "advance"]
    [] Kind(d) \in {"address", "none"} -> d
    [] Kind(d) = "writeNodeId" ->
         QueueControlTransfer([d EXCEPT !.addressLost = FALSE],
                              Request("writeNodeId", NodeAddress(d)))
    [] Kind(d) = "start"    -> StartReceiving(d)
    [] Kind(d) = "waitPhy"  -> BeginReadPhy(d, PhyIdentifier)
    [] Kind(d) = "readBmcr" -> BeginReadPhy(d, MiiBmcr)
    [] Kind(d) \in {"phyWrite", "restart"} -> BeginWritePhy(d, MiiBmcr)
    [] Kind(d) = "complete" ->
         [d EXCEPT !.timer = "running", !.replay = FALSE, !.paused = FALSE,
                   !.pipes = @ \cup {"interrupt"},
                   !.errors = IF d.replay THEN ResetFields.errors ELSE @,
                   !.timeouts = IF d.replay THEN 0 ELSE @]
    [] OTHER -> QueueControlTransfer(d, Request(Kind(d), "none"))

StepTo(d, s) ==
  LET kinds == {Stages(d)[t] : t \in d.initStage + 1 .. s \cap DOMAIN Stages(d)}
  IN  Apply(Begin, [Entered(d, kinds) EXCEPT !.initStage = s])

Advance(d) ==
  IF d.closing THEN [d EXCEPT !.initStage = Complete(d)] ELSE StepTo(d, NextStage(d))

AdvanceInitStage(d) == Apply(Advance, d)

AdvanceUnlessComplete(d) == IF IsReady(d) THEN d ELSE AdvanceInitStage(d)

(* Not at the stage of that name, where AdvanceInitStage does it.            *)
WriteNodeId(d) ==
  CASE NodeAddress(d) = NoAddress -> AdvanceUnlessComplete(d)
    [] NodeAddress(d) # NoAddress /\ CanQueueControlTransfer(d) ->
         QueueControlTransfer([d EXCEPT !.addressLost = FALSE],
                              Request("writeNodeId", NodeAddress(d)))
    [] OTHER -> LET l == [d EXCEPT !.addressLost = TRUE]
                IN  IF d.generation = "ax88179" \/ Kind(d) = "writeNodeId"
                    THEN AdvanceUnlessComplete(l) ELSE l

OnUnicastAddressChanged(d) ==
  CASE Kind(d) = "address" -> AdvanceInitStage(d)
    [] d.initStage \in StageOf(d, "writeNodeId") .. Complete(d) -> WriteNodeId(d)
    [] OTHER -> d

-----------------------------------------------------------------------------
(* The link.  LinkState is one value while there is no link; the code has    *)
(* two, before and after 3.5 seconds without one.                            *)

QueueLinkReset(d) ==
  LET kind == LinkReset(d)[d.linkReset]
  IN  QueueControlTransfer(d, Request("linkReset",
        CASE kind = "start"  -> d.rxControl
          [] kind = "medium" -> d.resetLink
          [] OTHER           -> kind))

(* The users learn of the new link state at the end, or at once when the     *)
(* channel is busy; one that is on its way tells them of this state too.     *)
StartLinkReset(d) ==
  CASE d.linkReset # 0 -> d
    [] d.linkReset = 0 /\ CanQueueControlTransfer(d) ->
         QueueLinkReset([d EXCEPT !.linkReset = 1, !.resetLink = d.linkState])
    [] OTHER -> [d EXCEPT !.told = d.linkState]

(* phy: the link that PHYSR reports.  The AX179A family believes its         *)
(* interrupt instead once there was one; of a PHY without a link it reads 10.*)
NewLinkState(d, phy) ==
  IF d.generation = "ax88179" \/ d.interrupt = "none" THEN phy
  ELSE CASE d.interrupt = "down" -> "down"
         [] d.interrupt # "down" /\ phy = "down" -> "10"
         [] OTHER -> phy

LinkUnchanged(d, state) ==
  state = d.linkState /\ (d.generation = "ax179a" => state = d.resetLink)

(* After a replay a lost link is kept secret for a while (grace).            *)
UpdateLinkState(d, phy) ==
  LET state == NewLinkState(d, phy)
      g == [d EXCEPT !.grace = FALSE]
      u == [g EXCEPT !.linkState = state,
                     !.resetLink = IF d.generation = "ax179a" THEN state ELSE @]
  IN  CASE state = "down" /\ d.grace -> d
        [] LinkUnchanged(d, state) /\ ~(state = "down" /\ d.grace) -> g
        [] state = "down" /\ ~d.grace /\ ~LinkUnchanged(d, state) ->
             [u EXCEPT !.told = "down"]
        [] state # "down" /\ ~LinkUnchanged(d, state) -> Apply(StartLinkReset, u)

NextLinkResetKeepStage(d) ==   \* mutant
  IF d.linkReset # 0 /\ CanQueueControlTransfer(d) THEN QueueLinkReset(d)
  ELSE [d EXCEPT !.told = d.linkState]

NextLinkReset(d) ==
  IF d.linkReset # 0 /\ CanQueueControlTransfer(d) THEN QueueLinkReset(d)
  ELSE [d EXCEPT !.linkReset = 0, !.linkRetries = 0, !.told = d.linkState]

(* busy: what the read of the transmit FIFO says.  A stage that fails is     *)
(* followed by the next one.                                                 *)
CompleteLinkResetTransfer(d, ok, busy) ==
  LET kind == LinkReset(d)[d.linkReset]
      again == kind = "fifo" /\ busy /\ d.linkRetries < MaximumLinkResetRetries
      w == [d EXCEPT
              !.rxLost      = IF kind = "start" THEN ~ok \/ d.request.value # d.rxControl ELSE @,
              !.mediumStale = IF kind = "medium" THEN ~ok ELSE @]
      c == CompleteControlTransfer(w)
      n == IF again THEN [c EXCEPT !.linkReset = 1, !.linkRetries = @ + 1]
           ELSE [c EXCEPT !.linkReset = (@ + 1) % (Len(LinkReset(d)) + 1)]
  IN  Apply(NextLinkReset, n)

(* The link is up or down in the interrupt's status.                         *)
ProcessInterruptLinkStatus(d, up) ==
  LET i == [d EXCEPT !.interrupt = IF up THEN "up" ELSE "down", !.refreshPending = up]
  IN  CASE up /\ d.linkReset = 0 /\ ~Outstanding(d) /\ ~d.closing ->
             BeginReadPhy([i EXCEPT !.refreshPending = FALSE], PhyPhysicalStatus)
        [] ~up /\ ~d.grace ->
             [i EXCEPT !.grace = FALSE, !.linkState = "down", !.told = "down",
                       !.resetLink = IF d.generation = "ax179a" THEN "down" ELSE @]
        [] OTHER -> i

-----------------------------------------------------------------------------
(* Completion routines.  ok: the request succeeded.                          *)

RetryPhyReadyNoTimer(d) ==   \* mutant
  IF d.retries < PhyReadyMaximumRetries
  THEN [d EXCEPT !.retries = @ + 1, !.retryPending = TRUE] ELSE AdvanceInitStage(d)

RetryPhyReady(d) ==
  IF d.retries < PhyReadyMaximumRetries
  THEN [d EXCEPT !.retries = @ + 1, !.retryPending = TRUE, !.timer = "running",
                 !.retryLost = FALSE]
  ELSE AdvanceInitStage(d)

(* The AX179A family writes the BMCR, and lets the PHY settle, only if a     *)
(* part of it must be cleared.                                               *)
AfterBmcr(d, clear) ==
  IF d.generation = "ax88179" \/ clear THEN AdvanceInitStage(d)
  ELSE AdvanceInitStage([d EXCEPT !.initStage = StageOf(d, "settle")])

(* What a read returns: of the PHY identifier, that the PHY is ready; of the *)
(* BMCR, that a part must be cleared; of PHYSR, the link.                    *)
CompleteReadPhy(d, ok, bit, link) ==
  LET register == d.request.register
      Completed(c) ==
      CASE Kind(c) = "waitPhy" /\ ok /\ register = PhyIdentifier ->
             IF bit THEN AdvanceInitStage(c) ELSE RetryPhyReady(c)
        [] Kind(c) = "readBmcr" /\ ok /\ register = MiiBmcr -> AfterBmcr(c, bit)
        [] ok /\ register = PhyPhysicalStatus ->
             UpdateLinkState([c EXCEPT !.refreshPending = FALSE], link)
        [] Kind(c) = "waitPhy"  /\ ~ok -> RetryPhyReady(c)
        [] Kind(c) = "readBmcr" /\ ~ok -> AfterBmcr(c, FALSE)
        [] OTHER -> c
  IN  Apply(Completed, CompleteControlTransfer([d EXCEPT !.phyRead = FALSE]))

(* The one of the AX179A goes by the stage it read before it took the lock.  *)
CompleteWritePhy(d) ==
  LET stage == IF d.generation = "ax179a" THEN d.completedStage ELSE d.initStage
      c == CompleteControlTransfer([d EXCEPT !.phyWrite = FALSE, !.completedStage = 0])
  IN  IF KindAt(d, stage) \in WriteKinds THEN AdvanceInitStage(c) ELSE c

(* The one of the AX88179 reads the address back, which leads on as well.    *)
CompleteWriteNodeId(d, ok) ==
  LET c == CompleteControlTransfer([d EXCEPT !.addressLost = @ \/ ~ok])
  IN  CASE d.generation = "ax179a" ->
             IF Kind(c) = "writeNodeId" THEN AdvanceInitStage(c) ELSE c
        [] d.generation = "ax88179" /\ ok /\ Kind(c) = "writeNodeId" /\ ~c.closing ->
             QueueControlTransfer(c, Request("readNodeId", "none"))
        [] OTHER -> AdvanceUnlessComplete(c)

CompleteStartReceiving(d, ok) ==
  AdvanceUnlessComplete(CompleteControlTransfer(
    [d EXCEPT !.rxLost = ~ok \/ d.request.value # d.rxControl]))

CompleteStopReceiving(d) == Apply(StartReceiving, CompleteControlTransfer(d))

CompleteRequest(d, ok, bit, link) ==
  CASE Op(d) = "readPhy"        -> CompleteReadPhy(d, ok, bit, link)
    [] Op(d) = "writePhy"       -> CompleteWritePhy(d)
    [] Op(d) = "linkReset"      -> CompleteLinkResetTransfer(d, ok, bit)
    [] Op(d) = "writeNodeId"    -> CompleteWriteNodeId(d, ok)
    [] Op(d) = "startReceiving" -> CompleteStartReceiving(d, ok)
    [] Op(d) = "stopReceiving"  -> CompleteStopReceiving(d)
    [] Op(d) = "readNodeId" /\ d.generation = "ax88179" ->
         AdvanceInitStage(CompleteControlTransfer(d))
    [] OTHER -> AdvanceUnlessComplete(CompleteControlTransfer(d))

-----------------------------------------------------------------------------
(* Recovery.  A timer tick that finds a level acts on it.                    *)

Level(errors) ==
  CASE errors >= ResetDeviceErrors -> RecoveryResetDevice
    [] errors < ResetDeviceErrors /\ errors >= ReinitializeErrors -> RecoveryReinitialize
    [] OTHER -> RecoveryResetPipe

(* count errors of a pipe in a row; late: more than the error window after   *)
(* the one before them.                                                      *)
HandleTransportCompletion(d, pipe, count, late) ==
  LET e == [d EXCEPT !.errors[pipe] = (IF late THEN 0 ELSE @) + count]
      level == Level(e.errors[pipe])
  IN  IF level > d.level THEN [e EXCEPT !.level = level, !.pipe = pipe, !.overdue = FALSE] ELSE e

MayReinitialize(d) == IsReady(d) /\ ~d.closing /\ ~d.pending /\ ~d.replay

(* All transfers are cancelled, and the interrupt is not resubmitted.        *)
RequestFullReinitialize(d) ==
  IF MayReinitialize(d)
  THEN [d EXCEPT !.pending = TRUE, !.overdue = FALSE, !.paused = TRUE, !.running = FALSE,
                 !.hardPending = FALSE]
  ELSE d

(* Of the AX88179: what cannot be done yet is left to the timer.             *)
RequestHardReceiveRecovery(d) ==
  CASE d.pending \/ d.replay \/ d.closing -> d
    [] MayReinitialize(d) -> RequestFullReinitialize(d)
    [] OTHER -> [d EXCEPT !.hardPending = TRUE, !.running = FALSE]

(* The USB device is removed after that, and added again: here, it is gone.  *)
ResetUsbDevice(d) == [Device EXCEPT !.generation = d.generation, !.usbReset = TRUE]

ActOnLevel(d) ==
  LET i == [d EXCEPT !.level = RecoveryIdle, !.pipe = ResetFields.pipe]
  IN  IF d.level = RecoveryIdle \/ d.pending \/ d.replay \/ d.hardPending THEN d
      ELSE CASE d.level = RecoveryResetPipe ->
                  IF d.pipe = "receive" THEN RestartReceiving(i) ELSE i
             [] d.level = RecoveryReinitialize -> RequestFullReinitialize(i)
             [] OTHER -> ResetUsbDevice(d)

RetryHardRecovery(d) ==
  IF d.hardPending /\ ~d.pending /\ ~d.replay
  THEN RequestHardReceiveRecovery([d EXCEPT !.hardPending = FALSE]) ELSE d

DrainBlocked(d) == d.pipes # {} \/ Outstanding(d)

(* The state is reset, but for the link state, and init runs once more.      *)
Replay(d) ==
  AdvanceInitStage([field \in DOMAIN d |->
    CASE field = "replay"      -> TRUE
      [] field = "grace"       -> TRUE
      [] field = "running"     -> FALSE
      [] field \in DOMAIN ResetFields \ {"replay", "grace"} -> ResetFields[field]
      [] OTHER -> d[field]])

ContinueReinitializeNoTimeout(d) ==   \* mutant
  IF d.pending /\ ~DrainBlocked(d) THEN Replay(d) ELSE d

(* A drain that has taken too long cancels the control request, which then   *)
(* completes; the tick that finds it blocked still, four seconds later,      *)
(* resets the device.  (Ticks in between change nothing.)                    *)
ContinueReinitialize(d) ==
  CASE ~d.pending -> d
    [] d.pending /\ ~DrainBlocked(d) -> Replay(d)
    [] OTHER -> IF d.overdue THEN ResetUsbDevice(d) ELSE d

ProcessRecovery(d) ==
  Apply(ContinueReinitialize, Apply(RetryHardRecovery, Apply(ActOnLevel, d)))

-----------------------------------------------------------------------------
(* The timer of the running device.  A tick finds no frame received for five *)
(* seconds ("restart", of the AX88179), no transmission completed for as     *)
(* long ("txTimeout"), no look at the link for as long ("fallback"), or      *)
(* nothing of that ("quiet").                                                *)
Ticks == {"restart", "txTimeout", "fallback", "quiet"}

TransmitTimeout(d) ==
  IF IsReady(d) /\ "transmit" \in d.pipes /\ d.level = RecoveryIdle /\ ~d.pending /\ ~d.replay
  THEN [d EXCEPT !.timeouts = @ + 1, !.level = Level(d.timeouts + 1), !.pipe = "transmit",
                 !.overdue = FALSE]
  ELSE d

(* The PHY is asked before the first interrupt, when one asked for it, and   *)
(* as a fallback.                                                            *)
PollLink(d, tick) ==
  IF d.linkReset = 0 /\ CanBeginPhy(d) /\
     (d.refreshPending \/ d.interrupt = "none" \/ tick = "fallback")
  THEN BeginReadPhy([d EXCEPT !.refreshPending = FALSE], PhyPhysicalStatus)
  ELSE d

RunningTick(d, tick) ==
  LET AfterRecovery(p) ==
        CASE p.usbReset -> p
          [] ~p.usbReset /\ p.pending -> [p EXCEPT !.timer = "running"]
          [] ~p.usbReset /\ ~p.pending /\ ~IsReady(p) -> p
          [] OTHER ->
               [IF tick = "restart" /\ p.generation = "ax88179" /\ p.linkState # "down" /\
                   p.running
                THEN RestartReceiving(p) ELSE PollLink(p, tick) EXCEPT !.timer = "running"]
  IN  Apply(AfterRecovery, ProcessRecovery(IF tick = "txTimeout" THEN TransmitTimeout(d) ELSE d))

WaitPhyTick(d) ==
  IF d.retryPending /\ ~Outstanding(d)
  THEN BeginReadPhy([d EXCEPT !.retryPending = FALSE], PhyIdentifier)
  ELSE [d EXCEPT !.retryLost = d.retryPending]

-----------------------------------------------------------------------------
(* Actions.                                                                  *)

Links == {"down"} \cup Speeds

PhyLink == IF regs.negotiated THEN cable ELSE "down"

(* The adapter carries out a request.                                        *)
Performed ==
  LET step == IF Op(dev) = "linkReset" THEN LinkReset(dev)[dev.linkReset] ELSE "none"
  IN  CASE Op(dev) = "writeNodeId" -> [regs EXCEPT !.nodeId = dev.request.value]
        [] Op(dev) = "startReceiving" \/ step = "start" -> [regs EXCEPT !.rx = dev.request.value]
        [] Op(dev) \in {"stopReceiving", "stopRx"} \/ step = "stop" -> [regs EXCEPT !.rx = "stop"]
        [] Op(dev) = "medium" -> [regs EXCEPT !.medium = "1000"]
        [] step = "medium"    -> [regs EXCEPT !.medium = dev.request.value]
        [] Op(dev) = "phyPower" \/ (Op(dev) = "writePhy" /\ Kind(dev) = "restart") ->
             [regs EXCEPT !.negotiated = FALSE]
        [] OTHER -> regs

(* The completion of a PHY write begins: it reads InitStage, and waits for   *)
(* the lock, while others may still move init on.                            *)
BeginCompleteWritePhy ==
  /\ dev.generation = "ax179a" /\ Op(dev) = "writePhy" /\ dev.completedStage = 0
  /\ dev' = [dev EXCEPT !.completedStage = dev.initStage]
  /\ UNCHANGED <<regs, cable, faults, calls>>

MayComplete ==
  /\ dev.canUserTransfer
  /\ dev.generation = "ax179a" /\ Op(dev) = "writePhy" => dev.completedStage # 0

SucceedRequest ==
  /\ MayComplete
  /\ regs' = Performed
  /\ \E bit \in BOOLEAN : dev' = CompleteRequest(dev, TRUE, bit, PhyLink)
  /\ UNCHANGED <<cable, faults, calls>>

(* The request fails, before or after the adapter has acted on it.  One that *)
(* is outstanding when the device closes, or when a drain takes too long, is *)
(* cancelled.                                                                *)
Cancelled == dev.closing \/ (dev.pending /\ dev.overdue)

FailRequest ==
  /\ MayComplete
  /\ Cancelled \/ faults < MaxFaults
  /\ faults' = IF Cancelled THEN faults ELSE faults + 1
  /\ regs' \in {regs, Performed}
  /\ dev' = CompleteRequest(dev, FALSE, FALSE, "down")
  /\ UNCHANGED <<cable, calls>>

(* The end of a pause of the init sequence (NicDoTimerAdvanceInitStage).     *)
TimerAdvance ==
  /\ dev.timer = "advance"
  /\ dev' = AdvanceInitStage([dev EXCEPT !.timer = "none"])
  /\ UNCHANGED <<regs, cable, faults, calls>>

RunTimer(tick) ==
  /\ dev.timer = "running"
  /\ tick \in {"restart", "txTimeout"} => faults < MaxFaults
  /\ faults' = IF tick \in {"restart", "txTimeout"} THEN faults + 1 ELSE faults
  /\ LET d == [dev EXCEPT !.timer = "none"]
     IN  dev' = CASE d.closing -> d
                  [] ~d.closing /\ Kind(d) = "waitPhy" -> WaitPhyTick(d)
                  [] OTHER -> RunningTick(d, tick)
  /\ UNCHANGED <<regs, cable, calls>>

(* The adapter reports its link; the transfer is submitted again.            *)
InterruptStatus ==
  /\ "interrupt" \in dev.pipes /\ ~dev.paused /\ ~dev.closing
  /\ dev' = ProcessInterruptLinkStatus(dev, PhyLink # "down")
  /\ UNCHANGED <<regs, cable, faults, calls>>

(* The last transfer of a pipe completes and none takes its place: the       *)
(* receive ring and the interrupt only when they are not to go on.           *)
CompletePipe(pipe) ==
  /\ pipe \in dev.pipes /\ ~dev.closing
  /\ pipe = "receive" => ~dev.running
  /\ pipe = "interrupt" => dev.paused
  /\ \E timeouts \in IF pipe = "transmit" /\ ~dev.pending THEN {0} ELSE {dev.timeouts} :
       dev' = [dev EXCEPT !.pipes = @ \ {pipe}, !.timeouts = timeouts]
  /\ UNCHANGED <<regs, cable, faults, calls>>

(* Transfers fail, some of them in a row; reception, or the interrupt, goes  *)
(* on.                                                                       *)
TransportError(pipe, count, late) ==
  /\ faults < MaxFaults /\ faults' = faults + 1
  /\ pipe \in dev.pipes /\ ~dev.closing
  /\ LET d == HandleTransportCompletion(dev, pipe, count, late)
     IN  dev' = IF (pipe = "receive" /\ d.running) \/ (pipe = "interrupt" /\ ~d.paused) THEN d
                ELSE [d EXCEPT !.pipes = @ \ {pipe}]
  /\ UNCHANGED <<regs, cable, calls>>

(* Full buffers of stale data for too long (InitializeReceiveParser).        *)
StaleReceive ==
  /\ faults < MaxFaults /\ faults' = faults + 1
  /\ "receive" \in dev.pipes /\ dev.running /\ ~dev.closing
  /\ dev' = IF dev.generation = "ax179a" THEN RequestFullReinitialize(dev)
            ELSE IF dev.hardPending THEN dev ELSE RequestHardReceiveRecovery(dev)
  /\ UNCHANGED <<regs, cable, calls>>

Transmit ==
  /\ IsReady(dev) /\ ~dev.closing /\ "transmit" \notin dev.pipes
  /\ dev' = [dev EXCEPT !.pipes = @ \cup {"transmit"}]
  /\ UNCHANGED <<regs, cable, faults, calls>>

(* The clock: the drain reaches its timeout, the grace period ends.          *)
DrainAges ==
  /\ dev.pending /\ ~dev.overdue
  /\ dev' = [dev EXCEPT !.overdue = TRUE]
  /\ UNCHANGED <<regs, cable, faults, calls>>

GraceEnds ==
  /\ dev.grace
  /\ dev' = [dev EXCEPT !.grace = FALSE]
  /\ UNCHANGED <<regs, cable, faults, calls>>

NegotiationEnds ==
  /\ ~regs.negotiated
  /\ regs' = [regs EXCEPT !.negotiated = TRUE]
  /\ UNCHANGED <<dev, cable, faults, calls>>

CableChanges ==
  /\ calls < MaxCalls /\ calls' = calls + 1
  /\ cable' \in Links \ {cable}
  /\ UNCHANGED <<faults, dev, regs>>

(* A user's NicDoGetOpt or NicDoSetOpt begins its PHY access.                *)
BeginUserPhyTransfer(register, write) ==
  /\ calls < MaxCalls /\ calls' = calls + 1
  /\ UserMayBegin(dev) /\ ~PhyBusy(dev)
  /\ dev' = IF write THEN BeginWritePhy(dev, register) ELSE BeginReadPhy(dev, register)
  /\ UNCHANGED <<faults, regs, cable>>

(* slot: the title's address, or the alternate one.                          *)
NicSetUnicastAddress(address, slot) ==
  /\ calls < MaxCalls /\ calls' = calls + 1
  /\ dev[slot] # address
  /\ dev' = OnUnicastAddressChanged([dev EXCEPT ![slot] = address])
  /\ UNCHANGED <<faults, regs, cable>>

(* Users attach, detach or join a group.                                     *)
ChangeReceiveFilter(filter) ==
  /\ calls < MaxCalls /\ calls' = calls + 1
  /\ dev.filter # filter
  /\ dev' = UpdateReceiveFilter([dev EXCEPT !.filter = filter])
  /\ UNCHANGED <<faults, regs, cable>>

(* BeginRemove or BeginPowerDownAndClose.                                    *)
BeginClose ==
  /\ calls < MaxCalls /\ calls' = calls + 1
  /\ ~dev.closing
  /\ dev' = [dev EXCEPT !.closing = TRUE, !.timer = "none", !.linkState = "down"]
  /\ UNCHANGED <<faults, regs, cable>>

-----------------------------------------------------------------------------

Init ==
  /\ \E generation \in Generations, title \in Addresses \cup {NoAddress} :
       dev = AdvanceInitStage([Device EXCEPT !.generation = generation, !.title = title])
  /\ regs = [nodeId |-> NoAddress, rx |-> "stop", medium |-> "down", negotiated |-> TRUE]
  /\ cable \in Links
  /\ faults = 0
  /\ calls = 0

Next ==
  /\ ~dev.usbReset
  /\ \/ BeginCompleteWritePhy
     \/ SucceedRequest
     \/ FailRequest
     \/ TimerAdvance
     \/ \E tick \in Ticks : RunTimer(tick)
     \/ InterruptStatus
     \/ \E pipe \in Pipes : CompletePipe(pipe)
     \/ \E pipe \in Pipes, count \in 1 .. ResetDeviceErrors, late \in BOOLEAN :
          TransportError(pipe, count, late)
     \/ StaleReceive
     \/ Transmit
     \/ DrainAges
     \/ GraceEnds
     \/ NegotiationEnds
     \/ CableChanges
     \/ \E register \in Registers, write \in BOOLEAN : BeginUserPhyTransfer(register, write)
     \/ \E address \in Addresses, slot \in {"unicast", "alternate"} :
          NicSetUnicastAddress(address, slot)
     \/ \E filter \in Filters \cup {"none"} : ChangeReceiveFilter(filter)
     \/ BeginClose

Spec == Init /\ [][Next]_vars

(* The kernel runs the timers, the USB stack completes control requests, the *)
(* adapter reports its link and the PHY negotiates; the clock goes on.  No   *)
(* transfer of a pipe need complete.                                         *)
Fairness ==
  /\ WF_vars(BeginCompleteWritePhy \/ SucceedRequest \/ FailRequest)
  /\ WF_vars(TimerAdvance)
  /\ WF_vars(RunTimer("quiet"))
  /\ WF_vars(InterruptStatus)
  /\ WF_vars(DrainAges)
  /\ WF_vars(GraceEnds)
  /\ WF_vars(NegotiationEnds)

FairSpec == Spec /\ Fairness

-----------------------------------------------------------------------------
(* Properties.                                                               *)

(* The fields hold values of their types; a stage past Complete, where a     *)
(* debug build stops at an assertion, is the only one beyond the table.      *)
TypeOK ==
  /\ dev.initStage \in 0 .. Complete(dev) + 1
  /\ dev.completedStage \in Nat
  /\ dev.timer \in {"none", "advance", "running"}
  /\ {dev.unicast, dev.alternate, regs.nodeId} \subseteq Addresses \cup {NoAddress}
  /\ dev.linkReset \in 0 .. Len(LinkReset(dev))
  /\ dev.linkRetries \in 0 .. MaximumLinkResetRetries
  /\ dev.retries \in 0 .. PhyReadyMaximumRetries
  /\ dev.interrupt \in {"none", "down", "up"}
  /\ {dev.linkState, dev.told} \subseteq Links \cup {"10"}
  /\ dev.pipes \subseteq Pipes
  /\ dev.level \in RecoveryIdle .. RecoveryResetDevice
  /\ faults \in 0 .. MaxFaults /\ calls \in 0 .. MaxCalls

(* Types, and: a PHY flag, or a link reset, owns the outstanding request, so *)
(* that no failed or cancelled request leaves the PHY busy, or every later   *)
(* link reset unstarted, whatever init, users, interrupt and recovery do.    *)
PhyFlagsOwnRequest ==
  /\ TypeOK
  /\ dev.phyRead   => Op(dev) = "readPhy" /\ ~dev.phyWrite
  /\ dev.phyWrite  => Op(dev) = "writePhy"
  /\ dev.linkReset # 0 => Op(dev) = "linkReset"

(* A replay begins when nothing is in flight, and until it starts reception  *)
(* nothing but its own requests is, whatever users, errors and the link do;  *)
(* the interrupt stays off until the end of it.                              *)
ReplayQuiescent ==
  dev.replay =>
    /\ dev.paused
    /\ dev.pipes \subseteq {"receive"}
    /\ dev.initStage < StageOf(dev, "start") => dev.pipes = {} /\ ~dev.running

(* The known reasons for an init that does not go on.                        *)
InitStalled ==
  \/ Kind(dev) \in {"address", "none"}
  \/ Kind(dev) = "start" /\ dev.startLost
  \/ Kind(dev) = "waitPhy" /\ dev.retryLost

(* Init goes on: a device that is not ready has a request outstanding or its *)
(* timer armed, unless it waits for an address, its write of RX_CTL was lost *)
(* at the start of reception, the retry tick of the PHY was lost, or it was  *)
(* pushed past its last stage.                                               *)
InitNeverStalls ==
  ~IsReady(dev) /\ ~dev.closing /\ ~dev.usbReset =>
    dev.canUserTransfer \/ dev.timer # "none" \/ InitStalled

(* The device comes to rest.  A reinitialization comes to an end: its drain, *)
(* and then its replay, end with a device that is ready, or with a reset of  *)
(* the device, however transfers fail and users call meanwhile; excepted is  *)
(* an init that stalls for one of the reasons above.  A running device has   *)
(* what was last asked for: the receive filter in the adapter, reception on, *)
(* the node ID, the link state of the PHY, told to the users, and the medium *)
(* mode for its speed.  Excepted are writes that were dropped or failed, and *)
(* the medium mode that init writes when the link is known already.          *)
Settles ==
  <>[](~dev.closing /\ ~dev.usbReset =>
         /\ ~dev.pending /\ (dev.replay => InitStalled)
         /\ IsReady(dev) =>
              /\ dev.running
              /\ regs.rx = dev.filter \/ dev.rxLost
              /\ NodeAddress(dev) \in {NoAddress, regs.nodeId} \/ dev.addressLost
              /\ dev.linkState = PhyLink /\ dev.told = PhyLink
              /\ PhyLink \in {"down", regs.medium} \/ dev.mediumStale)
=============================================================================
