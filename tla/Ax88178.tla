------------------------------ MODULE Ax88178 -------------------------------
(***************************************************************************)
(* The AX88178 backend: the init sequence with its pauses, the PHY         *)
(* transaction (acquire the MII bus, read or write, release it), the       *)
(* vendor initialization of the PHY, the receive filter, the Ethernet      *)
(* address, the link state and the restart of reception, which all share   *)
(* the control request of UsbEnetControl and one kernel timer.  Every      *)
(* handler runs under NicLock and is one step.  Recovery from transport    *)
(* errors is left out; of an option call only its PHY transaction is here  *)
(* (its waits are in Rtl8153).  Init stages that do the same to the state  *)
(* are one stage here.                                                     *)
(***************************************************************************)
EXTENDS UsbEnetControl

CONSTANTS
  Addresses,           \* Ethernet addresses
  NoAddress,           \* the zero address
  Devkit,              \* Main::Devkit
  Filters,             \* receive filters: the multicast hash and the RX control word
  Eeproms,             \* what word 0x17 may say: PHY mode, and whether a LED is set up
  PatchCount,          \* writes in a PHY patch
  LastPhyRegister,     \* PhyRegisterExtendedStatus, 11 in the source: last one cached
  PhyReadyRetryLimit,  \* 100 in the source
  MaxEvents            \* bound: user calls, changes, restarts and failed requests

ASSUME Ax88178Assumption ==
  /\ NoAddress \notin Addresses
  /\ Devkit \in BOOLEAN
  /\ Eeproms \subseteq [mode : {"marvell", "realtek", "patch", "none"}, led : BOOLEAN]
  /\ PatchCount \in Nat \ {0}
  /\ LastPhyRegister \in Nat
  /\ PhyReadyRetryLimit \in Nat
  /\ MaxEvents \in Nat

(* USBENET_INIT_STAGE.                                                       *)
InitBeginning                 == 0
InitReadEepromConfig          == 1
InitWriteGpio                 == 2    \* GPIO1 to GPIO4 and the two resets ...
InitPause                     == 3    \* ... each followed by a pause
InitReadNodeId                == 4
InitWaitingForEthernetAddress == 5
InitWriteNodeId               == 6
InitReadPhyAddressRegister    == 7
InitWaitPhyReady              == 8
InitReadPhyRegisters          == 9
InitWriteMediumStatus         == 10
InitWriteMiiControl           == 11
InitWritePhyAnar              == 12   \* and the expansion and 1000T registers
InitVendor                    == 13   \* WriteMarvellExtPhySpecificCtrl
InitWritePhyControl           == 14
InitWriteIpg                  == 15
InitStartReceiving            == 16
InitComplete                  == 17   \* and Ready, which turns into it
InitStages == InitBeginning .. InitComplete

(* PHY registers.                                                            *)
PhyRegisterControl     == 0
PhyRegisterStatus      == 1
PhyRegisterIdentifier1 == 2
PhyRegisterAnar        == 4
PhyRegisterMarvell     == 20
PhyRegisterLed         == 25
PhyRegisterPage        == 31
LinkRegisters == {0, 1, 4, 5, 6, 9, 10}   \* those a link state is worked out from

VARIABLES
  dev,      \* the device extension and the fields of CAx88178
  regs,     \* adapter: node ID, multicast hash, RX control, MII owner, PHY page
  link,     \* adapter: the link of the PHY, "down" or "up"
  events    \* counter of the bound

vars == <<dev, regs, link, events>>

Request(op, value) == [op |-> op, value |-> value]

(* What each is for; only the one that writes the node ID carries a value.   *)
InitOps   == {"gpio", "readNodeId", "readPhyAddress", "mii", "ipg"}
PhyOps    == {"acquire", "readPhy", "writePhy", "release"}
Requests  ==
  [op: InitOps \cup PhyOps \cup {"eeprom", "medium", "filter", "stopReceiving"}, value: {"none"}]
    \cup [op: {"writeNodeId"}, value: Addresses \cup {NoAddress}]

ASSUME RequestAssumption == NoRequest \notin Requests

Op(d) == IF d.canUserTransfer THEN d.request.op ELSE "none"

BackendFields == [
  initStage     |-> InitBeginning,
  timer         |-> "none",       \* the DPC the kernel timer is armed with
  kernel        |-> [title |-> NoAddress, debug |-> NoAddress],
  unicast       |-> NoAddress,    \* UnicastAddress
  alternate     |-> NoAddress,    \* AlternateUnicastAddress
  phyRead       |-> FALSE,        \* PHY_READ_IN_PROGRESS
  phyWrite      |-> FALSE,        \* PHY_WRITE_IN_PROGRESS
  serial        |-> FALSE,        \* SERIAL_MGMT_CONTROL
  phyRegister   |-> 0,            \* CurrentPhyRegister
  phyValue      |-> "zero",       \* CurrentPhyValue
  readAll       |-> FALSE,        \* READ_ALL_PHY_REGISTERS
  refresh       |-> FALSE,        \* REFRESH_PHY_REGISTERS
  linkPending   |-> FALSE,        \* LINK_STATE_UPDATE_PENDING
  notify        |-> FALSE,        \* NOTIFY_LINK_STATE
  phyLink       |-> "unread",     \* the link in PhyRegisters
  linkState     |-> "down",       \* LinkState, without speed and duplex
  told          |-> "down",       \* ghost: the link state users were told of
  interrupt     |-> "none",       \* m_InterruptStatusSeen and m_InterruptLinkUp
  refreshPending |-> FALSE,       \* m_InterruptPhyRefreshPending
  authoritative |-> FALSE,        \* m_InterruptLinkAuthoritative
  eepromValid   |-> FALSE,        \* m_EepromWord17Valid
  configStep    |-> "idle",       \* m_PhyConfigStep
  configInitial |-> FALSE,        \* m_PhyConfigInitialRead
  mode          |-> "none",       \* m_PhyMode, once eepromValid
  led           |-> FALSE,        \* m_LedMode asks for the LED, once eepromValid
  ledStep       |-> "idle",       \* m_MarvellLedStep
  lastLed       |-> FALSE,        \* m_LastMarvellLedState is that of the (one) speed
  realtekStep   |-> "idle",       \* m_RealtekPhyInitStep
  realtekFailed |-> FALSE,        \* m_RealtekPhyInitOperationFailed
  patching      |-> FALSE,        \* m_PhyPatch # NULL
  patchIndex    |-> 0,
  patchFailed   |-> FALSE,        \* m_PhyPatchOperationFailed
  retries       |-> 0,            \* m_PhyReadyRetryCount
  retryPending  |-> FALSE,        \* m_PhyReadyRetryPending
  filter        |-> [hash |-> "none", rx |-> "stop"],   \* asked for by the users
  filterStep    |-> "idle",
  filterPending |-> FALSE,        \* m_FilterUpdatePending
  pendingFilter |-> [hash |-> "none", rx |-> "stop"],   \* m_Pending...
  hash          |-> "none",       \* m_MulticastFilter
  submitRing    |-> FALSE,        \* m_FilterSubmitReceiveRing
  running       |-> FALSE,        \* ReceiveRunning
  addressLost   |-> FALSE,        \* ghost: a write of the node ID was dropped or failed
  nodeIdFailed  |-> FALSE,        \* ghost: the read of the node ID failed
  hashLost      |-> FALSE,        \* ghost: a write of the multicast hash failed
  pageLost      |-> FALSE ]       \* ghost: a request that sets the PHY page failed

-----------------------------------------------------------------------------
(* Requests.  The code only traps (debug builds) when an init request that   *)
(* is not part of a PHY transaction finds the channel busy: it is dropped.   *)

PhyBusy(d) == d.phyRead \/ d.phyWrite

CanBeginPhy(d) == ~PhyBusy(d) /\ CanQueueControlTransfer(d)

QueueOrDrop(d, op) ==
  IF CanQueueControlTransfer(d) THEN QueueControlTransfer(d, Request(op, "none")) ELSE d

QueuePhy(d, op) ==
  QueueControlTransfer(d, Request(IF d.serial THEN op ELSE "acquire", "none"))

(* Both succeed where CanBeginPhy(d); refused by the channel, they have set  *)
(* the current register and value all the same.                              *)
BeginReadPhy(d, register) ==
  LET b == [d EXCEPT !.phyRegister = register, !.phyValue = "zero"]
  IN  CASE CanBeginPhy(d)            -> QueuePhy([b EXCEPT !.phyRead = TRUE], "readPhy")
        [] d.closing \/ PhyBusy(d)   -> d
        [] OTHER                     -> b

BeginWritePhy(d, register, value) ==
  LET b == [d EXCEPT !.phyRegister = register, !.phyValue = value]
  IN  CASE CanBeginPhy(d)            -> QueuePhy([b EXCEPT !.phyWrite = TRUE], "writePhy")
        [] d.closing \/ PhyBusy(d)   -> d
        [] OTHER                     -> b

BeginReadAllPhy(d) ==
  LET b == BeginReadPhy(d, 0)
  IN  IF CanBeginPhy(d) THEN [b EXCEPT !.readAll = TRUE] ELSE b

NodeAddress(d) == IF d.unicast # NoAddress THEN d.unicast ELSE d.alternate

QueueNodeId(d) ==
  IF CanQueueControlTransfer(d)
  THEN QueueControlTransfer([d EXCEPT !.addressLost = FALSE],
                            Request("writeNodeId", NodeAddress(d)))
  ELSE [d EXCEPT !.addressLost = TRUE]

(* A queue failure is not possible past the tests.                           *)
BeginFilterUpdate(d, submitReceiveRing) ==
  LET e == [d EXCEPT !.submitRing = @ \/ submitReceiveRing]
  IN  CASE d.closing -> d
        [] ~d.closing /\ (d.filterStep # "idle" \/ d.canUserTransfer) ->
             [e EXCEPT !.filterPending = TRUE]
        [] OTHER ->
             QueueControlTransfer(
               [e EXCEPT !.pendingFilter = d.filter, !.filterPending = FALSE,
                         !.filterStep = IF d.filter.hash # d.hash THEN "hash" ELSE "rx"],
               Request("filter", "none"))

-----------------------------------------------------------------------------
(* AdvanceInitStage: what each stage does on entry, the last one first, for  *)
(* a stage that cannot begin its transfer goes on to the next.               *)

At(d, stage) == [d EXCEPT !.initStage = stage]

(* A device that closes takes init for over.                                 *)
Advance(d, entered) == IF d.closing THEN At(d, InitComplete) ELSE entered

EnterComplete(d)       == [At(d, InitComplete) EXCEPT !.timer = "running"]
EnterStartReceiving(d) == BeginFilterUpdate(At(d, InitStartReceiving), TRUE)
EnterWriteIpg(d)       == QueueOrDrop(At(d, InitWriteIpg), "ipg")

EnterWritePhyControl(d) ==
  LET e == At(d, InitWritePhyControl)
      b == BeginWritePhy(e, PhyRegisterControl, "other")
  IN  IF CanBeginPhy(e) THEN b ELSE EnterWriteIpg(b)

(* The writes and the read by which the Realtek PHY is set up: page 5, then  *)
(* page 0 again, then page 2 for the LED, then page 0 again.                 *)
RealtekSteps == {"page5", "clear", "read", "set", "restore",
                 "ledPage", "led", "restoreLed", "restoreFailure"}

QueueRealtekPhyInitStep(d) ==
  CASE d.realtekStep = "page5"   -> BeginWritePhy(d, PhyRegisterPage, "page5")
    [] d.realtekStep = "ledPage" -> BeginWritePhy(d, PhyRegisterPage, "page2")
    [] d.realtekStep = "read"    -> BeginReadPhy(d, 1)
    [] d.realtekStep = "clear"   -> BeginWritePhy(d, 12, "other")
    [] d.realtekStep = "set"     -> BeginWritePhy(d, 1, "other")
    [] d.realtekStep = "led"     -> BeginWritePhy(d, 26, "other")
    [] OTHER                     -> BeginWritePhy(d, PhyRegisterPage, "zero")

QueueNextPhyPatch(d) == BeginWritePhy(d, 30, "other")

EndPatch(d) == [d EXCEPT !.patching = FALSE, !.patchIndex = 0, !.patchFailed = FALSE]

ContinueVendorPhyInitialization(d) ==
  LET e == [d EXCEPT !.configStep = "idle"]
      r == [e EXCEPT !.realtekStep = "page5", !.realtekFailed = FALSE]
      p == [e EXCEPT !.patching = TRUE, !.patchIndex = 0, !.patchFailed = FALSE]
  IN  CASE e.eepromValid /\ CanBeginPhy(e) /\ e.mode = "marvell" ->
             BeginWritePhy(e, PhyRegisterMarvell, "other")
        [] e.eepromValid /\ CanBeginPhy(e) /\ e.mode = "realtek" -> QueueRealtekPhyInitStep(r)
        [] e.eepromValid /\ CanBeginPhy(e) /\ e.mode = "patch"   -> QueueNextPhyPatch(p)
        [] OTHER -> Advance(e, EnterWritePhyControl(e))

BeginEepromConfig(d, initialRead, otherwise) ==
  IF CanQueueControlTransfer(d)
  THEN QueueControlTransfer([d EXCEPT !.configInitial = initialRead, !.configStep = "enable"],
                            Request("eeprom", "none"))
  ELSE otherwise

EnterVendor(d) ==
  LET e == At(d, InitVendor)
  IN  IF e.eepromValid THEN ContinueVendorPhyInitialization(e)
      ELSE BeginEepromConfig(e, FALSE, ContinueVendorPhyInitialization(e))

EnterWritePhyAnar(d) ==
  LET e == At(d, InitWritePhyAnar)
      b == BeginWritePhy(e, PhyRegisterAnar, "other")
  IN  IF CanBeginPhy(e) THEN b ELSE EnterVendor(b)

EnterWriteMiiControl(d) == QueueOrDrop(At(d, InitWriteMiiControl), "mii")

EnterWriteMediumStatus(d) ==
  LET e == At(d, InitWriteMediumStatus)
  IN  IF CanQueueControlTransfer(e) THEN QueueOrDrop(e, "medium") ELSE EnterWriteMiiControl(e)

EnterReadPhyRegisters(d) ==
  LET e == At(d, InitReadPhyRegisters)
      b == BeginReadAllPhy(e)
  IN  IF CanBeginPhy(e) THEN b ELSE EnterWriteMediumStatus(b)

RetryPhyReadyNoTimer(d) == [d EXCEPT !.retryPending = TRUE]   \* mutant

RetryPhyReadyLater(d) == [d EXCEPT !.retryPending = TRUE, !.timer = "running"]

EnterWaitPhyReady(d) ==
  LET e == [At(d, InitWaitPhyReady) EXCEPT !.retries = 0, !.retryPending = FALSE]
      b == BeginReadPhy(e, PhyRegisterIdentifier1)
  IN  IF CanBeginPhy(e) THEN b ELSE RetryPhyReadyLater(b)

EnterReadPhyAddressRegister(d) ==
  QueueOrDrop(At(d, InitReadPhyAddressRegister), "readPhyAddress")

EnterWriteNodeId(d) ==
  LET e == At(d, InitWriteNodeId)
  IN  IF NodeAddress(e) = NoAddress THEN EnterReadPhyAddressRegister(e) ELSE QueueNodeId(e)

(* The kernel may know the addresses of the title and the debugger by now;   *)
(* on a devkit kernel.debug stands for the address that is made from the     *)
(* title's when the debugger has none.                                       *)
EnterWaitingForEthernetAddress(d) ==
  LET e == [At(d, InitWaitingForEthernetAddress) EXCEPT
              !.unicast   = IF d.kernel.title # NoAddress THEN d.kernel.title ELSE @,
              !.alternate = CASE ~Devkit                       -> NoAddress
                              [] Devkit /\ d.kernel.debug # NoAddress -> d.kernel.debug
                              [] OTHER                         -> @]
  IN  IF e.unicast # NoAddress THEN EnterWriteNodeId(e) ELSE e

(* From a pause on, entering the next stage stops the timer.                 *)
EnterReadNodeId(d) == QueueOrDrop([At(d, InitReadNodeId) EXCEPT !.timer = "none"], "readNodeId")
EnterPause(d)      == [At(d, InitPause) EXCEPT !.timer = "advance"]
EnterWriteGpio(d)  == QueueOrDrop(At(d, InitWriteGpio), "gpio")

EnterReadEepromConfig(d) ==
  LET e == At(d, InitReadEepromConfig)
  IN  BeginEepromConfig(e, TRUE, EnterWriteGpio(e))

AdvanceInitStage(d) ==
  Advance(d,
    CASE d.initStage = InitBeginning                 -> EnterReadEepromConfig(d)
      [] d.initStage = InitReadEepromConfig          -> EnterWriteGpio(d)
      [] d.initStage = InitWriteGpio                 -> EnterPause(d)
      [] d.initStage = InitPause                     -> EnterReadNodeId(d)
      [] d.initStage = InitReadNodeId                -> EnterWaitingForEthernetAddress(d)
      [] d.initStage = InitWaitingForEthernetAddress -> EnterWriteNodeId(d)
      [] d.initStage = InitWriteNodeId               -> EnterReadPhyAddressRegister(d)
      [] d.initStage = InitReadPhyAddressRegister    -> EnterWaitPhyReady(d)
      [] d.initStage = InitWaitPhyReady              -> EnterReadPhyRegisters(d)
      [] d.initStage = InitReadPhyRegisters          -> EnterWriteMediumStatus(d)
      [] d.initStage = InitWriteMediumStatus         -> EnterWriteMiiControl(d)
      [] d.initStage = InitWriteMiiControl           -> EnterWritePhyAnar(d)
      [] d.initStage = InitWritePhyAnar              -> EnterVendor(d)
      [] d.initStage = InitVendor                    -> EnterWritePhyControl(d)
      [] d.initStage = InitWritePhyControl           -> EnterWriteIpg(d)
      [] d.initStage = InitWriteIpg                  -> EnterStartReceiving(d)
      [] d.initStage = InitStartReceiving            -> EnterComplete(d)
      [] OTHER                                       -> At(d, InitComplete + 1))

(* For the many callers that go on unless init is over.                      *)
AdvanceUnlessComplete(d) == IF d.initStage # InitComplete THEN AdvanceInitStage(d) ELSE d

-----------------------------------------------------------------------------
(* The link state and the LED.                                               *)

WriteMediumStatus(d) ==
  IF CanQueueControlTransfer(d) THEN QueueOrDrop(d, "medium") ELSE AdvanceUnlessComplete(d)

(* An interrupt that the last PHY refresh has not answered yet outweighs the *)
(* registers.                                                                *)
UpdateLinkState(d) ==
  LET interruptRules == d.interrupt # "none" /\ d.authoritative
      up  == IF interruptRules THEN d.interrupt = "up" ELSE ~d.closing /\ d.phyLink = "up"
      new == IF up THEN "up" ELSE "down"
      e   == IF d.linkState # new
             THEN WriteMediumStatus([d EXCEPT !.linkState = new, !.notify = TRUE])
             ELSE AdvanceUnlessComplete(d)
  IN  [e EXCEPT !.refreshPending = FALSE, !.authoritative = FALSE]

UpdateMarvellLed(d) ==
  IF /\ d.eepromValid /\ d.mode = "marvell" /\ d.led
     /\ d.linkState = "up" /\ d.ledStep = "idle" /\ ~d.lastLed
  THEN [BeginReadPhy(d, PhyRegisterLed) EXCEPT
          !.lastLed = TRUE, !.ledStep = IF CanBeginPhy(d) THEN "read" ELSE "idle"]
  ELSE d

-----------------------------------------------------------------------------
(* The end of a PHY transaction: what it was for decides what comes next.    *)

FinishWaitPhyReady(d, ok) ==
  LET ready == ok /\ d.phyValue = "identifier"
  IN  IF ~ready /\ d.retries < PhyReadyRetryLimit
      THEN RetryPhyReadyLater([d EXCEPT !.retries = @ + 1])
      ELSE AdvanceInitStage([d EXCEPT !.retryPending = FALSE])

FinishPatchWrite(d, ok) ==
  LET e == [d EXCEPT !.patchIndex = @ + 1]
  IN  IF ok /\ ~d.patchFailed /\ e.patchIndex < PatchCount /\ CanBeginPhy(e)
      THEN QueueNextPhyPatch(e)
      ELSE AdvanceInitStage(EndPatch(d))

RealtekStepAfter(d) ==
  CASE d.realtekStep = "page5"               -> "clear"
    [] d.realtekStep = "clear"               -> "read"
    [] d.realtekStep = "read"                -> "set"
    [] d.realtekStep = "set"                 -> "restore"
    [] d.realtekStep = "restore" /\ d.led    -> "ledPage"
    [] d.realtekStep = "ledPage"             -> "led"
    [] d.realtekStep = "led"                 -> "restoreLed"
    [] OTHER                                 -> "idle"

FinishRealtekStepNoRestore(d) ==   \* mutant
  LET next == IF d.realtekFailed THEN "idle" ELSE RealtekStepAfter(d)
      e == [d EXCEPT !.realtekStep = next, !.realtekFailed = FALSE]
  IN  IF next # "idle" /\ CanBeginPhy(e) THEN QueueRealtekPhyInitStep(e)
      ELSE AdvanceInitStage([e EXCEPT !.realtekStep = "idle"])

(* A step that fails with another page selected is followed by the restore.  *)
FinishRealtekStep(d) ==
  LET next == CASE ~d.realtekFailed -> RealtekStepAfter(d)
                [] d.realtekFailed /\ d.realtekStep \in {"clear", "read", "set", "ledPage", "led"} ->
                     "restoreFailure"
                [] OTHER -> "idle"
      e == [d EXCEPT !.realtekStep = next, !.realtekFailed = FALSE]
  IN  IF next # "idle" /\ CanBeginPhy(e) THEN QueueRealtekPhyInitStep(e)
      ELSE AdvanceInitStage([e EXCEPT !.realtekStep = "idle"])

FinishLinkRead(d) ==
  LET r == [d EXCEPT !.refresh = FALSE]
      u == [d EXCEPT !.refresh = FALSE, !.linkPending = FALSE]
  IN  CASE d.refresh /\ (CanBeginPhy(r) \/ ~d.linkPending) -> BeginReadAllPhy(r)
        [] ~d.refresh /\ ~d.linkPending                    -> AdvanceUnlessComplete(d)
        [] OTHER                                           -> UpdateLinkState(u)

FinishLedOrLink(d) ==
  LET w == [d EXCEPT !.ledStep = "write"]
      i == [d EXCEPT !.ledStep = "idle"]
  IN  CASE d.ledStep = "read" /\ CanBeginPhy(w) -> BeginWritePhy(w, PhyRegisterLed, "other")
        [] d.ledStep = "write"                  -> i
        [] OTHER -> IF d.initStage = InitVendor /\ d.realtekStep # "idle"
                    THEN FinishRealtekStep(i) ELSE FinishLinkRead(i)

FinishPhyTransaction(d, ok) ==
  LET e == [d EXCEPT !.serial = FALSE]
  IN  CASE e.initStage = InitWaitPhyReady               -> FinishWaitPhyReady(e, ok)
        [] e.initStage # InitWaitPhyReady /\ e.patching -> FinishPatchWrite(e, ok)
        [] OTHER                                        -> FinishLedOrLink(e)

-----------------------------------------------------------------------------
(* Completion routines: ok says whether the request succeeded.               *)

CompletePhyConfigStep(d, ok) ==
  LET e == [CompleteControlTransfer(d) EXCEPT
              !.eepromValid = @ \/ (ok /\ d.configStep = "read"),
              !.configStep  = CASE @ = "enable" /\ ok -> "read"
                                [] @ = "disable"      -> "idle"
                                [] OTHER              -> "disable"]
      i == [e EXCEPT !.configStep = "idle", !.configInitial = FALSE]
  IN  CASE e.configStep # "idle" /\ CanQueueControlTransfer(e) ->
             QueueControlTransfer(e, Request("eeprom", "none"))
        [] OTHER -> IF d.configInitial THEN AdvanceInitStage(i)
                                       ELSE ContinueVendorPhyInitialization(i)

(* Init stays where it is when the read of the node ID fails.                *)
CompleteReadNodeId(d, ok) ==
  LET c == CompleteControlTransfer(d)
  IN  IF ok THEN AdvanceInitStage(c) ELSE [c EXCEPT !.nodeIdFailed = TRUE]

CompleteWriteNodeId(d, ok) ==
  AdvanceUnlessComplete([CompleteControlTransfer(d) EXCEPT !.addressLost = @ \/ ~ok])

(* Of the GPIOs, the resets, the PHY address, the MII control and the IPG.   *)
CompleteInitRequest(d) == AdvanceInitStage(CompleteControlTransfer(d))

CompleteWriteMediumStatus(d) ==
  LET c == CompleteControlTransfer(d)
      e == IF c.initStage # InitComplete THEN AdvanceInitStage(c) ELSE UpdateMarvellLed(c)
  IN  [e EXCEPT !.notify = FALSE, !.told = IF e.notify THEN e.linkState ELSE @]

AcquireFailed(d) ==
  LET c == [CompleteControlTransfer(d) EXCEPT
              !.phyRead = FALSE, !.phyWrite = FALSE, !.pageLost = @ \/ d.realtekStep # "idle"]
      w == [c EXCEPT !.phyValue = "other"]
  IN  CASE c.initStage = InitWaitPhyReady ->
             IF c.retries < PhyReadyRetryLimit
             THEN RetryPhyReadyLater([w EXCEPT !.retries = @ + 1])
             ELSE AdvanceInitStage(w)
        [] c.initStage # InitWaitPhyReady /\ c.patching ->
             AdvanceInitStage([EndPatch(c) EXCEPT !.patchFailed = TRUE])
        [] c.ledStep # "idle" -> [c EXCEPT !.ledStep = "idle"]
        [] OTHER -> AdvanceUnlessComplete([c EXCEPT !.realtekStep = "idle", !.realtekFailed = FALSE])

Acquired(d) ==
  LET c == [CompleteControlTransfer(d) EXCEPT !.serial = TRUE, !.phyRead = FALSE, !.phyWrite = FALSE]
      w == IF d.phyRead /\ c.initStage = InitWaitPhyReady
           THEN [c EXCEPT !.phyValue = "other"] ELSE c
  IN  CASE ~CanBeginPhy(c) -> FinishPhyTransaction(w, FALSE)
        [] CanBeginPhy(c) /\ d.phyRead -> BeginReadPhy(c, d.phyRegister)
        [] OTHER -> BeginWritePhy(c, d.phyRegister, d.phyValue)

CompleteAcquireSerialMgmtControl(d, ok) == IF ok THEN Acquired(d) ELSE AcquireFailed(d)

QueueRelease(d) ==
  IF CanQueueControlTransfer(d) THEN QueueOrDrop(d, "release") ELSE FinishPhyTransaction(d, FALSE)

(* v: the value read, as an identifier or another, as a link, and whether    *)
(* another link register is news.                                            *)
CompleteReadPhy(d, ok, v) ==
  LET c == [CompleteControlTransfer(d) EXCEPT !.phyRead = FALSE]
      paged == d.initStage = InitVendor /\ d.realtekStep = "read"
      links == ~paged /\ d.phyRegister = PhyRegisterStatus /\ v.link # d.phyLink
      r == IF ~ok
           THEN [c EXCEPT !.realtekFailed = @ \/ paged,
                          !.phyValue = IF d.initStage = InitWaitPhyReady THEN "other" ELSE @]
           ELSE [c EXCEPT !.phyValue = v.value,
                          !.phyLink = IF links THEN v.link ELSE @,
                          !.linkPending = @ \/ links \/ (v.news /\ ~paged),
                          !.refresh = @ \/ (links /\ d.initStage = InitComplete /\ ~d.readAll)]
      n == BeginReadPhy(r, r.phyRegister + 1)
  IN  CASE ~(r.readAll /\ r.phyRegister < LastPhyRegister) ->
             QueueRelease([r EXCEPT !.readAll = FALSE])
        [] OTHER -> IF CanBeginPhy(r) THEN n ELSE AdvanceUnlessComplete([n EXCEPT !.readAll = FALSE])

(* A page write that fails, and is not followed by a restore, is noted.      *)
CompleteWritePhy(d, ok) ==
  QueueRelease([CompleteControlTransfer(d) EXCEPT
    !.phyWrite = FALSE,
    !.realtekFailed = @ \/ (~ok /\ d.initStage = InitVendor /\ d.realtekStep # "idle"),
    !.patchFailed   = @ \/ (~ok /\ d.patching),
    !.pageLost      = @ \/ (~ok /\ d.realtekStep \in {"page5", "restore", "restoreLed",
                                                      "restoreFailure"})])

CompleteReleaseSerialMgmtControl(d, ok) == FinishPhyTransaction(CompleteControlTransfer(d), ok)

CompleteFilterUpdate(d, ok) ==
  LET c == CompleteControlTransfer(d)
      h == [c EXCEPT !.filterStep = "rx",
                     !.hash = IF ok THEN d.pendingFilter.hash ELSE @,
                     !.hashLost = ~ok,
                     !.filterPending = @ \/ ~ok]
      f == [c EXCEPT !.filterStep = "idle", !.filterPending = TRUE, !.timer = "running"]
      s == [c EXCEPT !.filterStep = "idle", !.running = @ \/ d.submitRing, !.submitRing = FALSE]
  IN  CASE d.filterStep = "hash" /\ CanQueueControlTransfer(h) -> QueueOrDrop(h, "filter")
        [] d.filterStep = "hash" /\ ~CanQueueControlTransfer(h) ->
             [h EXCEPT !.filterStep = "idle", !.filterPending = TRUE, !.timer = "running"]
        [] d.filterStep # "hash" /\ ~ok -> f
        [] OTHER -> CASE s.initStage = InitStartReceiving -> AdvanceInitStage(s)
                      [] s.initStage # InitStartReceiving /\ s.filterPending ->
                           BeginFilterUpdate(s, FALSE)
                      [] OTHER -> s

StartReceiving(d) == BeginFilterUpdate(d, TRUE)

CompleteStopReceiving(d) == StartReceiving(CompleteControlTransfer(d))

CompleteRequest(d, ok, v) ==
  CASE Op(d) = "eeprom"        -> CompletePhyConfigStep(d, ok)
    [] Op(d) = "readNodeId"    -> CompleteReadNodeId(d, ok)
    [] Op(d) = "writeNodeId"   -> CompleteWriteNodeId(d, ok)
    [] Op(d) = "medium"        -> CompleteWriteMediumStatus(d)
    [] Op(d) = "acquire"       -> CompleteAcquireSerialMgmtControl(d, ok)
    [] Op(d) = "readPhy"       -> CompleteReadPhy(d, ok, v)
    [] Op(d) = "writePhy"      -> CompleteWritePhy(d, ok)
    [] Op(d) = "release"       -> CompleteReleaseSerialMgmtControl(d, ok)
    [] Op(d) = "filter"        -> CompleteFilterUpdate(d, ok)
    [] Op(d) = "stopReceiving" -> CompleteStopReceiving(d)
    [] OTHER                   -> CompleteInitRequest(d)

-----------------------------------------------------------------------------
(* The timer of the running device.                                          *)

RestartReceiving(d) ==
  IF d.running /\ CanQueueControlTransfer(d)
  THEN QueueOrDrop([d EXCEPT !.running = FALSE], "stopReceiving")
  ELSE d

Outstanding(d) == d.canUserTransfer \/ PhyBusy(d)

(* What a tick of the running device finds to do: nothing was received for a *)
(* while with the link up ("restart"), five seconds have passed since the    *)
(* last look at the PHY ("fallback"), or neither.                            *)
Ticks == {"restart", "fallback", "quiet"}

(* Before the first interrupt every tick reads the PHY; after it, when an    *)
(* interrupt asks for it, or as a fallback.  all: the link is not negotiated.*)
PollLink(d, tick, all) ==
  LET distrust == [d EXCEPT !.refreshPending = TRUE, !.authoritative = TRUE, !.linkPending = TRUE]
      read == IF all THEN BeginReadAllPhy(d) ELSE BeginReadPhy(d, PhyRegisterStatus)
  IN  IF d.interrupt = "none"
      THEN [read EXCEPT !.linkPending = @ \/ tick = "fallback"]
      ELSE CASE d.refreshPending -> IF Outstanding(d) THEN d ELSE BeginReadAllPhy(d)
             [] ~d.refreshPending /\ tick = "fallback" ->
                  IF Outstanding(d) THEN d ELSE BeginReadPhy(d, PhyRegisterStatus)
             [] OTHER -> IF d.interrupt = "up" /\ d.linkState = "down" THEN distrust ELSE d

TimerTick(d, tick, all) ==
  LET p == IF tick = "restart" /\ d.linkState = "up" /\ d.running
           THEN RestartReceiving(d) ELSE PollLink(d, tick, all)
      f == IF p.filterPending /\ p.filterStep = "idle" /\ ~p.canUserTransfer
           THEN BeginFilterUpdate([p EXCEPT !.filterPending = FALSE], FALSE) ELSE p
  IN  [f EXCEPT !.timer = "running"]

TimerWaitPhyReady(d) ==
  IF d.retryPending /\ ~Outstanding(d)
  THEN BeginReadPhy([d EXCEPT !.retryPending = FALSE], PhyRegisterIdentifier1)
  ELSE d

-----------------------------------------------------------------------------
(* Actions.                                                                  *)

(* What a read of the PHY may return; from another page it is no link state. *)
ReadResults ==
  {v \in [value : {"identifier", "other"}, link : {"down", "up"}, news : BOOLEAN] :
     /\ v.news => Op(dev) = "readPhy" /\ dev.phyRegister \in LinkRegisters \ {PhyRegisterStatus}
     /\ v.value = "identifier" => Op(dev) = "readPhy" /\ dev.initStage = InitWaitPhyReady
     /\ v.link # link => Op(dev) = "readPhy" /\ regs.page # "zero"}

(* The adapter carries out a request.                                        *)
Performed ==
  CASE Op(dev) = "writeNodeId"   -> [regs EXCEPT !.nodeId = dev.request.value]
    [] Op(dev) = "acquire"       -> [regs EXCEPT !.softwareMii = TRUE]
    [] Op(dev) = "release"       -> [regs EXCEPT !.softwareMii = FALSE]
    [] Op(dev) = "stopReceiving" -> [regs EXCEPT !.rx = "stop"]
    [] Op(dev) = "filter" /\ dev.filterStep = "hash" ->
         [regs EXCEPT !.hash = dev.pendingFilter.hash]
    [] Op(dev) = "filter" /\ dev.filterStep = "rx" ->
         [regs EXCEPT !.rx = dev.pendingFilter.rx]
    [] Op(dev) = "writePhy" /\ dev.phyRegister = PhyRegisterPage ->
         [regs EXCEPT !.page = dev.phyValue]
    [] OTHER                     -> regs

SucceedRequest ==
  /\ dev.canUserTransfer
  /\ regs' = Performed
  /\ \E v \in ReadResults : dev' = CompleteRequest(dev, TRUE, v)
  /\ UNCHANGED <<link, events>>

(* The request fails, before or after the adapter has acted on it.  One that *)
(* is outstanding when the device closes is cancelled, by the control DPC    *)
(* (so that the adapter never sees it) or by the USB stack.                  *)
FailRequest ==
  /\ dev.canUserTransfer
  /\ dev.closing \/ events < MaxEvents
  /\ events' = IF dev.closing THEN events ELSE events + 1
  /\ regs' \in {regs, Performed}
  /\ dev' = CompleteRequest(dev, FALSE, [value |-> "other", link |-> link, news |-> FALSE])
  /\ UNCHANGED link

(* The end of a pause of the init sequence (NicDoTimerAdvanceInitStage).     *)
TimerAdvance ==
  /\ dev.timer = "advance"
  /\ dev' = AdvanceInitStage([dev EXCEPT !.timer = "none"])
  /\ UNCHANGED <<regs, link, events>>

RunTimer(tick, all) ==
  /\ dev.timer = "running"
  /\ tick = "restart" => events < MaxEvents
  /\ events' = IF tick = "restart" THEN events + 1 ELSE events
  /\ LET d == [dev EXCEPT !.timer = "none"]
     IN  dev' = CASE d.closing -> d
                  [] ~d.closing /\ d.initStage = InitWaitPhyReady -> TimerWaitPhyReady(d)
                  [] ~d.closing /\ d.initStage = InitStartReceiving /\ d.filterStep = "idle" ->
                       BeginFilterUpdate(d, TRUE)
                  [] ~d.closing /\ d.initStage = InitComplete -> TimerTick(d, tick, all)
                  [] OTHER -> d
  /\ UNCHANGED <<regs, link>>

(* The adapter reports its link through the interrupt endpoint.              *)
ProcessInterruptLinkStatus ==
  /\ dev.initStage = InitComplete /\ ~dev.closing
  /\ LET d == [dev EXCEPT !.interrupt = link]
         news == dev.interrupt # link \/ (link = "up" /\ dev.linkState = "down")
         n == [d EXCEPT !.refreshPending = TRUE, !.authoritative = TRUE, !.linkPending = TRUE]
         r == IF ~news THEN d ELSE IF Outstanding(n) THEN n ELSE BeginReadAllPhy(n)
     IN  dev' = IF link = "up" \/ r.linkState = "down" THEN r
                ELSE [r EXCEPT !.linkState = "down", !.told = "down"]
  /\ UNCHANGED <<regs, link, events>>

LinkChanges ==
  /\ events < MaxEvents /\ events' = events + 1
  /\ link' \in {"down", "up"} \ {link}
  /\ UNCHANGED <<dev, regs>>

(* A user's NicDoGetOpt or NicDoSetOpt begins its PHY transaction.           *)
BeginUserPhyTransfer(register, write) ==
  /\ events < MaxEvents /\ events' = events + 1
  /\ UserMayBegin(dev) /\ ~PhyBusy(dev)
  /\ IF write
     THEN \E value \in {"identifier", "other"} : dev' = BeginWritePhy(dev, register, value)
     ELSE dev' = BeginReadPhy(dev, register)
  /\ UNCHANGED <<regs, link>>

WriteNodeId(d) ==
  IF NodeAddress(d) = NoAddress THEN AdvanceUnlessComplete(d) ELSE QueueNodeId(d)

OnUnicastAddressChangedAnyStage(d) ==   \* mutant
  CASE d.initStage = InitWaitingForEthernetAddress -> AdvanceInitStage(d)
    [] d.initStage > InitWaitingForEthernetAddress -> AdvanceUnlessComplete(WriteNodeId(d))
    [] OTHER                                       -> d

OnUnicastAddressChanged(d) ==
  CASE d.initStage = InitWaitingForEthernetAddress -> AdvanceInitStage(d)
    [] d.initStage > InitWaitingForEthernetAddress -> WriteNodeId(d)
    [] OTHER                                       -> d

(* slot: the title's address, or the alternate one.                          *)
NicSetUnicastAddress(address, slot) ==
  /\ events < MaxEvents /\ events' = events + 1
  /\ dev[slot] # address
  /\ dev' = OnUnicastAddressChanged([dev EXCEPT ![slot] = address])
  /\ UNCHANGED <<regs, link>>

UpdateReceiveFilterOnlyIdle(d) ==   \* mutant
  IF d.initStage < InitStartReceiving \/ d.closing \/ d.canUserTransfer THEN d
  ELSE BeginFilterUpdate(d, FALSE)

UpdateReceiveFilter(d) ==
  IF d.initStage < InitStartReceiving \/ d.closing THEN d
  ELSE IF d.filterStep # "idle" \/ d.canUserTransfer THEN [d EXCEPT !.filterPending = TRUE]
  ELSE BeginFilterUpdate(d, FALSE)

(* Users attach, detach or join a group.                                     *)
ChangeReceiveFilter(filter) ==
  /\ events < MaxEvents /\ events' = events + 1
  /\ dev.filter # filter
  /\ dev' = UpdateReceiveFilter([dev EXCEPT !.filter = filter])
  /\ UNCHANGED <<regs, link>>

(* BeginRemove or BeginPowerDownAndClose.                                    *)
BeginClose ==
  /\ events < MaxEvents /\ events' = events + 1
  /\ ~dev.closing
  /\ dev' = [dev EXCEPT !.closing = TRUE, !.timer = "none", !.linkState = "down"]
  /\ UNCHANGED <<regs, link>>

-----------------------------------------------------------------------------

Device == [field \in DOMAIN ControlFields \cup DOMAIN BackendFields |->
             IF field \in DOMAIN ControlFields THEN ControlFields[field] ELSE BackendFields[field]]

(* The adapter's EEPROM, and the addresses the kernel will know of.          *)
Init ==
  /\ \E eeprom \in Eeproms, title \in Addresses \cup {NoAddress},
        debug \in Addresses \cup {NoAddress}, filter \in Filters :
       /\ debug # NoAddress => Devkit
       /\ Devkit /\ debug = NoAddress => title = NoAddress
       /\ dev = AdvanceInitStage(
                  [Device EXCEPT !.mode = eeprom.mode, !.led = eeprom.led, !.filter = filter,
                                 !.kernel = [title |-> title, debug |-> debug]])
  /\ regs = [nodeId |-> NoAddress, hash |-> "none", rx |-> "stop",
             softwareMii |-> FALSE, page |-> "zero"]
  /\ link \in {"down", "up"}
  /\ events = 0

Next ==
  \/ SucceedRequest
  \/ FailRequest
  \/ TimerAdvance
  \/ \E tick \in Ticks, all \in BOOLEAN : RunTimer(tick, all)
  \/ ProcessInterruptLinkStatus
  \/ LinkChanges
  \/ \E register \in Registers, write \in BOOLEAN : BeginUserPhyTransfer(register, write)
  \/ \E address \in Addresses, slot \in {"unicast", "alternate"} :
       NicSetUnicastAddress(address, slot)
  \/ \E filter \in Filters : ChangeReceiveFilter(filter)
  \/ BeginClose

Spec == Init /\ [][Next]_vars

(* The kernel runs the DPCs and the timers, the USB stack completes requests *)
(* and the adapter goes on reporting its link.  A transfer takes             *)
(* milliseconds and the timer at least 200 of them, so that again and again  *)
(* a tick with nothing to do, and the tick of the five-second fallback,      *)
(* find the channel free.                                                    *)
Fairness ==
  /\ WF_vars(SucceedRequest \/ FailRequest)
  /\ WF_vars(TimerAdvance)
  /\ WF_vars(\E all \in BOOLEAN : RunTimer("quiet", all))
  /\ SF_vars(~Outstanding(dev) /\ \E all \in BOOLEAN : RunTimer("quiet", all))
  /\ SF_vars(~Outstanding(dev) /\ \E all \in BOOLEAN : RunTimer("fallback", all))
  /\ WF_vars(ProcessInterruptLinkStatus)

FairSpec == Spec /\ Fairness

-----------------------------------------------------------------------------
(* Properties.                                                               *)

(* The fields hold values of their types; init never steps past Complete.    *)
TypeOK ==
  /\ dev.initStage \in InitStages
  /\ dev.timer \in {"none", "advance", "running"}
  /\ {dev.unicast, dev.alternate, regs.nodeId} \subseteq Addresses \cup {NoAddress}
  /\ dev.phyValue \in {"zero", "page2", "page5", "identifier", "other"}
  /\ dev.configStep \in {"idle", "enable", "read", "disable"}
  /\ dev.realtekStep \in RealtekSteps \cup {"idle"}
  /\ dev.ledStep \in {"idle", "read", "write"}
  /\ dev.filterStep \in {"idle", "hash", "rx"}
  /\ dev.patchIndex \in 0 .. PatchCount - 1
  /\ dev.retries \in 0 .. PhyReadyRetryLimit
  /\ dev.interrupt \in {"none", "down", "up"}
  /\ {dev.linkState, dev.told, link} \subseteq {"down", "up"}
  /\ events \in 0 .. MaxEvents

(* The outstanding request and the fields that speak of it agree, whatever   *)
(* transactions of init, users, LED and link interleave, fail or chain.  A   *)
(* PHY flag is set only while a request of its transaction is outstanding,   *)
(* and the driver thinks it holds the MII bus only then: no failed request   *)
(* leaves the PHY busy, or the next transaction without the bus.  The PHY is *)
(* read and written only while software has the bus.  A request of init is   *)
(* outstanding only in its stage (the assertions at lines 630, 673, 723, 748 *)
(* and 768), although users' PHY calls and address changes advance init too, *)
(* which also never take it past its last stage.                             *)
RequestsOwned ==
  /\ TypeOK
  /\ PhyBusy(dev) => Op(dev) \in {"acquire", "readPhy", "writePhy"}
  /\ dev.serial /\ ~dev.closing => Op(dev) \in {"readPhy", "writePhy", "release"}
  /\ Op(dev) \in {"readPhy", "writePhy"} => regs.softwareMii
  /\ \A p \in {<<"gpio", InitWriteGpio>>, <<"readNodeId", InitReadNodeId>>,
               <<"readPhyAddress", InitReadPhyAddressRegister>>,
               <<"mii", InitWriteMiiControl>>, <<"ipg", InitWriteIpg>>} :
       Op(dev) = p[1] => dev.initStage = p[2]

(* Init goes on: a device that is not ready has a request outstanding or its *)
(* timer armed, unless it waits for an address, or could not read its node   *)
(* ID, however requests are dropped and retry timers meet user calls.        *)
InitNeverStalls ==
  dev.initStage # InitComplete /\ ~dev.closing =>
    \/ dev.canUserTransfer
    \/ dev.timer # "none"
    \/ dev.initStage = InitWaitingForEthernetAddress
    \/ dev.initStage = InitReadNodeId /\ dev.nodeIdFailed

(* Past its vendor initialization the PHY is back on page 0, where the link  *)
(* registers are, whichever step failed, unless the failure was of a page    *)
(* write or of the acquire before a step.                                    *)
PageRestored ==
  dev.initStage > InitVendor /\ ~dev.closing /\ ~dev.pageLost => regs.page = "zero"

(* A running device comes to rest with what was last asked for: the receive  *)
(* filter in the adapter, reception on, the node ID and the link state the   *)
(* PHY has, told to the users.  Excepted are a node ID whose write was       *)
(* dropped or failed, a hash whose last write failed (the driver takes the   *)
(* adapter to have the one before), and a PHY that is left on another page.  *)
Settles ==
  <>[](dev.initStage = InitComplete /\ ~dev.closing /\ ~dev.pageLost =>
         /\ regs.rx = dev.filter.rx
         /\ regs.hash = dev.filter.hash \/ dev.hashLost
         /\ dev.running
         /\ \/ NodeAddress(dev) \in {NoAddress, regs.nodeId}
            \/ dev.addressLost
         /\ dev.linkState = link /\ dev.told = link)
=============================================================================
