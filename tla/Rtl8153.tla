------------------------------ MODULE Rtl8153 -------------------------------
(***************************************************************************)
(* The RTL8153 backend: the init sequence and the runtime requests (MAC    *)
(* address, receive filter, link poll, PHY registers of users), which all  *)
(* go through the one control request of UsbEnetControl.  Handlers run     *)
(* under NicLock and are one step each; a user thread runs in the pieces   *)
(* between its kernel waits.  Init stages that do the same thing to the    *)
(* state (one register transfer, then the next stage) are one stage here.  *)
(***************************************************************************)
EXTENDS UsbEnetControl

CONSTANTS
  Addresses,         \* Ethernet addresses the title may use
  NoAddress,         \* the zero address
  Filters,           \* values of AggregateReceiveFilter, as sets of destinations
  LinkStates,        \* link states the PHY may report
  LinkDown,
  MaxPolls,          \* 1000 in the source: polls of a reset bit before giving up
  MaxChanges,        \* bound: address and filter changes in a behaviour
  MaxFaults          \* bound: control requests that fail in a behaviour

ASSUME Rtl8153Assumption ==
  /\ NoAddress \notin Addresses
  /\ LinkDown \in LinkStates
  /\ MaxPolls \in Nat
  /\ MaxChanges \in Nat
  /\ MaxFaults \in Nat

(* RTL8153_INIT_STAGE.                                                       *)
InitBeginning                 == 0
InitReadVersion               == 1    \* and the reads and writes up to ...
InitPollNicReset              == 2    \* the two reset polls and two link-list polls
InitWaitingForEthernetAddress == 3
InitWriteMacConfig            == 4
InitWriteMacLow               == 5
InitWriteMacHigh              == 6
InitWriteMacNormal            == 7    \* and the multicast table
InitWriteReceiveControl       == 8    \* and the commands that enable the MAC
InitReadLinkStatus            == 9
InitComplete                  == 10
InitFailed                    == 11
InitStages == InitBeginning .. InitFailed

RuntimeMacOperations == <<"MacConfig", "MacLow", "MacHigh", "MacNormal">>
RuntimeOperations ==
  {"None", "LinkPoll", "FilterWrite", "PhyRead", "PhyWrite"}
    \cup {RuntimeMacOperations[i] : i \in 1 .. 4}

VARIABLES
  dev,       \* the device extension and the fields of CRtl8153
  pc, op,    \* each user thread: where it stands, and the call it is in
  regs,      \* adapter: CRWECR, the two halves of IDR, and RCR
  link,      \* adapter: the link state of the PHY
  changes, faults   \* counters of the bounds

vars == <<dev, pc, op, regs, link, changes, faults>>

Calls  == [register: Registers, write: BOOLEAN]
NoCall == [register |-> CHOOSE r \in Registers : TRUE, write |-> FALSE]

ThreadPoints == {"idle", "turn", "inTurnWait", "result", "inResultWait"}

(* A register transfer.  The init sequence and the link poll read registers  *)
(* that the adapter state `regs' leaves out.                                 *)
Request(register, value) == [register |-> register, value |-> value]
Read(register) == Request(register, "read")

Requests ==
  [register: {"crwecr"}, value: {"config", "normal"}]
    \cup [register: {"idrLow", "idrHigh"}, value: Addresses \cup {NoAddress}]
    \cup [register: {"rcr"}, value: SUBSET {"physical", "promiscuous", "multicast", "broadcast"}]
    \cup [register: {"phy"}, value: Registers]
    \cup [register: {"link", "other"}, value: {"read"}]

ASSUME RequestAssumption == NoRequest \notin Requests

BuildReceiveControl(d) ==
  {"physical"}
    \cup (IF d.filter \cap {"promiscuous", "alternate"} # {} THEN {"promiscuous"} ELSE {})
    \cup (d.filter \cap {"multicast", "broadcast"})

(* Fields of the backend; the ghosts say that a change came when the value   *)
(* before it was already on its way to the adapter.                          *)
BackendFields == [
  initStage        |-> InitBeginning,
  polls            |-> 0,           \* m_ResetPollCount
  runtimeOperation |-> "None",      \* m_RuntimeOperation
  macUpdatePending |-> FALSE,
  macStep          |-> 0,           \* m_RuntimeMacStep
  filterUpdatePending |-> FALSE,
  linkPollPending  |-> FALSE,
  phyRead          |-> FALSE,       \* PHY_READ_IN_PROGRESS
  phyWrite         |-> FALSE,       \* PHY_WRITE_IN_PROGRESS
  phyRegister      |-> 0,           \* CurrentPhyRegister
  timerRunning     |-> FALSE,       \* NicTimerRunningDpc is armed
  linkState        |-> LinkDown,
  unicast          |-> NoAddress,   \* UnicastAddress
  filter           |-> {},          \* AggregateReceiveFilter
  addressOvertaken |-> FALSE,       \* ghost
  filterOvertaken  |-> FALSE ]      \* ghost

-----------------------------------------------------------------------------
(* The init sequence.                                                        *)

FailInitialization(d) == [d EXCEPT !.initStage = InitFailed, !.linkState = LinkDown]

QueueInit(d, request) ==
  IF CanQueueControlTransfer(d) THEN QueueControlTransfer(d, request)
                                ELSE FailInitialization(d)

InitRequest(d) ==
  CASE d.initStage = InitWriteMacConfig      -> Request("crwecr", "config")
    [] d.initStage = InitWriteMacLow         -> Request("idrLow", d.unicast)
    [] d.initStage = InitWriteMacHigh        -> Request("idrHigh", d.unicast)
    [] d.initStage = InitWriteMacNormal      -> Request("crwecr", "normal")
    [] d.initStage = InitWriteReceiveControl -> Request("rcr", BuildReceiveControl(d))
    [] OTHER                                 -> Read("other")

(* Entering WaitingForEthernetAddress takes the address the kernel then has  *)
(* for the title, and goes on when there is one.                             *)
EnterWaiting(d, title) ==
  LET e == IF title # NoAddress THEN [d EXCEPT !.unicast = title] ELSE d
  IN  IF e.unicast = NoAddress THEN e
      ELSE LET f == [e EXCEPT !.initStage = InitWriteMacConfig]
           IN  QueueInit(f, InitRequest(f))

AdvanceInitStage(d, title) ==
  LET e == [d EXCEPT !.initStage = @ + 1]
  IN  CASE d.closing                                     -> d
        [] ~d.closing /\ e.initStage = InitWaitingForEthernetAddress -> EnterWaiting(e, title)
        [] ~d.closing /\ e.initStage = InitComplete      -> [e EXCEPT !.timerRunning = TRUE]
        [] ~d.closing /\ e.initStage > InitComplete      -> FailInitialization(e)
        [] OTHER                                         -> QueueInit(e, InitRequest(e))

-----------------------------------------------------------------------------
(* Runtime requests: the MAC address first, in four transfers, then the      *)
(* receive filter, then the link poll.                                       *)

QueueRuntime(d, operation, request) ==
  IF CanQueueControlTransfer(d)
  THEN QueueControlTransfer([d EXCEPT !.runtimeOperation = operation], request)
  ELSE [d EXCEPT !.runtimeOperation = "None"]

ContinueRuntimeMacWrite(d) ==
  IF ~d.macUpdatePending \/ d.canUserTransfer \/ d.initStage # InitComplete THEN d
  ELSE CASE d.macStep = 0 -> QueueRuntime(d, "MacConfig", Request("crwecr", "config"))
         [] d.macStep = 1 -> QueueRuntime(d, "MacLow", Request("idrLow", d.unicast))
         [] d.macStep = 2 -> QueueRuntime(d, "MacHigh", Request("idrHigh", d.unicast))
         [] OTHER         -> QueueRuntime(d, "MacNormal", Request("crwecr", "normal"))

ServiceRuntimeRequests(d) ==
  IF \/ d.initStage # InitComplete
     \/ d.canUserTransfer \/ d.closing \/ d.phyRead \/ d.phyWrite
  THEN d
  ELSE CASE d.macUpdatePending -> ContinueRuntimeMacWrite(d)
         [] ~d.macUpdatePending /\ d.filterUpdatePending ->
              QueueRuntime(d, "FilterWrite", Request("rcr", BuildReceiveControl(d)))
         [] ~d.macUpdatePending /\ ~d.filterUpdatePending /\ d.linkPollPending ->
              QueueRuntime(d, "LinkPoll", Read("link"))
         [] OTHER -> d

-----------------------------------------------------------------------------
(* CompleteRegisterOperation.                                                *)

IsMacOperation(operation) == \E i \in 1 .. 4 : operation = RuntimeMacOperations[i]

CompleteFailedAdvancing(d) ==   \* mutant
  LET c == CompleteControlTransfer(d)
      r == [c EXCEPT !.phyRead  = @ /\ d.runtimeOperation # "PhyRead",
                     !.phyWrite = @ /\ d.runtimeOperation # "PhyWrite",
                     !.macStep = IF d.runtimeOperation = "MacConfig" THEN @ + 1 ELSE @,
                     !.runtimeOperation = "None"]
  IN  IF d.initStage < InitComplete THEN FailInitialization(r) ELSE r

CompleteFailedKeepingOperation(d) ==   \* mutant
  LET c == CompleteControlTransfer(d)
      r == [c EXCEPT !.runtimeOperation = "None"]
  IN  IF d.initStage < InitComplete THEN FailInitialization(r) ELSE r

(* The transfer failed or was cancelled.                                     *)
CompleteFailed(d) ==
  LET c == CompleteControlTransfer(d)
      r == [c EXCEPT !.phyRead  = @ /\ d.runtimeOperation # "PhyRead",
                     !.phyWrite = @ /\ d.runtimeOperation # "PhyWrite",
                     !.runtimeOperation = "None"]
  IN  IF d.initStage < InitComplete THEN FailInitialization(r) ELSE r

RuntimeResult(d, l) ==
  CASE d.runtimeOperation = "LinkPoll"    -> [d EXCEPT !.linkState = l, !.linkPollPending = FALSE]
    [] d.runtimeOperation = "FilterWrite" -> [d EXCEPT !.filterUpdatePending = FALSE]
    [] d.runtimeOperation = "MacNormal"   -> [d EXCEPT !.macStep = 0, !.macUpdatePending = FALSE]
    [] d.runtimeOperation = "PhyRead"     -> [d EXCEPT !.phyRead = FALSE]
    [] d.runtimeOperation = "PhyWrite"    -> [d EXCEPT !.phyWrite = FALSE]
    [] OTHER                              -> [d EXCEPT !.macStep = @ + 1]

(* A runtime transfer succeeded; l is the link state a poll has read.        *)
CompleteRuntime(d, l) ==
  LET c == [CompleteControlTransfer(RuntimeResult(d, l)) EXCEPT !.runtimeOperation = "None"]
  IN  IF IsMacOperation(d.runtimeOperation) THEN ContinueRuntimeMacWrite(c)
                                            ELSE ServiceRuntimeRequests(c)

(* An init transfer succeeded.  again: a polled bit is not there yet;        *)
(* refuse: the revision just read is not supported; title: the address of    *)
(* the title in the kernel.  The polls are counted anew in the next stage.   *)
CompleteInit(d, l, again, refuse, title) ==
  LET c == CompleteControlTransfer(d)
      p == [c EXCEPT !.polls = @ + 1]
      n == CompleteControlTransfer(
             IF d.initStage = InitReadLinkStatus THEN [d EXCEPT !.linkState = l] ELSE d)
  IN  CASE refuse -> FailInitialization(c)
        [] ~refuse /\ again ->
             IF p.polls > MaxPolls THEN FailInitialization(p) ELSE QueueInit(p, Read("other"))
        [] OTHER  -> AdvanceInitStage([n EXCEPT !.polls = 0], title)

-----------------------------------------------------------------------------
(* Requests from the rest of the driver.                                     *)

(* The address in the adapter, or on its way there, is older than this call. *)
AddressOnItsWay(d) ==
  \/ d.initStage \in InitWriteMacLow .. InitReadLinkStatus
  \/ d.macUpdatePending /\ (d.macStep >= 2 \/ d.runtimeOperation = "MacLow")

OnUnicastAddressChanged(d) ==
  LET e == [d EXCEPT !.addressOvertaken = AddressOnItsWay(d)]
  IN  CASE d.initStage = InitWaitingForEthernetAddress -> AdvanceInitStage(e, NoAddress)
        [] d.initStage = InitComplete ->
             ServiceRuntimeRequests([e EXCEPT !.macUpdatePending = TRUE])
        [] OTHER -> e

UpdateReceiveFilterNow(d) ==   \* mutant
  LET e == [d EXCEPT !.filterOvertaken = d.runtimeOperation = "FilterWrite"]
  IN  IF d.initStage < InitWriteReceiveControl \/ d.initStage = InitFailed THEN e
      ELSE IF d.initStage = InitComplete /\ ~d.canUserTransfer
           THEN ServiceRuntimeRequests([e EXCEPT !.filterUpdatePending = TRUE])
           ELSE e

UpdateReceiveFilter(d) ==
  LET e == [d EXCEPT !.filterOvertaken = d.runtimeOperation = "FilterWrite"]
  IN  IF d.initStage < InitWriteReceiveControl \/ d.initStage = InitFailed THEN e
      ELSE ServiceRuntimeRequests([e EXCEPT !.filterUpdatePending = TRUE])

(* BeginReadPhy and BeginWritePhy, for a caller that owns the channel.       *)
PhyBusy(d) == d.phyRead \/ d.phyWrite

BeginReadPhy(d, register) ==
  QueueRuntime([d EXCEPT !.phyRegister = register, !.phyRead = TRUE],
               "PhyRead", Request("phy", register))

BeginWritePhy(d, register) ==
  QueueRuntime([d EXCEPT !.phyRegister = register, !.phyWrite = TRUE],
               "PhyWrite", Request("phy", register))

-----------------------------------------------------------------------------
(* User threads: NicDoGetOpt and NicDoSetOpt of a PHY register.              *)

BeginPhy(d, call) ==
  IF call.write THEN BeginWritePhy(d, call.register) ELSE BeginReadPhy(d, call.register)

(* The thread holds the lock and may own the channel: it starts its transfer *)
(* and goes to wait for the result, or finds the PHY busy and returns.       *)
Begin(d, t, call) ==
  IF PhyBusy(d)
  THEN /\ dev' = AbortUserControlTransfer(BeginUserControlTransfer(d))
       /\ pc' = [pc EXCEPT ![t] = "idle"]
  ELSE /\ dev' = BeginPhy(BeginUserControlTransfer(d), call)
       /\ pc' = [pc EXCEPT ![t] = "result"]

NicDoOpt(t, call) ==
  /\ pc[t] = "idle"
  /\ op' = [op EXCEPT ![t] = call]
  /\ \/ /\ UserMustWait(dev)
        /\ dev' = AwaitTurn(dev)
        /\ pc' = [pc EXCEPT ![t] = "turn"]
     \/ /\ UserMayBegin(dev)
        /\ Begin(dev, t, call)
  /\ UNCHANGED <<regs, link, changes, faults>>

(* The thread has released the lock and enters its kernel wait.              *)
KeWait(t) ==
  /\ pc[t] \in {"turn", "result"}
  /\ dev' = KeWaitForSingleObject(dev, t)
  /\ pc' = [pc EXCEPT ![t] = IF pc[t] = "turn" THEN "inTurnWait" ELSE "inResultWait"]
  /\ UNCHANGED <<op, regs, link, changes, faults>>

(* Its wait for a turn is over and it has the lock again: the device is      *)
(* closing and the call returns, or another request got in first and it      *)
(* waits again, or it begins.                                                *)
TurnLost(t) ==
  /\ pc[t] = "inTurnWait" /\ t \in dev.woken
  /\ LET d == TurnOver(dev, t)
     IN  \/ /\ d.closing
            /\ dev' = d
            /\ pc' = [pc EXCEPT ![t] = "idle"]
         \/ /\ UserMustWait(d)
            /\ dev' = AwaitTurn(d)
            /\ pc' = [pc EXCEPT ![t] = "turn"]
  /\ UNCHANGED <<op, regs, link, changes, faults>>

TurnTaken(t) ==
  /\ pc[t] = "inTurnWait" /\ t \in dev.woken
  /\ LET d == TurnOver(dev, t)
     IN  UserMayBegin(d) /\ Begin(d, t, op[t])
  /\ UNCHANGED <<op, regs, link, changes, faults>>

(* Its wait for the result is over: the call returns CurrentPhyValue.        *)
TakeResult(t) ==
  /\ pc[t] = "inResultWait" /\ t \in dev.woken
  /\ dev' = ResultTaken(dev, t)
  /\ pc' = [pc EXCEPT ![t] = "idle"]
  /\ op' = [op EXCEPT ![t] = NoCall]
  /\ UNCHANGED <<regs, link, changes, faults>>

-----------------------------------------------------------------------------
(* The DPC, the USB stack and the adapter.                                   *)

(* The DPC passes the request on, or cancels it when the device is closing.  *)
ControlSwitchProcs ==
  /\ ControlDpcPending(dev)
  /\ dev' = IF dev.closing THEN CompleteFailed(dev) ELSE [dev EXCEPT !.onUsb = TRUE]
  /\ UNCHANGED <<pc, op, regs, link, changes, faults>>

(* The adapter carries out a write.                                          *)
Written(request) ==
  IF request.register \in DOMAIN regs
  THEN [regs EXCEPT ![request.register] = request.value]
  ELSE regs

CompleteRegisterOperation ==
  /\ dev.onUsb
  /\ regs' = Written(dev.request)
  /\ IF dev.runtimeOperation # "None"
     THEN dev' = CompleteRuntime(dev, link)
     ELSE \E again, refuse \in BOOLEAN, title \in Addresses \cup {NoAddress} :
            /\ again => dev.initStage = InitPollNicReset
            /\ refuse => dev.initStage = InitReadVersion
            /\ dev' = CompleteInit(dev, link, again, refuse, title)
  /\ UNCHANGED <<pc, op, link, changes, faults>>

(* The transfer fails, before or after the adapter has acted on it; one that *)
(* is outstanding when the endpoint closes is cancelled.                     *)
FailRegisterOperation ==
  /\ dev.onUsb
  /\ dev.closing \/ faults < MaxFaults
  /\ faults' = IF dev.closing THEN faults ELSE faults + 1
  /\ regs' \in {regs, Written(dev.request)}
  /\ dev' = CompleteFailed(dev)
  /\ UNCHANGED <<pc, op, link, changes>>

LinkChanges ==
  /\ link' \in LinkStates \ {link}
  /\ changes < MaxChanges
  /\ changes' = changes + 1
  /\ UNCHANGED <<dev, pc, op, regs, faults>>

-----------------------------------------------------------------------------
(* The rest of the driver.                                                   *)

NicSetUnicastAddress(address) ==
  /\ changes < MaxChanges
  /\ dev.unicast # address
  /\ changes' = changes + 1
  /\ dev' = OnUnicastAddressChanged([dev EXCEPT !.unicast = address])
  /\ UNCHANGED <<pc, op, regs, link, faults>>

(* NicAttachUser and NicDetachUser change the filters the users ask for.     *)
ChangeReceiveFilter(filter) ==
  /\ changes < MaxChanges
  /\ dev.filter # filter
  /\ changes' = changes + 1
  /\ dev' = UpdateReceiveFilter([dev EXCEPT !.filter = filter])
  /\ UNCHANGED <<pc, op, regs, link, faults>>

(* The interrupt endpoint has reported status; it is polled from             *)
(* InitComplete on.                                                          *)
ProcessInterruptLinkStatus(linkChange) ==
  /\ dev.initStage = InitComplete /\ ~dev.closing
  /\ LET d == [dev EXCEPT !.linkPollPending = TRUE]
     IN  dev' = IF linkChange THEN ServiceRuntimeRequests(d) ELSE d
  /\ UNCHANGED <<pc, op, regs, link, changes, faults>>

(* The one-second timer.  It is armed on reaching InitComplete, so its other *)
(* branch, for WaitingForEthernetAddress, is never taken.                    *)
RunTimer ==
  /\ dev.timerRunning /\ dev.initStage = InitComplete
  /\ dev' = ServiceRuntimeRequests([dev EXCEPT !.linkPollPending = TRUE])
  /\ UNCHANGED <<pc, op, regs, link, changes, faults>>

(* BeginRemove or BeginPowerDownAndClose.                                    *)
BeginClose ==
  /\ ~dev.closing
  /\ dev' = [dev EXCEPT !.closing = TRUE, !.timerRunning = FALSE, !.linkState = LinkDown]
  /\ UNCHANGED <<pc, op, regs, link, changes, faults>>

-----------------------------------------------------------------------------

Device == [field \in DOMAIN ControlFields \cup DOMAIN BackendFields |->
             IF field \in DOMAIN ControlFields THEN ControlFields[field] ELSE BackendFields[field]]

Init ==
  /\ \E filter \in Filters :
       dev = AdvanceInitStage([Device EXCEPT !.filter = filter], NoAddress)
  /\ pc = [t \in Threads |-> "idle"]
  /\ op = [t \in Threads |-> NoCall]
  /\ regs = [crwecr |-> "normal", idrLow |-> NoAddress, idrHigh |-> NoAddress, rcr |-> {}]
  /\ link = LinkDown
  /\ changes = 0 /\ faults = 0

Next ==
  \/ \E t \in Threads : \/ \E call \in Calls : NicDoOpt(t, call)
                        \/ KeWait(t) \/ TurnLost(t) \/ TurnTaken(t) \/ TakeResult(t)
  \/ ControlSwitchProcs
  \/ CompleteRegisterOperation
  \/ FailRegisterOperation
  \/ LinkChanges
  \/ \E address \in Addresses : NicSetUnicastAddress(address)
  \/ \E filter \in Filters : ChangeReceiveFilter(filter)
  \/ \E linkChange \in BOOLEAN : ProcessInterruptLinkStatus(linkChange)
  \/ RunTimer
  \/ BeginClose

Spec == Init /\ [][Next]_vars

(* The kernel runs the DPC, the timer and the threads that are ready; the    *)
(* USB stack completes a transfer; a woken thread is not always kept from    *)
(* the lock until the next request of the one-second timer is outstanding.   *)
Fairness ==
  /\ WF_vars(ControlSwitchProcs)
  /\ WF_vars(CompleteRegisterOperation \/ FailRegisterOperation)
  /\ WF_vars(RunTimer)
  /\ \A t \in Threads : /\ WF_vars(KeWait(t))
                        /\ WF_vars(TurnLost(t))
                        /\ SF_vars(TurnTaken(t))
                        /\ WF_vars(TakeResult(t))

FairSpec == Spec /\ Fairness

-----------------------------------------------------------------------------
(* Properties.                                                               *)

(* The fields hold values of their types.                                    *)
TypeOK ==
  /\ dev.initStage \in InitStages
  /\ dev.runtimeOperation \in RuntimeOperations
  /\ dev.macStep \in 0 .. 3
  /\ dev.polls \in 0 .. MaxPolls + 1
  /\ \A f \in {"canUserTransfer", "transferInProgress", "active", "closing", "onUsb", "signalled",
               "macUpdatePending", "filterUpdatePending", "linkPollPending", "phyRead", "phyWrite"} :
       dev[f] \in BOOLEAN
  /\ dev.woken \subseteq Threads
  /\ dev.waiters \in Seq(Threads)
  /\ dev.unicast \in Addresses \cup {NoAddress}
  /\ dev.linkState \in LinkStates
  /\ pc \in [Threads -> ThreadPoints]
  /\ op \in [Threads -> Calls]

(* Types, and: the runtime operation in progress, the PHY flags and the      *)
(* outstanding request say the same, so a completion is never taken for that *)
(* of another operation and no failed one leaves the PHY busy for ever.      *)
OperationOwnsRequest ==
  /\ TypeOK
  /\ dev.canUserTransfer <=> dev.request # NoRequest
  /\ dev.runtimeOperation # "None" => dev.canUserTransfer
  /\ dev.phyRead  <=> dev.runtimeOperation = "PhyRead"
  /\ dev.phyWrite <=> dev.runtimeOperation = "PhyWrite"
  /\ dev.initStage = InitComplete /\ dev.runtimeOperation = "None" => ~dev.canUserTransfer

(* TRAP_ASSERT(CurrentPhyRegister == Register) (CUsbEnet.cpp:2235): the PHY  *)
(* register a call returns is the one it asked for.                          *)
PhyResultIsOwn ==
  \A t \in Threads : pc[t] = "inResultWait" /\ t \in dev.woken /\ ~op[t].write =>
    dev.phyRegister = op[t].register

(* The halves of the address register are written only while the adapter is  *)
(* in config mode, whatever transfers fail and are retried in between.       *)
AddressWrittenInConfigMode ==
  dev.canUserTransfer /\ dev.request.register \in {"idrLow", "idrHigh"} =>
    regs.crwecr = "config"

(* An option call returns: no signal of the event is lost to a request that  *)
(* is queued, and resets the event, before the thread waits.                 *)
CallReturns == \A t \in Threads : pc[t] # "idle" ~> pc[t] = "idle"

(* Failed transfers are retried until the receive filter and the address     *)
(* last asked for are in the adapter, and a link change is seen even when    *)
(* its interrupt is not, unless the device closes or the change overtook a   *)
(* value already on its way (then the driver forgets it).                    *)
Settles ==
  <>[](dev.initStage = InitComplete /\ ~dev.closing =>
         /\ regs.rcr = BuildReceiveControl(dev) \/ dev.filterOvertaken
         /\ \/ regs.idrLow = dev.unicast /\ regs.idrHigh = dev.unicast /\ regs.crwecr = "normal"
            \/ dev.addressOvertaken
         /\ dev.linkState = link)
=============================================================================
