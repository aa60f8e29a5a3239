--------------------------- MODULE Rtl8153Proofs ----------------------------
(***************************************************************************)
(* Proofs about the RTL8153 backend, for every set of threads, PHY         *)
(* registers, addresses and filters, and any number of polls, changes and  *)
(* failed transfers.                                                       *)
(***************************************************************************)
EXTENDS Rtl8153, TLAPS

USE ControlAssumption, Rtl8153Assumption, RequestAssumption
USE DEF InitStages, InitBeginning, InitReadVersion, InitPollNicReset, InitWaitingForEthernetAddress,
        InitWriteMacConfig, InitWriteMacLow, InitWriteMacHigh, InitWriteMacNormal,
        InitWriteReceiveControl, InitReadLinkStatus, InitComplete, InitFailed

-----------------------------------------------------------------------------
(* The inductive invariant, as predicates on the device record, so that it   *)
(* can be followed through the functions a handler is composed of.           *)

DeviceType ==
  [ canUserTransfer:     BOOLEAN,
    transferInProgress:  BOOLEAN,
    active:              BOOLEAN,
    closing:             BOOLEAN,
    request:             Requests \cup {NoRequest},
    onUsb:               BOOLEAN,
    signalled:           BOOLEAN,
    waiters:             Seq(Threads),
    woken:               SUBSET Threads,
    initStage:           InitStages,
    polls:               0 .. MaxPolls + 1,
    runtimeOperation:    RuntimeOperations,
    macUpdatePending:    BOOLEAN,
    macStep:             0 .. 3,
    filterUpdatePending: BOOLEAN,
    linkPollPending:     BOOLEAN,
    phyRead:             BOOLEAN,
    phyWrite:            BOOLEAN,
    phyRegister:         Nat,
    timerRunning:        BOOLEAN,
    linkState:           LinkStates,
    unicast:             Addresses \cup {NoAddress},
    filter:              Filters \cup {{}},
    addressOvertaken:    BOOLEAN,
    filterOvertaken:     BOOLEAN ]

(* The request r belongs to the operation o, at the step and stage of d.     *)
Fits(o, r, d) ==
  CASE o = "MacConfig"   -> r = Request("crwecr", "config") /\ d.macStep = 0
    [] o = "MacLow"      -> r.register = "idrLow" /\ d.macStep = 1
    [] o = "MacHigh"     -> r.register = "idrHigh" /\ d.macStep = 2
    [] o = "MacNormal"   -> r.register = "crwecr" /\ d.macStep = 3
    [] o = "FilterWrite" -> r.register = "rcr"
    [] o = "LinkPoll"    -> r.register = "link"
    [] o \in {"PhyRead", "PhyWrite"} -> r.register = "phy"
    [] OTHER ->
         /\ d.initStage = InitWriteMacConfig => r = Request("crwecr", "config")
         /\ r.register = "crwecr" => d.initStage \in {InitWriteMacConfig, InitWriteMacNormal}
         /\ r.register \in {"idrLow", "idrHigh"} => d.initStage \in {InitWriteMacLow, InitWriteMacHigh}

Owned(d) ==
  /\ d.canUserTransfer <=> d.request # NoRequest
  /\ d.runtimeOperation # "None" => d.canUserTransfer
  /\ d.phyRead  <=> d.runtimeOperation = "PhyRead"
  /\ d.phyWrite <=> d.runtimeOperation = "PhyWrite"
  /\ d.onUsb => d.canUserTransfer

Staged(d) ==
  /\ d.initStage = InitPollNicReset => d.polls <= MaxPolls
  /\ d.macStep # 0 => d.initStage = InitComplete
  /\ d.initStage \in {InitWaitingForEthernetAddress, InitComplete, InitFailed}
       /\ d.runtimeOperation = "None" => ~d.canUserTransfer
  /\ d.initStage # InitComplete => d.runtimeOperation \in {"None", "PhyRead", "PhyWrite"}

Good(d) ==
  /\ d \in DeviceType /\ Owned(d) /\ Staged(d)
  /\ (d.canUserTransfer => Fits(d.runtimeOperation, d.request, d))

(* The adapter stays in config mode while halves of the address are due.     *)
InConfigMode(d, r) ==
  d.initStage \in {InitWriteMacLow, InitWriteMacHigh} \/ d.macStep \in {1, 2} => r.crwecr = "config"

IInv ==
  /\ Good(dev)
  /\ InConfigMode(dev, regs)
  /\ pc \in [Threads -> ThreadPoints]
  /\ op \in [Threads -> Calls]
  /\ DOMAIN regs = {"crwecr", "idrLow", "idrHigh", "rcr"}
  /\ link \in LinkStates

-----------------------------------------------------------------------------
(* Frames: the fields the invariant relates, in two groups.                  *)

SameRequest(u, d) ==
  /\ u.canUserTransfer = d.canUserTransfer /\ u.request = d.request /\ u.onUsb = d.onUsb

SameStage(u, d) ==
  /\ u.initStage = d.initStage /\ u.polls = d.polls /\ u.macStep = d.macStep

SameOperation(u, d) ==
  /\ u.runtimeOperation = d.runtimeOperation
  /\ u.phyRead = d.phyRead /\ u.phyWrite = d.phyWrite

Same(u, d) == SameRequest(u, d) /\ SameStage(u, d) /\ SameOperation(u, d)

LEMMA SameGood ==
  ASSUME NEW d, NEW u \in DeviceType, Good(d), Same(u, d)
  PROVE  Good(u)
  BY DEF Good, Owned, Staged, Fits, Same, SameRequest, SameStage, SameOperation

-----------------------------------------------------------------------------
(* The event and the request.                                                *)

LEMMA ResetEventFields ==
  ASSUME NEW d \in DeviceType
  PROVE  KeResetEvent(d) \in DeviceType /\ Same(KeResetEvent(d), d)
  BY ZenonT(40) DEF KeResetEvent, DeviceType, Same, SameRequest, SameStage, SameOperation

LEMMA SetEventFields ==
  ASSUME NEW d \in DeviceType
  PROVE  /\ KeSetEvent(d) \in DeviceType /\ Same(KeSetEvent(d), d)
         /\ KeSetEvent(d).closing = d.closing
<1> DEFINE rest  == Tail(d.waiters)
           woken == d.woken \cup {Head(d.waiters)}
<1>1. CASE d.waiters = <<>>
  <2>1. KeSetEvent(d) = [d EXCEPT !.signalled = TRUE]
    BY <1>1 DEF KeSetEvent
  <2> QED
    BY ZenonT(40), <2>1 DEF DeviceType, Same, SameRequest, SameStage, SameOperation
<1>2. CASE d.waiters # <<>>
  <2>1. d.waiters \in Seq(Threads) /\ d.woken \in SUBSET Threads
    BY DEF DeviceType
  <2>2. rest \in Seq(Threads) /\ woken \in SUBSET Threads
    BY <1>2, <2>1
  <2>3. KeSetEvent(d) = [d EXCEPT !.waiters = rest, !.woken = woken]
    BY <1>2 DEF KeSetEvent
  <2> HIDE DEF rest, woken
  <2> QED
    BY ZenonT(40), <2>2, <2>3 DEF DeviceType, Same, SameRequest, SameStage, SameOperation
<1> QED
  BY <1>1, <1>2

LEMMA WaitFields ==
  ASSUME NEW d \in DeviceType, NEW t \in Threads
  PROVE  KeWaitForSingleObject(d, t) \in DeviceType /\ Same(KeWaitForSingleObject(d, t), d)
<1> DEFINE woken   == d.woken \cup {t}
           waiters == Append(d.waiters, t)
<1>1. d.waiters \in Seq(Threads) /\ d.woken \in SUBSET Threads
  BY DEF DeviceType
<1>2. woken \in SUBSET Threads /\ waiters \in Seq(Threads)
  BY <1>1
<1>3. CASE d.signalled
  <2>1. KeWaitForSingleObject(d, t) = [d EXCEPT !.signalled = FALSE, !.woken = woken]
    BY <1>3 DEF KeWaitForSingleObject
  <2> HIDE DEF woken
  <2> QED
    BY ZenonT(40), <1>2, <2>1 DEF DeviceType, Same, SameRequest, SameStage, SameOperation
<1>4. CASE ~d.signalled
  <2>1. KeWaitForSingleObject(d, t) = [d EXCEPT !.waiters = waiters]
    BY <1>4 DEF KeWaitForSingleObject
  <2> HIDE DEF waiters
  <2> QED
    BY ZenonT(40), <1>2, <2>1 DEF DeviceType, Same, SameRequest, SameStage, SameOperation
<1> QED
  BY <1>3, <1>4

(* u is d with `request' outstanding, or with none.                          *)
Queued(u, d, request) ==
  /\ u \in DeviceType
  /\ u.canUserTransfer /\ u.request = request /\ ~u.onUsb
  /\ SameStage(u, d) /\ SameOperation(u, d)

Freed(u, d) ==
  /\ u \in DeviceType
  /\ ~u.canUserTransfer /\ u.request = NoRequest /\ ~u.onUsb
  /\ SameStage(u, d) /\ SameOperation(u, d)
  /\ u.closing = d.closing

LEMMA QueueFields ==
  ASSUME NEW d \in DeviceType, NEW request \in Requests
  PROVE  Queued(QueueControlTransfer(d, request), d, request)
<1> DEFINE r == IF UserWaits(d) THEN KeResetEvent(d) ELSE d
           u == [r EXCEPT !.canUserTransfer = TRUE, !.request = request, !.onUsb = FALSE]
<1>1. QueueControlTransfer(d, request) = u
  BY DEF QueueControlTransfer
<1>2. Same(d, d)
  BY DEF Same, SameRequest, SameStage, SameOperation
<1>3. r \in DeviceType /\ Same(r, d)
  BY <1>2, ResetEventFields
<1> HIDE DEF r
<1>4. u \in DeviceType
  BY ZenonT(40), <1>3 DEF DeviceType
<1>5. /\ u.canUserTransfer = TRUE /\ u.request = request /\ u.onUsb = FALSE
      /\ SameStage(u, r) /\ SameOperation(u, r)
  BY <1>3 DEF DeviceType, SameStage, SameOperation
<1> HIDE DEF u
<1> QED
  BY <1>1, <1>3, <1>4, <1>5 DEF Queued, Same, SameStage, SameOperation

LEMMA CompleteFields ==
  ASSUME NEW d \in DeviceType
  PROVE  Freed(CompleteControlTransfer(d), d)
<1> DEFINE c == [d EXCEPT !.canUserTransfer = FALSE, !.request = NoRequest, !.onUsb = FALSE]
<1>1. c \in DeviceType
  BY DEF DeviceType
<1>2. Freed(c, d)
  BY <1>1 DEF DeviceType, Freed, SameStage, SameOperation
<1>3. CompleteControlTransfer(d) = IF UserWaits(d) THEN KeSetEvent(c) ELSE c
  BY DEF CompleteControlTransfer
<1> HIDE DEF c
<1>4. Freed(KeSetEvent(c), d)
  BY <1>1, <1>2, SetEventFields DEF Freed, Same, SameRequest, SameStage, SameOperation
<1> QED
  BY <1>2, <1>3, <1>4

-----------------------------------------------------------------------------
(* Runtime requests.                                                         *)

Idle(d) == Good(d) /\ ~d.canUserTransfer

LEMMA IdleFields ==
  ASSUME NEW d, Idle(d)
  PROVE  /\ d \in DeviceType /\ d.runtimeOperation = "None" /\ ~d.phyRead /\ ~d.phyWrite
         /\ d.request = NoRequest /\ ~d.onUsb
  BY DEF Idle, Good, Owned

LEMMA QueueRuntimeFields ==
  ASSUME NEW d \in DeviceType, NEW operation \in RuntimeOperations, NEW request \in Requests
  PROVE  LET u == QueueRuntime(d, operation, request)
         IN  /\ u \in DeviceType /\ SameStage(u, d)
             /\ u.phyRead = d.phyRead /\ u.phyWrite = d.phyWrite
             /\ CanQueueControlTransfer(d) =>
                  /\ u.canUserTransfer /\ u.request = request /\ ~u.onUsb
                  /\ u.runtimeOperation = operation
             /\ ~CanQueueControlTransfer(d) => SameRequest(u, d) /\ u.runtimeOperation = "None"
<1> DEFINE u == QueueRuntime(d, operation, request)
           e == [d EXCEPT !.runtimeOperation = operation]
           n == [d EXCEPT !.runtimeOperation = "None"]
<1>1. u = IF CanQueueControlTransfer(d) THEN QueueControlTransfer(e, request) ELSE n
  BY DEF QueueRuntime
<1>2. "None" \in RuntimeOperations
  BY DEF RuntimeOperations
<1>3. /\ e \in DeviceType /\ SameStage(e, d) /\ e.runtimeOperation = operation
      /\ e.phyRead = d.phyRead /\ e.phyWrite = d.phyWrite
  BY DEF DeviceType, SameStage
<1>4. /\ n \in DeviceType /\ SameStage(n, d) /\ SameRequest(n, d) /\ n.runtimeOperation = "None"
      /\ n.phyRead = d.phyRead /\ n.phyWrite = d.phyWrite
  BY <1>2 DEF DeviceType, SameStage, SameRequest
<1> HIDE DEF e, n
<1>5. Queued(QueueControlTransfer(e, request), e, request)
  BY <1>3, QueueFields
<1>6. CASE CanQueueControlTransfer(d)
  BY <1>1, <1>3, <1>5, <1>6 DEF Queued, SameStage, SameOperation
<1>7. CASE ~CanQueueControlTransfer(d)
  BY <1>1, <1>4, <1>7
<1> QED
  BY <1>6, <1>7

(* A request of the backend itself starts, or is left for later.             *)
LEMMA StartGood ==
  ASSUME NEW d, Idle(d), d.initStage = InitComplete,
         NEW operation \in RuntimeOperations \ {"None", "PhyRead", "PhyWrite"},
         NEW request \in Requests, Fits(operation, request, d)
  PROVE  /\ Good(QueueRuntime(d, operation, request))
         /\ SameStage(QueueRuntime(d, operation, request), d)
<1> DEFINE u == QueueRuntime(d, operation, request)
<1>1. /\ d \in DeviceType /\ d.runtimeOperation = "None" /\ ~d.phyRead /\ ~d.phyWrite
      /\ d.request = NoRequest /\ ~d.onUsb /\ ~d.canUserTransfer /\ Staged(d)
  BY IdleFields DEF Idle, Good
<1>2. /\ u \in DeviceType /\ SameStage(u, d)
      /\ u.phyRead = d.phyRead /\ u.phyWrite = d.phyWrite
      /\ CanQueueControlTransfer(d) =>
           /\ u.canUserTransfer /\ u.request = request /\ ~u.onUsb
           /\ u.runtimeOperation = operation
      /\ ~CanQueueControlTransfer(d) => SameRequest(u, d) /\ u.runtimeOperation = "None"
  BY <1>1, QueueRuntimeFields
<1> HIDE DEF u
<1>3. Staged(u)
  BY <1>1, <1>2 DEF Staged, SameStage, SameRequest
<1>4. Owned(u)
  BY <1>1, <1>2 DEF Owned, SameRequest
<1>5. u.canUserTransfer => Fits(u.runtimeOperation, u.request, u)
  BY <1>1, <1>2 DEF Fits, SameStage, SameRequest
<1>6. Good(u) /\ SameStage(u, d)
  BY <1>2, <1>3, <1>4, <1>5 DEF Good
<1> QED
  BY <1>6 DEF u

LEMMA RequestsTyped ==
  ASSUME NEW d \in DeviceType
  PROVE  /\ Request("crwecr", "config") \in Requests /\ Request("crwecr", "normal") \in Requests
         /\ Request("idrLow", d.unicast) \in Requests /\ Request("idrHigh", d.unicast) \in Requests
         /\ Request("rcr", BuildReceiveControl(d)) \in Requests
         /\ Read("link") \in Requests /\ Read("other") \in Requests
         /\ \A r \in Registers : Request("phy", r) \in Requests
<1>1. d.unicast \in Addresses \cup {NoAddress}
  BY DEF DeviceType
<1>2. BuildReceiveControl(d) \in SUBSET {"physical", "promiscuous", "multicast", "broadcast"}
  BY DEF BuildReceiveControl
<1> QED
  BY <1>1, <1>2 DEF Requests, Request, Read

LEMMA ContinueGood ==
  ASSUME NEW d, Idle(d)
  PROVE  Good(ContinueRuntimeMacWrite(d)) /\ SameStage(ContinueRuntimeMacWrite(d), d)
<1>1. d \in DeviceType /\ Good(d) /\ d.macStep \in 0 .. 3 /\ SameStage(d, d)
  BY DEF Idle, Good, DeviceType, SameStage
<1>2. CASE ~d.macUpdatePending \/ d.canUserTransfer \/ d.initStage # InitComplete
  BY <1>1, <1>2 DEF ContinueRuntimeMacWrite
<1>3. CASE ~(~d.macUpdatePending \/ d.canUserTransfer \/ d.initStage # InitComplete)
  <2> DEFINE c == Request("crwecr", "config")
             l == Request("idrLow", d.unicast)
             h == Request("idrHigh", d.unicast)
             n == Request("crwecr", "normal")
  <2>1. ContinueRuntimeMacWrite(d) =
          CASE d.macStep = 0 -> QueueRuntime(d, "MacConfig", c)
            [] d.macStep = 1 -> QueueRuntime(d, "MacLow", l)
            [] d.macStep = 2 -> QueueRuntime(d, "MacHigh", h)
            [] OTHER         -> QueueRuntime(d, "MacNormal", n)
    BY <1>3 DEF ContinueRuntimeMacWrite
  <2>2. /\ "MacConfig" \in RuntimeOperations /\ "MacLow" \in RuntimeOperations
        /\ "MacHigh" \in RuntimeOperations /\ "MacNormal" \in RuntimeOperations
    BY DEF RuntimeOperations, RuntimeMacOperations
  <2>3. c \in Requests /\ l \in Requests /\ h \in Requests /\ n \in Requests
    BY <1>1, RequestsTyped
  <2>4. /\ d.macStep = 0 => Fits("MacConfig", c, d)
        /\ d.macStep = 1 => Fits("MacLow", l, d)
        /\ d.macStep = 2 => Fits("MacHigh", h, d)
        /\ d.macStep = 3 => Fits("MacNormal", n, d)
    BY DEF Fits, Request
  <2> HIDE DEF c, l, h, n
  <2>5. CASE d.macStep = 0
    BY <1>3, <2>1, <2>2, <2>3, <2>4, <2>5, StartGood
  <2>6. CASE d.macStep = 1
    BY <1>3, <2>1, <2>2, <2>3, <2>4, <2>6, StartGood
  <2>7. CASE d.macStep = 2
    BY <1>3, <2>1, <2>2, <2>3, <2>4, <2>7, StartGood
  <2>8. CASE d.macStep = 3
    BY <1>3, <2>1, <2>2, <2>3, <2>4, <2>8, StartGood
  <2> QED
    BY <1>1, <2>5, <2>6, <2>7, <2>8
<1> QED
  BY <1>2, <1>3

LEMMA ServiceGood ==
  ASSUME NEW d, Good(d)
  PROVE  Good(ServiceRuntimeRequests(d)) /\ SameStage(ServiceRuntimeRequests(d), d)
<1> DEFINE f == Request("rcr", BuildReceiveControl(d))
           l == Read("link")
           s == ServiceRuntimeRequests(d)
<1>1. d \in DeviceType /\ SameStage(d, d)
  BY DEF Good, SameStage
<1>2. f \in Requests /\ l \in Requests /\ Fits("FilterWrite", f, d) /\ Fits("LinkPoll", l, d)
  BY <1>1, RequestsTyped DEF Fits, Request, Read
<1>3. "FilterWrite" \in RuntimeOperations /\ "LinkPoll" \in RuntimeOperations
  BY DEF RuntimeOperations
<1>4. \/ s = d
      \/ /\ d.initStage = InitComplete /\ ~d.canUserTransfer
         /\ \/ s = ContinueRuntimeMacWrite(d)
            \/ s = QueueRuntime(d, "FilterWrite", f)
            \/ s = QueueRuntime(d, "LinkPoll", l)
  BY Zenon DEF ServiceRuntimeRequests
<1> HIDE DEF f, l, s
<1>5. d.initStage = InitComplete /\ ~d.canUserTransfer => Idle(d)
  BY DEF Idle
<1>6. Good(s) /\ SameStage(s, d)
  BY <1>1, <1>2, <1>3, <1>4, <1>5, StartGood, ContinueGood
<1> QED
  BY <1>6 DEF s

-----------------------------------------------------------------------------
(* The init sequence.                                                        *)

(* No request of the init sequence is outstanding, only one of a user at     *)
(* most: the invariant holds whatever stage the device is moved to.          *)
Quiet(d) ==
  /\ d \in DeviceType /\ Owned(d)
  /\ d.macStep = 0
  /\ d.runtimeOperation \in {"None", "PhyRead", "PhyWrite"}
  /\ d.canUserTransfer => d.runtimeOperation # "None" /\ d.request.register = "phy"

LEMMA QuietGood ==
  ASSUME NEW d, Quiet(d), d.initStage = InitPollNicReset => d.polls <= MaxPolls
  PROVE  Good(d)
<1>1. Staged(d)
  BY DEF Quiet, Staged
<1>2. d.canUserTransfer => Fits(d.runtimeOperation, d.request, d)
  BY DEF Quiet, Fits
<1> QED
  BY <1>1, <1>2 DEF Quiet, Good

LEMMA GoodQuiet ==
  ASSUME NEW d, Good(d), d.initStage # InitComplete,
         d.runtimeOperation = "None" => ~d.canUserTransfer
  PROVE  Quiet(d)
<1>1. d.canUserTransfer => d.request.register = "phy"
  BY DEF Good, Staged, Fits
<1> QED
  BY <1>1 DEF Quiet, Good, Staged

LEMMA QuietMoved ==
  ASSUME NEW d, NEW u \in DeviceType, Quiet(d), SameRequest(u, d), SameOperation(u, d),
         u.macStep = d.macStep
  PROVE  Quiet(u)
  BY DEF Quiet, Owned, SameRequest, SameOperation

(* A call of the init sequence leaves this behind.                           *)
Led(u, stages) == Good(u) /\ u.macStep = 0 /\ u.initStage \in stages

LEMMA FailLeads ==
  ASSUME NEW d, Quiet(d)
  PROVE  Led(FailInitialization(d), {InitFailed})
<1> DEFINE u == [d EXCEPT !.initStage = InitFailed, !.linkState = LinkDown]
<1>1. d \in DeviceType
  BY DEF Quiet
<1>2. u \in DeviceType
  <2>1. 11 \in 0 .. 11 /\ LinkDown \in LinkStates
    OBVIOUS
  <2>2. [d EXCEPT !.initStage = 11] \in DeviceType
    BY <1>1, <2>1 DEF DeviceType
  <2> QED
    BY <2>1, <2>2 DEF DeviceType
<1>3. /\ SameRequest(u, d) /\ SameOperation(u, d) /\ u.macStep = d.macStep
      /\ u.initStage = InitFailed
  BY <1>1 DEF DeviceType, SameRequest, SameOperation
<1>4. FailInitialization(d) = u
  BY DEF FailInitialization
<1> HIDE DEF u
<1>5. Quiet(u)
  BY <1>2, <1>3, QuietMoved
<1> QED
  BY <1>3, <1>4, <1>5, QuietGood DEF Led, Quiet

LEMMA QueueInitLeads ==
  ASSUME NEW d, Quiet(d), NEW request \in Requests, Fits("None", request, d),
         d.initStage = InitPollNicReset => d.polls <= MaxPolls,
         d.initStage \notin {InitWaitingForEthernetAddress, InitComplete, InitFailed}
  PROVE  Led(QueueInit(d, request), {d.initStage, InitFailed})
<1> DEFINE u == QueueControlTransfer(d, request)
<1>1. QueueInit(d, request) = IF CanQueueControlTransfer(d) THEN u ELSE FailInitialization(d)
  BY DEF QueueInit
<1>2. Queued(u, d, request)
  BY QueueFields DEF Quiet
<1> HIDE DEF u
<1>3. CASE CanQueueControlTransfer(d)
  <2>1. d.runtimeOperation = "None" /\ ~d.phyRead /\ ~d.phyWrite /\ d.macStep = 0
    BY <1>3 DEF CanQueueControlTransfer, Quiet, Owned
  <2>2. /\ u \in DeviceType /\ u.canUserTransfer /\ u.request = request /\ ~u.onUsb
        /\ u.runtimeOperation = "None" /\ ~u.phyRead /\ ~u.phyWrite
        /\ u.initStage = d.initStage /\ u.polls = d.polls /\ u.macStep = 0
    BY <1>2, <2>1 DEF Queued, SameStage, SameOperation
  <2>3. Owned(u)
    BY <2>2 DEF Owned
  <2>4. Staged(u)
    BY <2>2 DEF Staged
  <2>5. Fits(u.runtimeOperation, u.request, u)
    BY <2>2 DEF Fits
  <2> QED
    BY <1>1, <1>3, <2>2, <2>3, <2>4, <2>5 DEF Good, Led
<1>4. CASE ~CanQueueControlTransfer(d)
  BY <1>1, <1>4, FailLeads DEF Led
<1> QED
  BY <1>3, <1>4

LEMMA InitRequestFits ==
  ASSUME NEW d \in DeviceType
  PROVE  InitRequest(d) \in Requests /\ Fits("None", InitRequest(d), d)
<1> DEFINE config == Request("crwecr", "config")
           low    == Request("idrLow", d.unicast)
           high   == Request("idrHigh", d.unicast)
           normal == Request("crwecr", "normal")
           filter == Request("rcr", BuildReceiveControl(d))
           other  == Read("other")
<1>1. /\ config \in Requests /\ low \in Requests /\ high \in Requests
      /\ normal \in Requests /\ filter \in Requests /\ other \in Requests
  BY RequestsTyped
<1>2. /\ config.register = "crwecr" /\ low.register = "idrLow" /\ high.register = "idrHigh"
      /\ normal.register = "crwecr" /\ filter.register = "rcr" /\ other.register = "other"
  BY DEF Request, Read
<1>3. InitRequest(d) =
        CASE d.initStage = InitWriteMacConfig      -> config
          [] d.initStage = InitWriteMacLow         -> low
          [] d.initStage = InitWriteMacHigh        -> high
          [] d.initStage = InitWriteMacNormal      -> normal
          [] d.initStage = InitWriteReceiveControl -> filter
          [] OTHER                                 -> other
  BY DEF InitRequest
<1>4. config = Request("crwecr", "config")
  OBVIOUS
<1> HIDE DEF config, low, high, normal, filter, other
<1>5. InitRequest(d) \in Requests
  BY <1>1, <1>3
<1>6. Fits("None", InitRequest(d), d)
  BY <1>2, <1>3, <1>4 DEF Fits
<1> QED
  BY <1>5, <1>6

LEMMA EnterWaitingLeads ==
  ASSUME NEW d, Quiet(d), d.initStage = InitWaitingForEthernetAddress,
         NEW title \in Addresses \cup {NoAddress}
  PROVE  Led(EnterWaiting(d, title),
             {InitWaitingForEthernetAddress, InitWriteMacConfig, InitFailed})
<1> DEFINE e == IF title # NoAddress THEN [d EXCEPT !.unicast = title] ELSE d
           f == [e EXCEPT !.initStage = InitWriteMacConfig]
<1>1. d \in DeviceType
  BY DEF Quiet
<1>2. e \in DeviceType
  BY SMTT(40), <1>1 DEF DeviceType
<1>3. /\ SameRequest(e, d) /\ SameOperation(e, d) /\ e.macStep = d.macStep
      /\ e.initStage = InitWaitingForEthernetAddress
  BY <1>1 DEF DeviceType, SameRequest, SameOperation
<1>4. EnterWaiting(d, title) = IF e.unicast = NoAddress THEN e ELSE QueueInit(f, InitRequest(f))
  BY DEF EnterWaiting
<1> HIDE DEF e
<1>5. Quiet(e)
  BY <1>2, <1>3, QuietMoved
<1>6. f \in DeviceType
  BY SMTT(40), <1>2 DEF DeviceType
<1>7. /\ SameRequest(f, e) /\ SameOperation(f, e) /\ f.macStep = e.macStep
      /\ f.initStage = InitWriteMacConfig
  BY <1>2 DEF DeviceType, SameRequest, SameOperation
<1> HIDE DEF f
<1>8. Quiet(f)
  BY <1>5, <1>6, <1>7, QuietMoved
<1>9. Led(QueueInit(f, InitRequest(f)), {InitWriteMacConfig, InitFailed})
  BY <1>6, <1>7, <1>8, InitRequestFits, QueueInitLeads
<1>10. Led(e, {InitWaitingForEthernetAddress})
  BY <1>3, <1>5, QuietGood DEF Led, Quiet
<1> QED
  BY <1>4, <1>9, <1>10 DEF Led

(* Config mode is entered in the stage before WriteMacLow.                   *)
LEMMA AdvanceLeads ==
  ASSUME NEW d, Quiet(d), d.initStage < InitFailed,
         d.polls <= MaxPolls \/ d.initStage = InitWaitingForEthernetAddress,
         NEW title \in Addresses \cup {NoAddress}
  PROVE  Led(AdvanceInitStage(d, title), {d.initStage, d.initStage + 1, InitWriteMacConfig, InitFailed})
<1> DEFINE e == [d EXCEPT !.initStage = @ + 1]
           t == [e EXCEPT !.timerRunning = TRUE]
           u == AdvanceInitStage(d, title)
<1>1. d \in DeviceType /\ d.initStage \in InitStages
  BY DEF Quiet, DeviceType
<1>2. e \in DeviceType
  <2> DEFINE stage == d.initStage + 1
  <2>1. stage \in 0 .. 11
    BY <1>1
  <2>2. e = [d EXCEPT !.initStage = stage]
    OBVIOUS
  <2> HIDE DEF stage, e
  <2> QED
    BY <1>1, <2>1, <2>2 DEF DeviceType
<1>3. /\ SameRequest(e, d) /\ SameOperation(e, d) /\ e.macStep = d.macStep
      /\ e.polls = d.polls /\ e.initStage = d.initStage + 1
  BY <1>1 DEF DeviceType, SameRequest, SameOperation
<1>4. u = CASE d.closing                                     -> d
            [] ~d.closing /\ e.initStage = InitWaitingForEthernetAddress -> EnterWaiting(e, title)
            [] ~d.closing /\ e.initStage = InitComplete      -> t
            [] ~d.closing /\ e.initStage > InitComplete      -> FailInitialization(e)
            [] OTHER                                         -> QueueInit(e, InitRequest(e))
  BY DEF AdvanceInitStage
<1> HIDE DEF e
<1>5. Quiet(e)
  BY <1>2, <1>3, QuietMoved
<1>6. t \in DeviceType
  BY <1>2 DEF DeviceType
<1>7. SameRequest(t, e) /\ SameOperation(t, e) /\ t.macStep = e.macStep /\ t.initStage = e.initStage
  BY <1>2 DEF DeviceType, SameRequest, SameOperation
<1> HIDE DEF t
<1>8. Quiet(t)
  BY <1>5, <1>6, <1>7, QuietMoved
<1>9. CASE d.closing
  <2>1. Good(d)
    BY <1>1, QuietGood
  <2> QED
    BY <1>4, <1>9, <2>1 DEF Led, Quiet
<1>10. CASE ~d.closing /\ e.initStage = InitWaitingForEthernetAddress
  <2>1. u = EnterWaiting(e, title)
    BY <1>4, <1>10
  <2> QED
    BY <1>3, <1>5, <1>10, <2>1, EnterWaitingLeads DEF Led
<1>11. CASE ~d.closing /\ e.initStage = InitComplete
  <2>1. u = t
    BY <1>4, <1>11
  <2> QED
    BY <1>3, <1>7, <1>8, <1>11, <2>1, QuietGood DEF Led, Quiet
<1>12. CASE ~d.closing /\ e.initStage > InitComplete
  <2>1. u = FailInitialization(e)
    BY <1>1, <1>3, <1>4, <1>12
  <2> QED
    BY <1>5, <2>1, FailLeads DEF Led
<1>13. CASE ~d.closing /\ e.initStage < InitComplete /\ e.initStage # InitWaitingForEthernetAddress
  <2>1. u = QueueInit(e, InitRequest(e))
    BY <1>1, <1>3, <1>4, <1>13
  <2>2. e.initStage = InitPollNicReset => e.polls <= MaxPolls
    BY <1>3
  <2>3. e.initStage \notin {InitWaitingForEthernetAddress, InitComplete, InitFailed}
    BY <1>13
  <2> QED
    BY <1>2, <1>3, <1>5, <2>1, <2>2, <2>3, InitRequestFits, QueueInitLeads DEF Led
<1> QED
  BY <1>1, <1>3, <1>9, <1>10, <1>11, <1>12, <1>13

-----------------------------------------------------------------------------
(* Completions.                                                              *)

(* u is what a completed operation leaves of d before the next request.      *)
Finished(u, d) ==
  /\ u \in DeviceType /\ ~u.phyRead /\ ~u.phyWrite
  /\ u.initStage = d.initStage /\ u.polls = d.polls
  /\ u.macStep # 0 => d.initStage = InitComplete
  /\ u.macStep \in {1, 2} => d.runtimeOperation = "MacConfig" \/ d.macStep \in {1, 2}

LEMMA FinishedIdle ==
  ASSUME NEW d, NEW r, Good(d), Finished(r, d)
  PROVE  LET c == [CompleteControlTransfer(r) EXCEPT !.runtimeOperation = "None"]
         IN  Idle(c) /\ Finished(c, d)
<1> DEFINE f == CompleteControlTransfer(r)
           c == [f EXCEPT !.runtimeOperation = "None"]
<1>1. Freed(f, r)
  BY CompleteFields DEF Finished
<1> HIDE DEF f
<1>2. "None" \in RuntimeOperations
  BY DEF RuntimeOperations
<1>3. c \in DeviceType
  BY ZenonT(40), <1>1, <1>2 DEF Freed, DeviceType
<1>4. /\ ~c.canUserTransfer /\ c.request = NoRequest /\ ~c.onUsb /\ c.runtimeOperation = "None"
      /\ c.phyRead = r.phyRead /\ c.phyWrite = r.phyWrite
      /\ c.initStage = r.initStage /\ c.polls = r.polls /\ c.macStep = r.macStep
  BY <1>1 DEF Freed, DeviceType, SameStage, SameOperation
<1> HIDE DEF c
<1>5. Finished(c, d)
  BY <1>3, <1>4 DEF Finished
<1>6. Owned(c)
  BY <1>4 DEF Owned, Finished
<1>7. Staged(c)
  BY <1>4, <1>5 DEF Staged, Finished, Good
<1> QED
  BY <1>3, <1>4, <1>5, <1>6, <1>7 DEF Idle, Good, f, c

LEMMA RuntimeResultFinished ==
  ASSUME NEW d, Good(d), d.runtimeOperation # "None", NEW l \in LinkStates
  PROVE  Finished(RuntimeResult(d, l), d)
<1> DEFINE r == RuntimeResult(d, l)
<1>1. d \in DeviceType /\ Owned(d) /\ Staged(d) /\ d.canUserTransfer
      /\ Fits(d.runtimeOperation, d.request, d)
  BY DEF Good, Owned
<1>2. d.runtimeOperation \in {"LinkPoll", "FilterWrite", "PhyRead", "PhyWrite",
                             "MacConfig", "MacLow", "MacHigh", "MacNormal"}
  BY <1>1 DEF DeviceType, RuntimeOperations, RuntimeMacOperations
<1>3. /\ d.runtimeOperation # "PhyRead" => ~d.phyRead
      /\ d.runtimeOperation # "PhyWrite" => ~d.phyWrite
      /\ d.macStep # 0 => d.initStage = InitComplete
  BY <1>1 DEF Owned, Staged
<1> SUFFICES Finished(r, d)
  OBVIOUS
<1> HIDE DEF r
<1>4. CASE d.runtimeOperation = "LinkPoll"
  <2>1. r = [d EXCEPT !.linkState = l, !.linkPollPending = FALSE]
    BY <1>4 DEF RuntimeResult, r
  <2>2. r \in DeviceType
    BY ZenonT(40), <1>1, <2>1 DEF DeviceType
  <2>3. /\ r.phyRead = d.phyRead /\ r.phyWrite = d.phyWrite /\ r.macStep = d.macStep
        /\ r.initStage = d.initStage /\ r.polls = d.polls
    BY <1>1, <2>1 DEF DeviceType
  <2> QED
    BY <1>3, <1>4, <2>2, <2>3 DEF Finished
<1>5. CASE d.runtimeOperation = "FilterWrite"
  <2>1. r = [d EXCEPT !.filterUpdatePending = FALSE]
    BY <1>5 DEF RuntimeResult, r
  <2>2. r \in DeviceType
    BY ZenonT(40), <1>1, <2>1 DEF DeviceType
  <2>3. /\ r.phyRead = d.phyRead /\ r.phyWrite = d.phyWrite /\ r.macStep = d.macStep
        /\ r.initStage = d.initStage /\ r.polls = d.polls
    BY <1>1, <2>1 DEF DeviceType
  <2> QED
    BY <1>3, <1>5, <2>2, <2>3 DEF Finished
<1>6. CASE d.runtimeOperation = "PhyRead"
  <2>1. r = [d EXCEPT !.phyRead = FALSE]
    BY <1>6 DEF RuntimeResult, r
  <2>2. r \in DeviceType
    BY ZenonT(40), <1>1, <2>1 DEF DeviceType
  <2>3. /\ r.phyRead = FALSE /\ r.phyWrite = d.phyWrite /\ r.macStep = d.macStep
        /\ r.initStage = d.initStage /\ r.polls = d.polls
    BY <1>1, <2>1 DEF DeviceType
  <2> QED
    BY <1>3, <1>6, <2>2, <2>3 DEF Finished
<1>7. CASE d.runtimeOperation = "PhyWrite"
  <2>1. r = [d EXCEPT !.phyWrite = FALSE]
    BY <1>7 DEF RuntimeResult, r
  <2>2. r \in DeviceType
    BY ZenonT(40), <1>1, <2>1 DEF DeviceType
  <2>3. /\ r.phyRead = d.phyRead /\ r.phyWrite = FALSE /\ r.macStep = d.macStep
        /\ r.initStage = d.initStage /\ r.polls = d.polls
    BY <1>1, <2>1 DEF DeviceType
  <2> QED
    BY <1>3, <1>7, <2>2, <2>3 DEF Finished
<1>8. CASE d.runtimeOperation = "MacNormal"
  <2>1. r = [d EXCEPT !.macStep = 0, !.macUpdatePending = FALSE]
    BY <1>8 DEF RuntimeResult, r
  <2>2. 0 \in 0 .. 3
    OBVIOUS
  <2>3. r \in DeviceType
    BY ZenonT(40), <1>1, <2>1, <2>2 DEF DeviceType
  <2>4. /\ r.phyRead = d.phyRead /\ r.phyWrite = d.phyWrite /\ r.macStep = 0
        /\ r.initStage = d.initStage /\ r.polls = d.polls
    BY <1>1, <2>1 DEF DeviceType
  <2> QED
    BY <1>3, <1>8, <2>3, <2>4 DEF Finished
<1>9. CASE d.runtimeOperation \in {"MacConfig", "MacLow", "MacHigh"}
  <2> DEFINE step == d.macStep + 1
  <2>1. r = [d EXCEPT !.macStep = step]
    BY <1>9 DEF RuntimeResult, r
  <2>2. step \in 0 .. 3
    BY <1>1, <1>9 DEF Fits
  <2>3. step \in {1, 2} => d.runtimeOperation = "MacConfig" \/ d.macStep \in {1, 2}
    BY <1>1, <1>9 DEF Fits
  <2>4. d.initStage = InitComplete
    BY <1>1, <1>9 DEF Staged
  <2> HIDE DEF step
  <2>5. r \in DeviceType
    BY <1>1, <2>1, <2>2 DEF DeviceType
  <2>6. /\ r.phyRead = d.phyRead /\ r.phyWrite = d.phyWrite /\ r.initStage = d.initStage
        /\ r.polls = d.polls /\ r.macStep = step
    BY <1>1, <2>1 DEF DeviceType
  <2> QED
    BY <1>3, <1>9, <2>3, <2>4, <2>5, <2>6 DEF Finished
<1> QED
  BY <1>2, <1>4, <1>5, <1>6, <1>7, <1>8, <1>9

LEMMA CompleteRuntimeGood ==
  ASSUME NEW d, Good(d), d.runtimeOperation # "None", NEW l \in LinkStates
  PROVE  /\ Good(CompleteRuntime(d, l))
         /\ CompleteRuntime(d, l).initStage = d.initStage
         /\ CompleteRuntime(d, l).macStep \in {1, 2} =>
              d.runtimeOperation = "MacConfig" \/ d.macStep \in {1, 2}
<1> DEFINE c == [CompleteControlTransfer(RuntimeResult(d, l)) EXCEPT !.runtimeOperation = "None"]
<1>1. Idle(c) /\ Finished(c, d)
  BY RuntimeResultFinished, FinishedIdle, Zenon
<1>2. \/ CompleteRuntime(d, l) = ContinueRuntimeMacWrite(c)
      \/ CompleteRuntime(d, l) = ServiceRuntimeRequests(c)
  BY Zenon DEF CompleteRuntime
<1> HIDE DEF c
<1>3. Good(c)
  BY <1>1 DEF Idle
<1>4. Good(CompleteRuntime(d, l)) /\ SameStage(CompleteRuntime(d, l), c)
  BY <1>1, <1>2, <1>3, ContinueGood, ServiceGood
<1> QED
  BY <1>1, <1>4 DEF SameStage, Finished

LEMMA CompleteFailedGood ==
  ASSUME NEW d, Good(d), d.canUserTransfer
  PROVE  /\ Good(CompleteFailed(d)) /\ CompleteFailed(d).macStep = d.macStep
         /\ d.initStage < InitComplete => CompleteFailed(d).initStage = InitFailed
         /\ ~(d.initStage < InitComplete) => CompleteFailed(d).initStage = d.initStage
<1> DEFINE c == CompleteControlTransfer(d)
           read  == c.phyRead /\ d.runtimeOperation # "PhyRead"
           write == c.phyWrite /\ d.runtimeOperation # "PhyWrite"
           r == [c EXCEPT !.phyRead = read, !.phyWrite = write, !.runtimeOperation = "None"]
<1>1. d \in DeviceType /\ Owned(d) /\ Staged(d)
  BY DEF Good
<1>2. Freed(c, d)
  BY <1>1, CompleteFields
<1>3. CompleteFailed(d) = IF d.initStage < InitComplete THEN FailInitialization(r) ELSE r
  BY DEF CompleteFailed
<1>4. c.phyRead = d.phyRead /\ c.phyWrite = d.phyWrite
  BY <1>2 DEF Freed, SameOperation
<1> HIDE DEF c
<1>5. ~read /\ ~write /\ read \in BOOLEAN /\ write \in BOOLEAN
  BY <1>1, <1>4 DEF Owned
<1> HIDE DEF read, write
<1>6. "None" \in RuntimeOperations
  BY DEF RuntimeOperations
<1>7. r \in DeviceType
  BY ZenonT(40), <1>2, <1>5, <1>6 DEF Freed, DeviceType
<1>8. /\ ~r.phyRead /\ ~r.phyWrite /\ r.runtimeOperation = "None"
      /\ ~r.canUserTransfer /\ r.request = NoRequest /\ ~r.onUsb
      /\ r.initStage = d.initStage /\ r.polls = d.polls /\ r.macStep = d.macStep
  BY <1>2, <1>5 DEF Freed, DeviceType, SameStage
<1> HIDE DEF r
<1>9. Good(r)
  BY <1>1, <1>7, <1>8 DEF Good, Owned, Staged
<1>10. d.initStage < InitComplete => Led(FailInitialization(r), {InitFailed}) /\ d.macStep = 0
  BY <1>1, <1>8, <1>9, GoodQuiet, FailLeads DEF Staged
<1> QED
  BY <1>3, <1>8, <1>9, <1>10 DEF Led

LEMMA CompleteInitLeads ==
  ASSUME NEW d, Good(d), d.canUserTransfer, d.runtimeOperation = "None", NEW l \in LinkStates,
         NEW again \in BOOLEAN, NEW refuse \in BOOLEAN, NEW title \in Addresses \cup {NoAddress},
         again => d.initStage = InitPollNicReset
  PROVE  Led(CompleteInit(d, l, again, refuse, title),
             {d.initStage, d.initStage + 1, InitWriteMacConfig, InitFailed})
<1> DEFINE c == CompleteControlTransfer(d)
           p == [c EXCEPT !.polls = @ + 1]
           m == IF d.initStage = InitReadLinkStatus THEN [d EXCEPT !.linkState = l] ELSE d
           k == CompleteControlTransfer(m)
           n == [k EXCEPT !.polls = 0]
           u == CompleteInit(d, l, again, refuse, title)
<1>1. /\ d \in DeviceType /\ Owned(d) /\ Staged(d) /\ d.macStep = 0
      /\ d.initStage < InitFailed /\ d.initStage # InitComplete
      /\ d.initStage # InitWaitingForEthernetAddress
  BY DEF Good, Staged, DeviceType
<1>2. u = CASE refuse -> FailInitialization(c)
            [] ~refuse /\ again ->
                 IF p.polls > MaxPolls THEN FailInitialization(p) ELSE QueueInit(p, Read("other"))
            [] OTHER  -> AdvanceInitStage(n, title)
  BY DEF CompleteInit
<1>3. m \in DeviceType /\ SameStage(m, d) /\ SameOperation(m, d)
  <2> DEFINE v == [d EXCEPT !.linkState = l]
  <2>1. d \in DeviceType
    BY <1>1
  <2>2. v \in DeviceType /\ SameStage(v, d) /\ SameOperation(v, d)
    BY ONLY ZenonT(40), <2>1 DEF v, DeviceType, SameStage, SameOperation
  <2>3. m = v \/ m = d
    OBVIOUS
  <2>4. SameStage(d, d) /\ SameOperation(d, d)
    BY DEF SameStage, SameOperation
  <2> HIDE DEF m, v
  <2> QED
    BY <1>1, <2>1, <2>2, <2>3, <2>4
<1> HIDE DEF m
<1>4. Freed(c, d) /\ Freed(k, m)
  BY <1>1, <1>3, CompleteFields
<1> SUFFICES Led(u, {d.initStage, d.initStage + 1, InitWriteMacConfig, InitFailed})
  OBVIOUS
<1> HIDE DEF c, k, u
<1>5. ~d.phyRead /\ ~d.phyWrite
  BY <1>1 DEF Owned
<1>6. Quiet(c) /\ c.initStage = d.initStage /\ c.polls = d.polls
  BY <1>1, <1>4, <1>5 DEF Quiet, Owned, Freed, SameStage, SameOperation
<1>7. Quiet(k) /\ k.initStage = d.initStage
  BY <1>1, <1>3, <1>4, <1>5 DEF Quiet, Owned, Freed, SameStage, SameOperation
<1>8. CASE refuse
  <2>1. u = FailInitialization(c)
    BY <1>2, <1>8
  <2>2. Led(FailInitialization(c), {InitFailed})
    BY <1>6, FailLeads
  <2> QED
    BY <2>1, <2>2 DEF Led
<1>9. CASE ~refuse /\ again
  <2> DEFINE count == c.polls + 1
  <2>1. d.initStage = InitPollNicReset /\ d.polls <= MaxPolls
    BY <1>1, <1>9 DEF Staged
  <2>2. count \in 0 .. MaxPolls + 1
    BY <1>1, <1>6, <2>1 DEF DeviceType
  <2>3. p = [c EXCEPT !.polls = count] /\ c \in DeviceType
    BY <1>6 DEF Quiet
  <2> HIDE DEF count, p
  <2>4. p \in DeviceType
    BY <2>2, <2>3 DEF DeviceType
  <2>5. /\ SameRequest(p, c) /\ SameOperation(p, c) /\ p.macStep = c.macStep
        /\ p.polls = count /\ p.initStage = c.initStage
    BY <2>3 DEF DeviceType, SameRequest, SameOperation
  <2>6. Quiet(p)
    BY <1>6, <2>4, <2>5, QuietMoved
  <2>7. Read("other") \in Requests /\ Fits("None", Read("other"), p)
    <3>1. Read("other") \in Requests /\ Read("other").register = "other"
      BY <2>4, RequestsTyped DEF Read, Request
    <3>2. p.initStage = InitPollNicReset
      BY <1>6, <2>1, <2>5
    <3> QED
      BY <3>1, <3>2 DEF Fits
  <2>8. CASE p.polls > MaxPolls
    <3>1. u = FailInitialization(p)
      BY <1>2, <1>9, <2>8
    <3>2. Led(FailInitialization(p), {InitFailed})
      BY <2>6, FailLeads
    <3> QED
      BY <3>1, <3>2 DEF Led
  <2>9. CASE ~(p.polls > MaxPolls)
    <3>1. u = QueueInit(p, Read("other"))
      BY <1>2, <1>9, <2>9
    <3>2. p.polls <= MaxPolls /\ p.initStage = InitPollNicReset
      BY <1>6, <2>1, <2>2, <2>5, <2>9
    <3>3. Led(QueueInit(p, Read("other")), {p.initStage, InitFailed})
      BY <2>6, <2>7, <3>2, QueueInitLeads
    <3> QED
      BY <1>6, <2>5, <3>1, <3>3 DEF Led
  <2> QED
    BY <2>8, <2>9
<1>10. CASE ~refuse /\ ~again
  <2>1. k \in DeviceType /\ 0 \in 0 .. MaxPolls + 1
    BY <1>7 DEF Quiet
  <2>2. n \in DeviceType
    BY <2>1 DEF DeviceType
  <2>3. /\ SameRequest(n, k) /\ SameOperation(n, k) /\ n.macStep = k.macStep
        /\ n.polls = 0 /\ n.initStage = k.initStage
    BY <2>1 DEF DeviceType, SameRequest, SameOperation
  <2>4. u = AdvanceInitStage(n, title)
    BY <1>2, <1>10
  <2> HIDE DEF n
  <2>5. Quiet(n)
    BY <1>7, <2>2, <2>3, QuietMoved
  <2>6. n.polls <= MaxPolls /\ n.initStage < InitFailed /\ n.initStage = d.initStage
    BY <1>1, <1>7, <2>3
  <2>7. Led(AdvanceInitStage(n, title), {n.initStage, n.initStage + 1, InitWriteMacConfig, InitFailed})
    BY <2>5, <2>6, AdvanceLeads
  <2> QED
    BY <2>4, <2>6, <2>7 DEF Led
<1> QED
  BY <1>8, <1>9, <1>10

-----------------------------------------------------------------------------
(* Requests from the rest of the driver.                                     *)

LEMMA AddressGood ==
  ASSUME NEW d, Good(d), NEW address \in Addresses
  PROVE  LET u == OnUnicastAddressChanged([d EXCEPT !.unicast = address])
         IN  /\ Good(u) /\ u.macStep = d.macStep
             /\ u.initStage \in {d.initStage, InitWriteMacConfig, InitFailed}
<1> DEFINE a == [d EXCEPT !.unicast = address]
           late == AddressOnItsWay(a)
           e == [a EXCEPT !.addressOvertaken = late]
           f == [e EXCEPT !.macUpdatePending = TRUE]
           u == OnUnicastAddressChanged(a)
<1> SUFFICES /\ Good(u) /\ u.macStep = d.macStep
             /\ u.initStage \in {d.initStage, InitWriteMacConfig, InitFailed}
  OBVIOUS
<1>1. d \in DeviceType
  BY DEF Good
<1>2. a \in DeviceType /\ Same(a, d)
  BY <1>1 DEF DeviceType, Same, SameRequest, SameStage, SameOperation
<1>3. u = CASE a.initStage = InitWaitingForEthernetAddress -> AdvanceInitStage(e, NoAddress)
            [] a.initStage = InitComplete -> ServiceRuntimeRequests(f)
            [] OTHER -> e
  BY DEF OnUnicastAddressChanged
<1>4. late \in BOOLEAN
  BY DEF AddressOnItsWay
<1> HIDE DEF a, late
<1>5. e \in DeviceType /\ Same(e, a)
  BY ZenonT(40), <1>2, <1>4 DEF DeviceType, Same, SameRequest, SameStage, SameOperation
<1> HIDE DEF e, u
<1>6. f \in DeviceType /\ Same(f, e)
  BY <1>5 DEF DeviceType, Same, SameRequest, SameStage, SameOperation
<1> HIDE DEF f
<1>7. Good(e) /\ e.initStage = d.initStage /\ e.macStep = d.macStep
  BY <1>2, <1>5, SameGood DEF Same, SameStage
<1>8. Good(f) /\ f.initStage = d.initStage /\ f.macStep = d.macStep
  BY <1>6, <1>7, SameGood DEF Same, SameStage
<1>9. a.initStage = d.initStage
  BY <1>2 DEF Same, SameStage
<1>10. CASE a.initStage = InitWaitingForEthernetAddress
  <2>1. u = AdvanceInitStage(e, NoAddress)
    BY <1>3, <1>10
  <2>2. e.runtimeOperation = "None" => ~e.canUserTransfer
    BY <1>7, <1>9, <1>10 DEF Good, Staged
  <2>3. Quiet(e)
    BY <1>7, <1>9, <1>10, <2>2, GoodQuiet
  <2>4. Led(AdvanceInitStage(e, NoAddress),
            {e.initStage, e.initStage + 1, InitWriteMacConfig, InitFailed})
    BY <1>7, <1>9, <1>10, <2>3, AdvanceLeads
  <2>5. e.macStep = 0 /\ e.initStage + 1 = InitWriteMacConfig
    BY <1>7, <1>9, <1>10, <2>3 DEF Quiet
  <2> QED
    BY <1>7, <2>1, <2>4, <2>5 DEF Led
<1>11. CASE a.initStage = InitComplete
  <2>1. u = ServiceRuntimeRequests(f)
    BY <1>3, <1>11
  <2> QED
    BY <1>8, <2>1, ServiceGood DEF SameStage
<1>12. CASE a.initStage # InitWaitingForEthernetAddress /\ a.initStage # InitComplete
  <2>1. u = e
    BY <1>3, <1>12
  <2> QED
    BY <1>7, <2>1
<1> QED
  BY <1>10, <1>11, <1>12

LEMMA FilterGood ==
  ASSUME NEW d, Good(d), NEW filter \in Filters
  PROVE  LET u == UpdateReceiveFilter([d EXCEPT !.filter = filter])
         IN  Good(u) /\ SameStage(u, d)
<1> DEFINE a == [d EXCEPT !.filter = filter]
           late == a.runtimeOperation = "FilterWrite"
           e == [a EXCEPT !.filterOvertaken = late]
           f == [e EXCEPT !.filterUpdatePending = TRUE]
           u == UpdateReceiveFilter(a)
<1> SUFFICES Good(u) /\ SameStage(u, d)
  OBVIOUS
<1>1. d \in DeviceType
  BY DEF Good
<1>2. a \in DeviceType /\ Same(a, d)
  BY <1>1 DEF DeviceType, Same, SameRequest, SameStage, SameOperation
<1>3. u = e \/ u = ServiceRuntimeRequests(f)
  BY Zenon DEF UpdateReceiveFilter
<1>4. late \in BOOLEAN
  OBVIOUS
<1> HIDE DEF a, late
<1>5. e \in DeviceType /\ Same(e, a)
  BY ZenonT(40), <1>2, <1>4 DEF DeviceType, Same, SameRequest, SameStage, SameOperation
<1> HIDE DEF e, u
<1>6. f \in DeviceType /\ Same(f, e)
  BY <1>5 DEF DeviceType, Same, SameRequest, SameStage, SameOperation
<1> HIDE DEF f
<1>7. Good(e) /\ SameStage(e, d)
  BY <1>2, <1>5, SameGood DEF Same, SameStage
<1>8. Good(f) /\ SameStage(f, d)
  BY <1>6, <1>7, SameGood DEF Same, SameStage
<1>9. Good(ServiceRuntimeRequests(f)) /\ SameStage(ServiceRuntimeRequests(f), f)
  BY <1>8, ServiceGood
<1> QED
  BY <1>3, <1>7, <1>8, <1>9 DEF SameStage

LEMMA LinkPollGood ==
  ASSUME NEW d, Good(d)
  PROVE  LET u == [d EXCEPT !.linkPollPending = TRUE]
         IN  /\ Good(u) /\ SameStage(u, d)
             /\ Good(ServiceRuntimeRequests(u)) /\ SameStage(ServiceRuntimeRequests(u), d)
<1> DEFINE u == [d EXCEPT !.linkPollPending = TRUE]
<1>1. d \in DeviceType
  BY DEF Good
<1>2. u \in DeviceType /\ Same(u, d)
  BY <1>1 DEF DeviceType, Same, SameRequest, SameStage, SameOperation
<1> HIDE DEF u
<1>3. Good(u) /\ SameStage(u, d)
  BY <1>2, SameGood DEF Same
<1>4. Good(ServiceRuntimeRequests(u)) /\ SameStage(ServiceRuntimeRequests(u), u)
  BY <1>3, ServiceGood
<1> QED
  BY <1>3, <1>4 DEF SameStage, u

-----------------------------------------------------------------------------
(* User threads.                                                             *)

LEMMA ThreadGood ==
  ASSUME NEW d, Good(d), NEW t \in Threads
  PROVE  /\ Good(AwaitTurn(d)) /\ SameStage(AwaitTurn(d), d)
         /\ Good(TurnOver(d, t)) /\ SameStage(TurnOver(d, t), d)
         /\ Good(ResultTaken(d, t)) /\ SameStage(ResultTaken(d, t), d)
         /\ Good(BeginUserControlTransfer(d)) /\ SameStage(BeginUserControlTransfer(d), d)
<1>1. d \in DeviceType
  BY DEF Good
<1> DEFINE woken == d.woken \ {t}
<1>2. woken \in SUBSET Threads
  BY <1>1 DEF DeviceType
<1>3. AwaitTurn(d) \in DeviceType /\ Same(AwaitTurn(d), d)
  BY <1>1 DEF AwaitTurn, DeviceType, Same, SameRequest, SameStage, SameOperation
<1>4. BeginUserControlTransfer(d) \in DeviceType /\ Same(BeginUserControlTransfer(d), d)
  BY <1>1 DEF BeginUserControlTransfer, DeviceType, Same, SameRequest, SameStage, SameOperation
<1>5. /\ TurnOver(d, t) = [d EXCEPT !.transferInProgress = FALSE, !.woken = woken]
      /\ ResultTaken(d, t) = [d EXCEPT !.active = FALSE, !.woken = woken]
  BY DEF TurnOver, ResultTaken
<1> HIDE DEF woken
<1>6. TurnOver(d, t) \in DeviceType /\ Same(TurnOver(d, t), d)
  <2>1. [d EXCEPT !.transferInProgress = FALSE, !.woken = woken] \in DeviceType
    BY <1>1, <1>2 DEF DeviceType
  <2>2. Same([d EXCEPT !.transferInProgress = FALSE, !.woken = woken], d)
    BY <1>1 DEF DeviceType, Same, SameRequest, SameStage, SameOperation
  <2> QED
    BY <1>5, <2>1, <2>2
<1>7. ResultTaken(d, t) \in DeviceType /\ Same(ResultTaken(d, t), d)
  BY ZenonT(40), <1>1, <1>2, <1>5 DEF DeviceType, Same, SameRequest, SameStage, SameOperation
<1> QED
  BY <1>3, <1>4, <1>6, <1>7, SameGood DEF Same

(* The transfer of a PHY register starts: r has the flag of its operation.   *)
LEMMA PhyStartGood ==
  ASSUME NEW r \in DeviceType, Staged(r), CanQueueControlTransfer(r),
         NEW operation \in RuntimeOperations, operation \in {"PhyRead", "PhyWrite"},
         r.phyRead <=> operation = "PhyRead", r.phyWrite <=> operation = "PhyWrite",
         NEW request \in Requests, request.register = "phy"
  PROVE  /\ Good(QueueRuntime(r, operation, request))
         /\ SameStage(QueueRuntime(r, operation, request), r)
<1> DEFINE u == QueueRuntime(r, operation, request)
<1>1. /\ u \in DeviceType /\ SameStage(u, r)
      /\ u.phyRead = r.phyRead /\ u.phyWrite = r.phyWrite
      /\ CanQueueControlTransfer(r) =>
           /\ u.canUserTransfer /\ u.request = request /\ ~u.onUsb
           /\ u.runtimeOperation = operation
  BY QueueRuntimeFields
<1>2. request # NoRequest
  OBVIOUS
<1> HIDE DEF u
<1>3. Staged(u)
  BY <1>1 DEF Staged, SameStage
<1>4. Owned(u)
  BY <1>1, <1>2 DEF Owned
<1>5. Fits(u.runtimeOperation, u.request, u)
  BY <1>1 DEF Fits
<1>6. Good(u) /\ SameStage(u, r)
  BY <1>1, <1>3, <1>4, <1>5 DEF Good
<1> QED
  BY <1>6 DEF u

(* A thread that owns the channel starts its transfer.                       *)
LEMMA BeginPhyGood ==
  ASSUME NEW d, Idle(d), ~d.closing, NEW call \in Calls
  PROVE  Good(BeginPhy(d, call)) /\ SameStage(BeginPhy(d, call), d)
<1>1. /\ d \in DeviceType /\ d.runtimeOperation = "None" /\ ~d.phyRead /\ ~d.phyWrite
      /\ ~d.canUserTransfer /\ Staged(d)
  BY IdleFields DEF Idle, Good
<1>2. call.register \in Registers /\ call.register \in Nat
  BY DEF Calls
<1> DEFINE request == Request("phy", call.register)
           r == [d EXCEPT !.phyRegister = call.register, !.phyRead = TRUE]
           w == [d EXCEPT !.phyRegister = call.register, !.phyWrite = TRUE]
           ur == QueueRuntime(r, "PhyRead", request)
           uw == QueueRuntime(w, "PhyWrite", request)
<1>3. BeginPhy(d, call) = IF call.write THEN uw ELSE ur
  BY DEF BeginPhy, BeginReadPhy, BeginWritePhy
<1>4. request \in Requests /\ request.register = "phy"
  BY <1>1, <1>2, RequestsTyped DEF Request
<1>5. "PhyRead" \in RuntimeOperations /\ "PhyWrite" \in RuntimeOperations
  BY DEF RuntimeOperations
<1>6. /\ r \in DeviceType /\ SameStage(r, d) /\ CanQueueControlTransfer(r) /\ Staged(r)
      /\ r.phyRead /\ ~r.phyWrite
  <2>1. r \in DeviceType
    BY <1>1, <1>2 DEF DeviceType
  <2>2. /\ SameStage(r, d) /\ CanQueueControlTransfer(r) /\ r.phyRead /\ ~r.phyWrite
        /\ r.runtimeOperation = d.runtimeOperation /\ r.canUserTransfer = d.canUserTransfer
    BY <1>1 DEF DeviceType, SameStage, CanQueueControlTransfer
  <2> HIDE DEF r
  <2> QED
    BY <1>1, <2>1, <2>2 DEF Staged, SameStage
<1>7. /\ w \in DeviceType /\ SameStage(w, d) /\ CanQueueControlTransfer(w) /\ Staged(w)
      /\ ~w.phyRead /\ w.phyWrite
  <2>1. w \in DeviceType
    BY <1>1, <1>2 DEF DeviceType
  <2>2. /\ SameStage(w, d) /\ CanQueueControlTransfer(w) /\ ~w.phyRead /\ w.phyWrite
        /\ w.runtimeOperation = d.runtimeOperation /\ w.canUserTransfer = d.canUserTransfer
    BY <1>1 DEF DeviceType, SameStage, CanQueueControlTransfer
  <2> HIDE DEF w
  <2> QED
    BY <1>1, <2>1, <2>2 DEF Staged, SameStage
<1> HIDE DEF r, w, request
<1>8. Good(ur) /\ SameStage(ur, r)
  BY <1>4, <1>5, <1>6, PhyStartGood
<1>9. Good(uw) /\ SameStage(uw, w)
  BY <1>4, <1>5, <1>7, PhyStartGood
<1> HIDE DEF ur, uw
<1> QED
  BY <1>3, <1>6, <1>7, <1>8, <1>9 DEF SameStage

LEMMA BeginGood ==
  ASSUME NEW d, Good(d), UserMayBegin(d), NEW t \in Threads, NEW call \in Calls, Begin(d, t, call)
  PROVE  Good(dev') /\ SameStage(dev', d) /\ pc' = [pc EXCEPT ![t] = "result"]
<1> DEFINE b == BeginUserControlTransfer(d)
<1>1. Idle(d) /\ ~d.closing
  BY DEF Idle, UserMayBegin
<1>2. ~PhyBusy(d)
  BY <1>1, IdleFields DEF PhyBusy
<1>3. dev' = BeginPhy(b, call) /\ pc' = [pc EXCEPT ![t] = "result"]
  BY <1>2 DEF Begin
<1>4. Good(b) /\ SameStage(b, d)
  BY ThreadGood
<1>5. ~b.canUserTransfer /\ ~b.closing
  BY <1>1, IdleFields DEF BeginUserControlTransfer, DeviceType, Idle
<1> HIDE DEF b
<1>6. Good(BeginPhy(b, call)) /\ SameStage(BeginPhy(b, call), b)
  BY <1>4, <1>5, BeginPhyGood DEF Idle
<1> QED
  BY <1>3, <1>4, <1>6 DEF SameStage

-----------------------------------------------------------------------------
(* The initial states.                                                       *)

LEMMA DeviceFields ==
  /\ Device \in DeviceType /\ Quiet(Device)
  /\ Device.initStage = InitBeginning /\ Device.polls = 0
<1>1. DOMAIN ControlFields = {"canUserTransfer", "transferInProgress", "active", "closing", "request",
                              "onUsb", "signalled", "waiters", "woken"}
  BY DEF ControlFields
<1>2. DOMAIN BackendFields =
        {"initStage", "polls", "runtimeOperation", "macUpdatePending", "macStep", "filterUpdatePending",
         "linkPollPending", "phyRead", "phyWrite", "phyRegister", "timerRunning", "linkState",
         "unicast", "filter", "addressOvertaken", "filterOvertaken"}
  BY DEF BackendFields
<1>3. Device = [field \in {"canUserTransfer", "transferInProgress", "active", "closing", "request",
                           "onUsb", "signalled", "waiters", "woken",
                           "initStage", "polls", "runtimeOperation", "macUpdatePending", "macStep",
                           "filterUpdatePending", "linkPollPending", "phyRead", "phyWrite",
                           "phyRegister", "timerRunning", "linkState", "unicast", "filter",
                           "addressOvertaken", "filterOvertaken"} |->
                  IF field \in DOMAIN ControlFields THEN ControlFields[field] ELSE BackendFields[field]]
  BY <1>1, <1>2 DEF Device
<1>4. /\ Device.canUserTransfer = FALSE /\ Device.transferInProgress = FALSE
      /\ Device.active = FALSE /\ Device.closing = FALSE /\ Device.request = NoRequest
      /\ Device.onUsb = FALSE /\ Device.signalled = FALSE /\ Device.waiters = <<>>
      /\ Device.woken = {}
  BY <1>1, <1>3 DEF ControlFields
<1>5. /\ Device.initStage = InitBeginning /\ Device.polls = 0 /\ Device.runtimeOperation = "None"
      /\ Device.macUpdatePending = FALSE /\ Device.macStep = 0
      /\ Device.filterUpdatePending = FALSE /\ Device.linkPollPending = FALSE
      /\ Device.phyRead = FALSE /\ Device.phyWrite = FALSE
  BY <1>1, <1>3 DEF BackendFields
<1>6. /\ Device.phyRegister = 0 /\ Device.timerRunning = FALSE /\ Device.linkState = LinkDown
      /\ Device.unicast = NoAddress /\ Device.filter = {}
      /\ Device.addressOvertaken = FALSE /\ Device.filterOvertaken = FALSE
  BY <1>1, <1>3 DEF BackendFields
<1>7. "None" \in RuntimeOperations
  BY DEF RuntimeOperations
<1>8. Device \in DeviceType
  <2>1. Device = [
          canUserTransfer |-> FALSE, transferInProgress |-> FALSE, active |-> FALSE,
          closing |-> FALSE, request |-> NoRequest, onUsb |-> FALSE, signalled |-> FALSE,
          waiters |-> <<>>, woken |-> {},
          initStage |-> InitBeginning, polls |-> 0, runtimeOperation |-> "None",
          macUpdatePending |-> FALSE, macStep |-> 0, filterUpdatePending |-> FALSE,
          linkPollPending |-> FALSE, phyRead |-> FALSE, phyWrite |-> FALSE,
          phyRegister |-> 0, timerRunning |-> FALSE, linkState |-> LinkDown,
          unicast |-> NoAddress, filter |-> {},
          addressOvertaken |-> FALSE, filterOvertaken |-> FALSE ]
    BY <1>3, <1>4, <1>5, <1>6
  <2> QED
    BY <2>1, <1>7 DEF DeviceType
<1> QED
  BY <1>4, <1>5, <1>8 DEF Quiet, Owned

LEMMA InitInvariant ==
  Init => IInv
<1> SUFFICES ASSUME Init PROVE IInv
  OBVIOUS
<1>1. PICK filter \in Filters : dev = AdvanceInitStage([Device EXCEPT !.filter = filter], NoAddress)
  BY DEF Init
<1> DEFINE d == [Device EXCEPT !.filter = filter]
<1>2. d \in DeviceType /\ Same(d, Device)
  BY DeviceFields DEF DeviceType, Same, SameRequest, SameStage, SameOperation
<1> HIDE DEF d
<1>3. Quiet(d) /\ d.initStage = InitBeginning /\ d.polls = 0
  BY <1>2, DeviceFields, QuietMoved DEF Same, SameStage
<1>4. Led(AdvanceInitStage(d, NoAddress), {InitBeginning, InitReadVersion, InitWriteMacConfig, InitFailed})
  <2>1. Led(AdvanceInitStage(d, NoAddress), {d.initStage, d.initStage + 1, InitWriteMacConfig, InitFailed})
    BY <1>3, AdvanceLeads
  <2> QED
    BY <1>3, <2>1 DEF Led
<1>5. Led(dev, {InitBeginning, InitReadVersion, InitWriteMacConfig, InitFailed})
  BY <1>1, <1>4 DEF d
<1>6. Good(dev) /\ InConfigMode(dev, regs)
  BY <1>5 DEF Led, InConfigMode
<1>7. NoCall \in Calls
  BY DEF NoCall, Calls
<1>8. pc \in [Threads -> ThreadPoints] /\ op \in [Threads -> Calls]
  BY <1>7 DEF Init, ThreadPoints
<1> QED
  BY <1>6, <1>8 DEF Init, IInv

-----------------------------------------------------------------------------
(* The adapter.                                                              *)

(* A request that the adapter carries out leaves it in config mode while a   *)
(* half of the address is due, and puts it there before the first one.       *)
LEMMA WrittenRegisters ==
  ASSUME IInv, dev.canUserTransfer
  PROVE  /\ DOMAIN Written(dev.request) = DOMAIN regs
         /\ \/ dev.macStep \in {1, 2} \/ dev.runtimeOperation = "MacConfig"
            \/ dev.initStage \in {InitWriteMacLow, InitWriteMacHigh}
            \/ dev.initStage = InitWriteMacConfig /\ dev.runtimeOperation = "None"
            => Written(dev.request).crwecr = "config"
<1> DEFINE w == Written(dev.request)
<1>1. /\ dev \in DeviceType /\ Staged(dev) /\ Fits(dev.runtimeOperation, dev.request, dev)
      /\ InConfigMode(dev, regs) /\ DOMAIN regs = {"crwecr", "idrLow", "idrHigh", "rcr"}
  BY DEF IInv, Good
<1>2. /\ DOMAIN w = DOMAIN regs
      /\ dev.request.register = "crwecr" => w.crwecr = dev.request.value
      /\ dev.request.register # "crwecr" => w.crwecr = regs.crwecr
  BY <1>1 DEF Written
<1> HIDE DEF w
<1>3. CASE dev.macStep \in {1, 2}
  <2>1. dev.initStage = InitComplete /\ regs.crwecr = "config"
    BY <1>1, <1>3 DEF Staged, InConfigMode
  <2>2. dev.request.register # "crwecr"
    BY <1>1, <1>3, <2>1 DEF Fits
  <2> QED
    BY <1>2, <2>1, <2>2 DEF w
<1>4. CASE dev.runtimeOperation = "MacConfig"
  <2>1. dev.request = [register |-> "crwecr", value |-> "config"]
    BY <1>1, <1>4 DEF Fits, Request
  <2> QED
    BY <1>2, <2>1 DEF w
<1>5. CASE dev.initStage \in {InitWriteMacLow, InitWriteMacHigh}
  <2>1. dev.runtimeOperation \in {"None", "PhyRead", "PhyWrite"} /\ regs.crwecr = "config"
    BY <1>1, <1>5 DEF Staged, InConfigMode
  <2>2. dev.request.register # "crwecr"
    BY <1>1, <1>5, <2>1 DEF Fits
  <2> QED
    BY <1>2, <2>1, <2>2 DEF w
<1>6. CASE dev.initStage = InitWriteMacConfig /\ dev.runtimeOperation = "None"
  <2>1. dev.request = [register |-> "crwecr", value |-> "config"]
    BY <1>1, <1>6 DEF Fits, Request
  <2> QED
    BY <1>2, <2>1 DEF w
<1> QED
  BY <1>2, <1>3, <1>4, <1>5, <1>6 DEF w

-----------------------------------------------------------------------------
(* Every step keeps the invariant.                                           *)

(* A step of the driver that leaves init stage and MAC step alone.           *)
LEMMA StagesKept ==
  ASSUME IInv, Good(dev'), SameStage(dev', dev), UNCHANGED <<regs, link>>,
         pc' \in [Threads -> ThreadPoints], op' \in [Threads -> Calls]
  PROVE  IInv'
<1>1. InConfigMode(dev', regs')
  BY DEF IInv, InConfigMode, SameStage
<1>2. InConfigMode(dev, regs)'
  BY <1>1 DEF InConfigMode
<1>3. Good(dev)'
  BY DEF Good, Owned, Staged, Fits, DeviceType
<1> QED
  BY <1>2, <1>3 DEF IInv

LEMMA ThreadKeeps ==
  ASSUME IInv, NEW t \in Threads,
         \/ \E call \in Calls : NicDoOpt(t, call)
         \/ KeWait(t) \/ TurnLost(t) \/ TurnTaken(t) \/ TakeResult(t)
  PROVE  IInv'
<1>1. /\ Good(dev) /\ dev \in DeviceType
      /\ pc \in [Threads -> ThreadPoints] /\ op \in [Threads -> Calls]
  BY DEF IInv, Good
<1>2. \A point \in ThreadPoints : [pc EXCEPT ![t] = point] \in [Threads -> ThreadPoints]
  BY <1>1
<1>3. ASSUME NEW call \in Calls, NicDoOpt(t, call)
      PROVE  IInv'
  <2>1. UNCHANGED <<regs, link>> /\ op' \in [Threads -> Calls]
    BY <1>1, <1>3 DEF NicDoOpt
  <2>2. CASE dev' = AwaitTurn(dev) /\ pc' = [pc EXCEPT ![t] = "turn"]
    <3>1. Good(dev') /\ SameStage(dev', dev)
      BY <1>1, <2>2, ThreadGood
    <3>2. pc' \in [Threads -> ThreadPoints]
      BY <1>2, <2>2 DEF ThreadPoints
    <3> QED
      BY <2>1, <3>1, <3>2, StagesKept
  <2>3. CASE UserMayBegin(dev) /\ Begin(dev, t, call)
    <3>1. Good(dev') /\ SameStage(dev', dev) /\ pc' = [pc EXCEPT ![t] = "result"]
      BY <1>1, <2>3, BeginGood
    <3>2. pc' \in [Threads -> ThreadPoints]
      BY <1>2, <3>1 DEF ThreadPoints
    <3> QED
      BY <2>1, <3>1, <3>2, StagesKept
  <2> QED
    BY <1>3, <2>2, <2>3 DEF NicDoOpt
<1>4. CASE KeWait(t)
  <2>1. UNCHANGED <<op, regs, link>> /\ dev' = KeWaitForSingleObject(dev, t)
    BY <1>4 DEF KeWait
  <2>2. pc' \in [Threads -> ThreadPoints]
    BY <1>2, <1>4 DEF KeWait, ThreadPoints
  <2>3. Good(dev') /\ SameStage(dev', dev)
    BY <1>1, <2>1, WaitFields, SameGood DEF Same
  <2> QED
    BY <1>1, <2>1, <2>2, <2>3, StagesKept
<1>5. CASE TurnLost(t) \/ TurnTaken(t)
  <2> DEFINE d == TurnOver(dev, t)
  <2>1. Good(d) /\ SameStage(d, dev)
    BY <1>1, ThreadGood
  <2>2. UNCHANGED <<op, regs, link>>
    BY <1>5 DEF TurnLost, TurnTaken
  <2>3. \/ dev' = d /\ pc' = [pc EXCEPT ![t] = "idle"]
        \/ dev' = AwaitTurn(d) /\ pc' = [pc EXCEPT ![t] = "turn"]
        \/ UserMayBegin(d) /\ Begin(d, t, op[t])
    BY <1>5 DEF TurnLost, TurnTaken
  <2>4. op[t] \in Calls
    BY <1>1
  <2> HIDE DEF d
  <2>5. /\ Good(dev') /\ SameStage(dev', d)
        /\ \/ pc' = [pc EXCEPT ![t] = "idle"]
           \/ pc' = [pc EXCEPT ![t] = "turn"]
           \/ pc' = [pc EXCEPT ![t] = "result"]
    <3>1. CASE dev' = d /\ pc' = [pc EXCEPT ![t] = "idle"]
      BY <2>1, <3>1 DEF SameStage
    <3>2. CASE dev' = AwaitTurn(d) /\ pc' = [pc EXCEPT ![t] = "turn"]
      BY <2>1, <3>2, ThreadGood
    <3>3. CASE UserMayBegin(d) /\ Begin(d, t, op[t])
      BY <2>1, <2>4, <3>3, BeginGood
    <3> QED
      BY <2>3, <3>1, <3>2, <3>3
  <2>6. pc' \in [Threads -> ThreadPoints]
    BY <1>2, <2>5 DEF ThreadPoints
  <2>7. SameStage(dev', dev)
    BY <2>1, <2>5 DEF SameStage
  <2> QED
    BY <1>1, <2>2, <2>5, <2>6, <2>7, StagesKept
<1>6. CASE TakeResult(t)
  <2>1. UNCHANGED <<regs, link>> /\ dev' = ResultTaken(dev, t)
    BY <1>6 DEF TakeResult
  <2>2. NoCall \in Calls
    BY DEF NoCall, Calls
  <2>3. pc' \in [Threads -> ThreadPoints] /\ op' \in [Threads -> Calls]
    BY <1>1, <1>2, <1>6, <2>2 DEF TakeResult, ThreadPoints
  <2>4. Good(dev') /\ SameStage(dev', dev)
    BY <1>1, <2>1, ThreadGood
  <2> QED
    BY <2>1, <2>3, <2>4, StagesKept
<1> QED
  BY <1>3, <1>4, <1>5, <1>6

(* A step of the USB stack: the device moves, and config mode is kept.       *)
LEMMA DeviceMoves ==
  ASSUME IInv, Good(dev'), InConfigMode(dev', regs'), DOMAIN regs' = DOMAIN regs,
         UNCHANGED <<pc, op, link>>
  PROVE  IInv'
<1>1. InConfigMode(dev, regs)'
  BY DEF InConfigMode
<1>2. Good(dev)'
  BY DEF Good, Owned, Staged, Fits, DeviceType
<1> QED
  BY <1>1, <1>2 DEF IInv

LEMMA DpcKeeps ==
  ASSUME IInv, ControlSwitchProcs
  PROVE  IInv'
<1>1. /\ Good(dev) /\ dev \in DeviceType /\ dev.canUserTransfer
      /\ InConfigMode(dev, regs) /\ UNCHANGED <<pc, op, regs, link>>
      /\ dev' = IF dev.closing THEN CompleteFailed(dev) ELSE [dev EXCEPT !.onUsb = TRUE]
  BY DEF IInv, Good, ControlSwitchProcs, ControlDpcPending
<1>2. CASE dev.closing
  <2>1. /\ Good(dev') /\ dev'.macStep = dev.macStep
        /\ dev'.initStage \in {dev.initStage, InitFailed}
    BY <1>1, <1>2, CompleteFailedGood
  <2>2. InConfigMode(dev', regs')
    BY <1>1, <2>1 DEF InConfigMode
  <2> QED
    BY <1>1, <2>1, <2>2, DeviceMoves
<1>3. CASE ~dev.closing
  <2> DEFINE u == [dev EXCEPT !.onUsb = TRUE]
  <2>1. /\ u \in DeviceType /\ SameStage(u, dev) /\ SameOperation(u, dev)
        /\ u.canUserTransfer = dev.canUserTransfer /\ u.request = dev.request
    BY <1>1 DEF DeviceType, SameStage, SameOperation
  <2>2. dev' = u
    BY <1>1, <1>3
  <2> HIDE DEF u
  <2>3. Good(u)
    BY <1>1, <2>1 DEF Good, Owned, Staged, Fits, SameStage, SameOperation
  <2>4. InConfigMode(dev', regs')
    BY <1>1, <2>1, <2>2 DEF InConfigMode, SameStage
  <2> QED
    BY <1>1, <2>2, <2>3, <2>4, DeviceMoves
<1> QED
  BY <1>2, <1>3

LEMMA CompletionKeeps ==
  ASSUME IInv, CompleteRegisterOperation
  PROVE  IInv'
<1> DEFINE w == Written(dev.request)
<1>1. /\ Good(dev) /\ dev \in DeviceType /\ InConfigMode(dev, regs) /\ link \in LinkStates
      /\ dev.canUserTransfer /\ regs' = w /\ UNCHANGED <<pc, op, link>>
  BY DEF IInv, Good, Owned, CompleteRegisterOperation
<1>2. /\ DOMAIN w = DOMAIN regs
      /\ \/ dev.macStep \in {1, 2} \/ dev.runtimeOperation = "MacConfig"
         \/ dev.initStage \in {InitWriteMacLow, InitWriteMacHigh}
         \/ dev.initStage = InitWriteMacConfig /\ dev.runtimeOperation = "None"
         => w.crwecr = "config"
  BY <1>1, WrittenRegisters
<1> HIDE DEF w
<1>3. CASE dev.runtimeOperation # "None"
  <2>1. dev' = CompleteRuntime(dev, link)
    BY <1>3 DEF CompleteRegisterOperation
  <2>2. /\ Good(dev') /\ dev'.initStage = dev.initStage
        /\ dev'.macStep \in {1, 2} => dev.runtimeOperation = "MacConfig" \/ dev.macStep \in {1, 2}
    BY <1>1, <1>3, <2>1, CompleteRuntimeGood
  <2>3. InConfigMode(dev', regs')
    BY <1>1, <1>2, <2>2 DEF InConfigMode
  <2> QED
    BY <1>1, <1>2, <2>2, <2>3, DeviceMoves
<1>4. CASE dev.runtimeOperation = "None"
  <2>1. PICK again \in BOOLEAN, refuse \in BOOLEAN, title \in Addresses \cup {NoAddress} :
          /\ again => dev.initStage = InitPollNicReset
          /\ dev' = CompleteInit(dev, link, again, refuse, title)
    BY <1>4 DEF CompleteRegisterOperation
  <2>2. Led(dev', {dev.initStage, dev.initStage + 1, InitWriteMacConfig, InitFailed})
    BY <1>1, <1>4, <2>1, CompleteInitLeads
  <2>3. Good(dev')
    BY <2>2 DEF Led
  <2>4. InConfigMode(dev', regs')
    <3>1. dev.initStage \in 0 .. 11
      BY <1>1 DEF DeviceType
    <3> QED
      BY <1>1, <1>2, <1>4, <2>2, <3>1 DEF InConfigMode, Led
  <2> QED
    BY <1>1, <1>2, <2>3, <2>4, DeviceMoves
<1> QED
  BY <1>3, <1>4

LEMMA FailureKeeps ==
  ASSUME IInv, FailRegisterOperation
  PROVE  IInv'
<1> DEFINE w == Written(dev.request)
<1>1. /\ Good(dev) /\ dev \in DeviceType /\ InConfigMode(dev, regs)
      /\ dev.canUserTransfer /\ regs' \in {regs, w} /\ UNCHANGED <<pc, op, link>>
      /\ dev' = CompleteFailed(dev)
  BY DEF IInv, Good, Owned, FailRegisterOperation
<1>2. DOMAIN w = DOMAIN regs /\ (dev.macStep \in {1, 2} => w.crwecr = "config")
  BY <1>1, WrittenRegisters
<1> HIDE DEF w
<1>3. /\ Good(dev') /\ dev'.macStep = dev.macStep
      /\ dev.initStage < InitComplete => dev'.initStage = InitFailed
      /\ ~(dev.initStage < InitComplete) => dev'.initStage = dev.initStage
  BY <1>1, CompleteFailedGood
<1>4. InConfigMode(dev', regs')
  <2>1. dev.initStage \in 0 .. 11
    BY <1>1 DEF DeviceType
  <2>2. dev'.initStage \notin {InitWriteMacLow, InitWriteMacHigh}
    BY <1>3, <2>1
  <2> QED
    BY <1>1, <1>2, <1>3, <2>2 DEF InConfigMode
<1> QED
  BY <1>1, <1>2, <1>3, <1>4, DeviceMoves

LEMMA DriverKeeps ==
  ASSUME IInv,
         \/ LinkChanges
         \/ \E address \in Addresses : NicSetUnicastAddress(address)
         \/ \E filter \in Filters : ChangeReceiveFilter(filter)
         \/ \E linkChange \in BOOLEAN : ProcessInterruptLinkStatus(linkChange)
         \/ RunTimer
         \/ BeginClose
  PROVE  IInv'
<1>1. /\ Good(dev) /\ dev \in DeviceType /\ InConfigMode(dev, regs)
      /\ pc \in [Threads -> ThreadPoints] /\ op \in [Threads -> Calls]
  BY DEF IInv, Good
<1>2. CASE LinkChanges
  <2>1. UNCHANGED <<dev, pc, op, regs>> /\ link' \in LinkStates
    BY <1>2 DEF LinkChanges
  <2> QED
    BY <2>1 DEF IInv, InConfigMode, Good, Owned, Staged, Fits, DeviceType
<1>3. ASSUME NEW address \in Addresses, NicSetUnicastAddress(address)
      PROVE  IInv'
  <2>1. /\ dev' = OnUnicastAddressChanged([dev EXCEPT !.unicast = address])
        /\ UNCHANGED <<pc, op, regs, link>>
    BY <1>3 DEF NicSetUnicastAddress
  <2>2. /\ Good(dev') /\ dev'.macStep = dev.macStep
        /\ dev'.initStage \in {dev.initStage, InitWriteMacConfig, InitFailed}
    BY <1>1, <2>1, AddressGood
  <2>3. InConfigMode(dev', regs')
    BY <1>1, <2>1, <2>2 DEF InConfigMode
  <2> QED
    BY <2>1, <2>2, <2>3, DeviceMoves
<1>4. ASSUME NEW filter \in Filters, ChangeReceiveFilter(filter)
      PROVE  IInv'
  <2>1. /\ dev' = UpdateReceiveFilter([dev EXCEPT !.filter = filter])
        /\ UNCHANGED <<pc, op, regs, link>>
    BY <1>4 DEF ChangeReceiveFilter
  <2>2. Good(dev') /\ SameStage(dev', dev)
    BY <1>1, <2>1, FilterGood
  <2> QED
    BY <1>1, <2>1, <2>2, StagesKept
<1>5. CASE (\E linkChange \in BOOLEAN : ProcessInterruptLinkStatus(linkChange)) \/ RunTimer
  <2> DEFINE u == [dev EXCEPT !.linkPollPending = TRUE]
  <2>1. /\ dev' = u \/ dev' = ServiceRuntimeRequests(u)
        /\ UNCHANGED <<pc, op, regs, link>>
    BY <1>5 DEF ProcessInterruptLinkStatus, RunTimer
  <2>2. /\ Good(u) /\ SameStage(u, dev)
        /\ Good(ServiceRuntimeRequests(u)) /\ SameStage(ServiceRuntimeRequests(u), dev)
    BY <1>1, LinkPollGood
  <2> HIDE DEF u
  <2>3. Good(dev') /\ SameStage(dev', dev)
    BY <2>1, <2>2
  <2> QED
    BY <1>1, <2>1, <2>3, StagesKept
<1>6. CASE BeginClose
  <2> DEFINE u == [dev EXCEPT !.closing = TRUE, !.timerRunning = FALSE, !.linkState = LinkDown]
  <2>1. dev' = u /\ UNCHANGED <<pc, op, regs, link>>
    BY <1>6 DEF BeginClose
  <2>2. u \in DeviceType
    BY <1>1 DEF DeviceType
  <2>3. Same(u, dev)
    BY <1>1 DEF DeviceType, Same, SameRequest, SameStage, SameOperation
  <2> HIDE DEF u
  <2>4. Good(dev') /\ SameStage(dev', dev)
    BY <1>1, <2>1, <2>2, <2>3, SameGood DEF Same
  <2> QED
    BY <1>1, <2>1, <2>4, StagesKept
<1> QED
  BY <1>2, <1>3, <1>4, <1>5, <1>6

(* IInv is inductive.                                                        *)
LEMMA NextInvariant ==
  IInv /\ [Next]_vars => IInv'
<1> SUFFICES ASSUME IInv, [Next]_vars PROVE IInv'
  OBVIOUS
<1>1. CASE UNCHANGED vars
  BY <1>1 DEF vars, IInv, InConfigMode, Good, Owned, Staged, Fits, DeviceType
<1>2. CASE Next
  BY <1>2, ThreadKeeps, DpcKeeps, CompletionKeeps, FailureKeeps, DriverKeeps DEF Next
<1> QED
  BY <1>1, <1>2

(* In every state of the backend the stage, the operation in progress, the   *)
(* outstanding request and the config mode of the adapter fit each other.    *)
THEOREM Invariant == Spec => []IInv
<1> QED
  BY InitInvariant, NextInvariant, PTL DEF Spec

(* A completion is never taken for that of another operation, and no failed  *)
(* one leaves the PHY busy: operation, PHY flags and request agree, through  *)
(* CompleteRegisterOperation, its failure path and the retries after it.     *)
THEOREM OperationsOwnRequests == Spec => []OperationOwnsRequest
<1>1. IInv => OperationOwnsRequest
  <2> SUFFICES ASSUME IInv PROVE OperationOwnsRequest
    OBVIOUS
  <2>1. /\ dev \in DeviceType /\ Owned(dev) /\ Staged(dev)
        /\ pc \in [Threads -> ThreadPoints] /\ op \in [Threads -> Calls]
    BY DEF IInv, Good
  <2>2. TypeOK
    BY <2>1 DEF TypeOK, DeviceType
  <2> QED
    BY <2>1, <2>2 DEF OperationOwnsRequest, Owned, Staged
<1> QED
  BY <1>1, Invariant, PTL

(* While a half of the address is written the adapter is in config mode,     *)
(* whichever transfers of the four failed and were retried before.           *)
THEOREM AddressInConfigMode == Spec => []AddressWrittenInConfigMode
<1>1. IInv => AddressWrittenInConfigMode
  <2> SUFFICES ASSUME IInv, dev.canUserTransfer, dev.request.register \in {"idrLow", "idrHigh"}
               PROVE  regs.crwecr = "config"
    BY DEF AddressWrittenInConfigMode
  <2>1. /\ dev \in DeviceType /\ InConfigMode(dev, regs)
        /\ Fits(dev.runtimeOperation, dev.request, dev)
    BY DEF IInv, Good
  <2>2. dev.runtimeOperation \notin {"MacConfig", "MacNormal"}
    BY <2>1 DEF Fits, Request
  <2> QED
    BY <2>1, <2>2 DEF Fits, InConfigMode
<1> QED
  BY <1>1, Invariant, PTL
=============================================================================
