--------------------------- MODULE Ax88178Proofs ---------------------------
(***************************************************************************)
(* Proofs about the AX88178 backend, for every set of addresses, filters,  *)
(* EEPROMs and PHY registers of users, every patch and retry limit, and    *)
(* any number of failures, user calls and changes.                         *)
(*                                                                         *)
(* A handler is a composition of functions on the device record.  So the   *)
(* invariant is a predicate Good on that record, and each function has a   *)
(* lemma: what it needs of the device and what it leaves behind.  Between  *)
(* the steps of a handler the device is                                    *)
(*   Free    the channel is free, a vendor setup may be under way;         *)
(*   Ready   no vendor setup is under way, init may advance;               *)
(*   Open    Ready, and any stage may be entered;                          *)
(* and Good again when the handler returns.                                *)
(***************************************************************************)
EXTENDS Ax88178, TLAPS

USE ControlAssumption, Ax88178Assumption, RequestAssumption
USE DEF InitStages, InitBeginning, InitReadEepromConfig, InitWriteGpio, InitPause, InitReadNodeId,
        InitWaitingForEthernetAddress, InitWriteNodeId, InitReadPhyAddressRegister,
        InitWaitPhyReady, InitReadPhyRegisters, InitWriteMediumStatus, InitWriteMiiControl,
        InitWritePhyAnar, InitVendor, InitWritePhyControl, InitWriteIpg, InitStartReceiving,
        InitComplete

-----------------------------------------------------------------------------
(* The inductive invariant, as predicates on the device record, so that it   *)
(* can be followed through the functions a handler is composed of.           *)

PhyValues == {"zero", "page2", "page5", "identifier", "other"}

NoFilter     == [hash |-> "none", rx |-> "stop"]
FilterValues == Filters \cup {NoFilter}

(* Requests that any stage of init may find outstanding.                     *)
SharedOps == PhyOps \cup {"writeNodeId", "medium"}

Types == [
  canUserTransfer    |-> BOOLEAN,
  transferInProgress |-> {FALSE},
  active             |-> {FALSE},
  closing            |-> BOOLEAN,
  request            |-> Requests \cup {NoRequest},
  onUsb              |-> BOOLEAN,
  signalled          |-> BOOLEAN,
  waiters            |-> {<<>>},
  woken              |-> {{}},
  initStage          |-> InitStages,
  timer              |-> {"none", "advance", "running"},
  kernel             |-> [title: Addresses \cup {NoAddress}, debug: Addresses \cup {NoAddress}],
  unicast            |-> Addresses \cup {NoAddress},
  alternate          |-> Addresses \cup {NoAddress},
  phyRead            |-> BOOLEAN,
  phyWrite           |-> BOOLEAN,
  serial             |-> BOOLEAN,
  phyRegister        |-> Nat,
  phyValue           |-> PhyValues,
  readAll            |-> BOOLEAN,
  refresh            |-> BOOLEAN,
  linkPending        |-> BOOLEAN,
  notify             |-> BOOLEAN,
  phyLink            |-> {"unread", "down", "up"},
  linkState          |-> {"down", "up"},
  told               |-> {"down", "up"},
  interrupt          |-> {"none", "down", "up"},
  refreshPending     |-> BOOLEAN,
  authoritative      |-> BOOLEAN,
  eepromValid        |-> BOOLEAN,
  configStep         |-> {"idle", "enable", "read", "disable"},
  configInitial      |-> BOOLEAN,
  mode               |-> {"marvell", "realtek", "patch", "none"},
  led                |-> BOOLEAN,
  ledStep            |-> {"idle", "read", "write"},
  lastLed            |-> BOOLEAN,
  realtekStep        |-> RealtekSteps \cup {"idle"},
  realtekFailed      |-> BOOLEAN,
  patching           |-> BOOLEAN,
  patchIndex         |-> 0 .. PatchCount - 1,
  patchFailed        |-> BOOLEAN,
  retries            |-> 0 .. PhyReadyRetryLimit,
  retryPending       |-> BOOLEAN,
  filter             |-> FilterValues,
  filterStep         |-> {"idle", "hash", "rx"},
  filterPending      |-> BOOLEAN,
  pendingFilter      |-> FilterValues,
  hash               |-> {f.hash : f \in FilterValues},
  submitRing         |-> BOOLEAN,
  running            |-> BOOLEAN,
  addressLost        |-> BOOLEAN,
  nodeIdFailed       |-> BOOLEAN,
  hashLost           |-> BOOLEAN,
  pageLost           |-> BOOLEAN ]

Typed(d) ==
  /\ d = [field \in DOMAIN Types |-> d[field]]
  /\ \A field \in DOMAIN Types : d[field] \in Types[field]

(* A PHY transaction, and the hold on the MII bus (mii: software has it).    *)
Bus(d, mii) ==
  /\ PhyBusy(d) <=> Op(d) \in {"acquire", "readPhy", "writePhy"}
  /\ Op(d) = "readPhy" => d.phyRead
  /\ Op(d) = "writePhy" => d.phyWrite
  /\ ~(d.phyRead /\ d.phyWrite)
  /\ d.serial /\ ~d.closing => mii /\ Op(d) \in {"readPhy", "writePhy", "release"}
  /\ Op(d) \in {"readPhy", "writePhy"} => mii

(* A request or pause of init, and its stage.                                    *)
OfStage(d) ==
  /\ Op(d) = "gpio" => d.initStage = InitWriteGpio
  /\ Op(d) = "readNodeId" => d.initStage = InitReadNodeId
  /\ Op(d) = "readPhyAddress" => d.initStage = InitReadPhyAddressRegister
  /\ Op(d) = "mii" => d.initStage = InitWriteMiiControl
  /\ Op(d) = "ipg" => d.initStage = InitWriteIpg
  /\ d.timer = "advance" => d.initStage = InitPause /\ ~d.closing

(* What belongs to one stage, or to the running device.                      *)
Staged(d) ==
  /\ Op(d) = "eeprom" =>
       d.initStage = IF d.configInitial THEN InitReadEepromConfig ELSE InitVendor
  /\ Op(d) = "stopReceiving" => d.initStage = InitComplete
  /\ Op(d) = "filter" <=> d.filterStep # "idle"
  /\ d.filterStep # "idle" => d.initStage \in {InitStartReceiving, InitComplete}
  /\ d.patching => d.initStage = InitVendor /\ Op(d) \in PhyOps /\ d.realtekStep = "idle"
  /\ d.realtekStep # "idle" => d.initStage = InitVendor /\ Op(d) \in PhyOps
  /\ d.ledStep # "idle" \/ d.refresh => d.initStage = InitComplete

(* Somebody goes on with init.                                               *)
Live(d) ==
  \/ d.initStage = InitComplete
  \/ d.canUserTransfer
  \/ d.initStage = InitPause /\ d.timer = "advance"
  \/ d.initStage = InitWaitingForEthernetAddress
  \/ d.initStage = InitReadNodeId /\ d.nodeIdFailed
  \/ d.initStage = InitWaitPhyReady /\ d.timer = "running" /\ d.retryPending
  \/ d.initStage = InitStartReceiving /\ d.timer = "running"

(* The page the PHY is on, and the step of the Realtek setup.                *)
Restores == {"restore", "restoreLed", "restoreFailure"}

UsersLeavePage == PhyRegisterPage \notin Registers

Paged(d, page) == UsersLeavePage =>
  /\ d.realtekStep = "idle" /\ d.phyWrite => d.phyRegister # PhyRegisterPage
  /\ d.realtekStep \in Restores /\ Op(d) # "release" =>
       d.phyWrite /\ d.phyRegister = PhyRegisterPage /\ d.phyValue = "zero"
  /\ ~d.pageLost =>
       /\ d.realtekStep = "idle" => page = "zero"
       /\ d.realtekStep \in Restores /\ Op(d) = "release" => page = "zero"
       /\ d.realtekStep \in Restores \cup {"page5"} => ~d.realtekFailed

Good(d, mii, page) ==
  /\ Typed(d)
  /\ d.canUserTransfer <=> d.request # NoRequest
  /\ Bus(d, mii) /\ OfStage(d)
  /\ ~d.closing => Staged(d) /\ Live(d) /\ Paged(d, page)

RegsType ==
  [nodeId: Addresses \cup {NoAddress}, hash: {f.hash : f \in FilterValues},
   rx: {f.rx : f \in FilterValues}, softwareMii: BOOLEAN, page: PhyValues]

IInv ==
  /\ Good(dev, regs.softwareMii, regs.page)
  /\ regs \in RegsType
  /\ link \in {"down", "up"}
  /\ events \in 0 .. MaxEvents

LEMMA TypesOf ==
  /\ DOMAIN Types =
     { "canUserTransfer", "transferInProgress", "active", "closing",
       "request", "onUsb", "signalled", "waiters", "woken", "initStage",
       "timer", "kernel", "unicast", "alternate", "phyRead", "phyWrite",
       "serial", "phyRegister", "phyValue", "readAll", "refresh",
       "linkPending", "notify", "phyLink", "linkState", "told", "interrupt",
       "refreshPending", "authoritative", "eepromValid", "configStep",
       "configInitial", "mode", "led", "ledStep", "lastLed", "realtekStep",
       "realtekFailed", "patching", "patchIndex", "patchFailed", "retries",
       "retryPending", "filter", "filterStep", "filterPending",
       "pendingFilter", "hash", "submitRing", "running", "addressLost",
       "nodeIdFailed", "hashLost", "pageLost" }
  /\ Types.canUserTransfer = BOOLEAN
  /\ Types.transferInProgress = {FALSE}
  /\ Types.active = {FALSE}
  /\ Types.closing = BOOLEAN
  /\ Types.request = Requests \cup {NoRequest}
  /\ Types.onUsb = BOOLEAN
  /\ Types.signalled = BOOLEAN
  /\ Types.waiters = {<<>>}
  /\ Types.woken = {{}}
  /\ Types.initStage = InitStages
  /\ Types.timer = {"none", "advance", "running"}
  /\ Types.kernel = [title: Addresses \cup {NoAddress}, debug: Addresses \cup {NoAddress}]
  /\ Types.unicast = Addresses \cup {NoAddress}
  /\ Types.alternate = Addresses \cup {NoAddress}
  /\ Types.phyRead = BOOLEAN
  /\ Types.phyWrite = BOOLEAN
  /\ Types.serial = BOOLEAN
  /\ Types.phyRegister = Nat
  /\ Types.phyValue = PhyValues
  /\ Types.readAll = BOOLEAN
  /\ Types.refresh = BOOLEAN
  /\ Types.linkPending = BOOLEAN
  /\ Types.notify = BOOLEAN
  /\ Types.phyLink = {"unread", "down", "up"}
  /\ Types.linkState = {"down", "up"}
  /\ Types.told = {"down", "up"}
  /\ Types.interrupt = {"none", "down", "up"}
  /\ Types.refreshPending = BOOLEAN
  /\ Types.authoritative = BOOLEAN
  /\ Types.eepromValid = BOOLEAN
  /\ Types.configStep = {"idle", "enable", "read", "disable"}
  /\ Types.configInitial = BOOLEAN
  /\ Types.mode = {"marvell", "realtek", "patch", "none"}
  /\ Types.led = BOOLEAN
  /\ Types.ledStep = {"idle", "read", "write"}
  /\ Types.lastLed = BOOLEAN
  /\ Types.realtekStep = RealtekSteps \cup {"idle"}
  /\ Types.realtekFailed = BOOLEAN
  /\ Types.patching = BOOLEAN
  /\ Types.patchIndex = 0 .. PatchCount - 1
  /\ Types.patchFailed = BOOLEAN
  /\ Types.retries = 0 .. PhyReadyRetryLimit
  /\ Types.retryPending = BOOLEAN
  /\ Types.filter = FilterValues
  /\ Types.filterStep = {"idle", "hash", "rx"}
  /\ Types.filterPending = BOOLEAN
  /\ Types.pendingFilter = FilterValues
  /\ Types.hash = {f.hash : f \in FilterValues}
  /\ Types.submitRing = BOOLEAN
  /\ Types.running = BOOLEAN
  /\ Types.addressLost = BOOLEAN
  /\ Types.nodeIdFailed = BOOLEAN
  /\ Types.hashLost = BOOLEAN
  /\ Types.pageLost = BOOLEAN
  BY ZenonT(40) DEF Types

(* What a typed field may be set to: one, two, three or four fields at once. *)
LEMMA Put ==
  ASSUME NEW d, Typed(d), NEW f \in DOMAIN Types, NEW v \in Types[f]
  PROVE  Typed([d EXCEPT ![f] = v])
  BY SMT DEF Typed

LEMMA Put2 ==
  ASSUME NEW d, Typed(d), NEW f \in DOMAIN Types, NEW v \in Types[f],
         NEW g \in DOMAIN Types, NEW w \in Types[g]
  PROVE  Typed([d EXCEPT ![f] = v, ![g] = w])
<1> DEFINE u == [d EXCEPT ![f] = v]
<1>1. Typed(u)
  BY Zenon, Put
<1> HIDE DEF u
<1>2. Typed([u EXCEPT ![g] = w])
  BY Zenon, <1>1, Put
<1>3. [d EXCEPT ![f] = v, ![g] = w] = [u EXCEPT ![g] = w]
  BY DEF u
<1> QED
  BY Zenon, <1>2, <1>3

LEMMA Put3 ==
  ASSUME NEW d, Typed(d), NEW f \in DOMAIN Types, NEW v \in Types[f],
         NEW g \in DOMAIN Types, NEW w \in Types[g], NEW h \in DOMAIN Types, NEW x \in Types[h]
  PROVE  Typed([d EXCEPT ![f] = v, ![g] = w, ![h] = x])
<1> DEFINE u == [d EXCEPT ![f] = v, ![g] = w]
<1>1. Typed(u)
  BY Zenon, Put2
<1> HIDE DEF u
<1>2. Typed([u EXCEPT ![h] = x])
  BY Zenon, <1>1, Put
<1>3. [d EXCEPT ![f] = v, ![g] = w, ![h] = x] = [u EXCEPT ![h] = x]
  BY DEF u
<1> QED
  BY Zenon, <1>2, <1>3

LEMMA Put4 ==
  ASSUME NEW d, Typed(d), NEW f \in DOMAIN Types, NEW v \in Types[f],
         NEW g \in DOMAIN Types, NEW w \in Types[g], NEW h \in DOMAIN Types, NEW x \in Types[h],
         NEW k \in DOMAIN Types, NEW y \in Types[k]
  PROVE  Typed([d EXCEPT ![f] = v, ![g] = w, ![h] = x, ![k] = y])
<1> DEFINE u == [d EXCEPT ![f] = v, ![g] = w, ![h] = x]
<1>1. Typed(u)
  BY Zenon, Put3
<1> HIDE DEF u
<1>2. Typed([u EXCEPT ![k] = y])
  BY Zenon, <1>1, Put
<1>3. [d EXCEPT ![f] = v, ![g] = w, ![h] = x, ![k] = y] = [u EXCEPT ![k] = y]
  BY DEF u
<1> QED
  BY Zenon, <1>2, <1>3

-----------------------------------------------------------------------------
(* Frames: the fields the invariant relates, in groups.                      *)

SamePlace(u, d) ==
  /\ u.closing = d.closing /\ u.initStage = d.initStage /\ u.timer = d.timer
  /\ u.retryPending = d.retryPending /\ u.nodeIdFailed = d.nodeIdFailed
  /\ u.configInitial = d.configInitial /\ u.filterStep = d.filterStep

SameVendor(u, d) ==
  /\ u.patching = d.patching /\ u.realtekStep = d.realtekStep
  /\ u.realtekFailed = d.realtekFailed /\ u.pageLost = d.pageLost
  /\ u.ledStep = d.ledStep /\ u.refresh = d.refresh

SameFlags(u, d) ==
  u.phyRead = d.phyRead /\ u.phyWrite = d.phyWrite /\ u.serial = d.serial

SamePhy(u, d) == u.phyRegister = d.phyRegister /\ u.phyValue = d.phyValue

SameChannel(u, d) == u.canUserTransfer = d.canUserTransfer /\ u.request = d.request

Same(u, d) ==
  SamePlace(u, d) /\ SameVendor(u, d) /\ SameFlags(u, d) /\ SamePhy(u, d) /\ SameChannel(u, d)

(* A request was queued, or is over; all else is as before.                  *)
Queued(u, d, request) ==
  /\ Typed(u)
  /\ SamePlace(u, d) /\ SameVendor(u, d) /\ SameFlags(u, d) /\ SamePhy(u, d)
  /\ u.canUserTransfer /\ u.request = request

Freed(u, d) ==
  /\ Typed(u)
  /\ SamePlace(u, d) /\ SameVendor(u, d) /\ SameFlags(u, d) /\ SamePhy(u, d)
  /\ ~u.canUserTransfer /\ u.request = NoRequest

(* A PHY transaction could not begin.                                        *)
Refused(u, d) ==
  /\ Typed(u)
  /\ SamePlace(u, d) /\ SameVendor(u, d) /\ SameFlags(u, d) /\ SameChannel(u, d)
  /\ PhyBusy(d) => SamePhy(u, d)

-----------------------------------------------------------------------------
(* Devices between two steps of a handler.                                   *)

(* The channel is free, whatever transaction goes on.                        *)
Free(d) ==
  /\ Typed(d)
  /\ ~d.canUserTransfer /\ d.request = NoRequest /\ ~d.phyRead /\ ~d.phyWrite
  /\ d.timer = "advance" => d.initStage = InitPause /\ ~d.closing
  /\ ~d.closing =>
       /\ d.filterStep = "idle"
       /\ d.patching => d.initStage = InitVendor /\ d.realtekStep = "idle"
       /\ d.realtekStep # "idle" => d.initStage = InitVendor
       /\ d.ledStep # "idle" \/ d.refresh => d.initStage = InitComplete

(* No transaction of the vendor setup goes on; init may advance.             *)
Ready(d, mii, page) ==
  /\ Typed(d)
  /\ d.canUserTransfer <=> d.request # NoRequest
  /\ Bus(d, mii) /\ Op(d) \notin InitOps
  /\ d.timer = "advance" => d.initStage = InitPause /\ ~d.closing
  /\ ~d.closing =>
       /\ Op(d) \in SharedOps \cup {"none"} /\ d.filterStep = "idle"
       /\ ~d.patching /\ d.realtekStep = "idle"
       /\ d.ledStep # "idle" \/ d.refresh => d.initStage = InitComplete
       /\ Paged(d, page)

(* The same, for any stage to be entered.                                    *)
Open(d, mii, page) ==
  /\ Ready(d, mii, page)
  /\ ~d.closing /\ d.timer # "advance" /\ d.ledStep = "idle" /\ ~d.refresh

(* What a step of the Realtek setup may rely on when it begins a read or a   *)
(* write, and what holds of it at its end.                                   *)
PageRead(d, page) == UsersLeavePage =>
  /\ d.realtekStep \notin Restores
  /\ ~d.pageLost => /\ d.realtekStep = "idle" => page = "zero"
                    /\ d.realtekStep = "page5" => ~d.realtekFailed

PageWrite(d, register, value, page) == UsersLeavePage =>
  /\ d.realtekStep = "idle" => register # PhyRegisterPage
  /\ d.realtekStep \in Restores => register = PhyRegisterPage /\ value = "zero"
  /\ ~d.pageLost => /\ d.realtekStep = "idle" => page = "zero"
                    /\ d.realtekStep \in Restores \cup {"page5"} => ~d.realtekFailed

PageAfter(d, page) == UsersLeavePage /\ ~d.pageLost =>
  /\ d.realtekStep \in Restores \cup {"idle"} => page = "zero"
  /\ d.realtekStep \in Restores \cup {"page5"} => ~d.realtekFailed

-----------------------------------------------------------------------------
(* Fields and frames.                                                        *)

(* The fields that decide, with their values.                                *)
LEMMA Fields ==
  ASSUME NEW d, Typed(d)
  PROVE  /\ d.canUserTransfer \in BOOLEAN /\ d.closing \in BOOLEAN
         /\ d.phyRead \in BOOLEAN /\ d.phyWrite \in BOOLEAN /\ d.serial \in BOOLEAN
         /\ d.patching \in BOOLEAN /\ d.refresh \in BOOLEAN /\ d.realtekFailed \in BOOLEAN
         /\ d.pageLost \in BOOLEAN /\ d.configInitial \in BOOLEAN /\ d.retryPending \in BOOLEAN
         /\ d.nodeIdFailed \in BOOLEAN
         /\ d.transferInProgress = FALSE /\ d.active = FALSE
         /\ d.request \in Requests \cup {NoRequest}
         /\ d.initStage \in InitStages /\ d.timer \in {"none", "advance", "running"}
         /\ d.phyRegister \in Nat /\ d.phyValue \in PhyValues
         /\ d.ledStep \in {"idle", "read", "write"} /\ d.filterStep \in {"idle", "hash", "rx"}
         /\ d.realtekStep \in RealtekSteps \cup {"idle"}
<1>1. /\ d.canUserTransfer \in BOOLEAN /\ d.closing \in BOOLEAN
      /\ d.phyRead \in BOOLEAN /\ d.phyWrite \in BOOLEAN /\ d.serial \in BOOLEAN
      /\ d.patching \in BOOLEAN /\ d.refresh \in BOOLEAN /\ d.realtekFailed \in BOOLEAN
  BY SMT, TypesOf DEF Typed
<1>2. /\ d.pageLost \in BOOLEAN /\ d.configInitial \in BOOLEAN /\ d.retryPending \in BOOLEAN
      /\ d.nodeIdFailed \in BOOLEAN
  BY SMT, TypesOf DEF Typed
<1>3. /\ d.request \in Requests \cup {NoRequest}
      /\ d.initStage \in InitStages /\ d.timer \in {"none", "advance", "running"}
      /\ d.phyRegister \in Nat /\ d.phyValue \in PhyValues
  BY SMT, TypesOf DEF Typed
<1>4. /\ d.ledStep \in {"idle", "read", "write"} /\ d.filterStep \in {"idle", "hash", "rx"}
      /\ d.realtekStep \in RealtekSteps \cup {"idle"}
  BY SMT, TypesOf DEF Typed
<1>5. d.transferInProgress = FALSE /\ d.active = FALSE
  <2>1. d["transferInProgress"] \in Types["transferInProgress"] /\ d["active"] \in Types["active"]
    BY Zenon, TypesOf DEF Typed
  <2> QED
    BY Zenon, <2>1, TypesOf
<1> QED
  BY <1>1, <1>2, <1>3, <1>4, <1>5

LEMMA OpOf ==
  ASSUME NEW u, NEW d, SameChannel(u, d), SameFlags(u, d)
  PROVE  Op(u) = Op(d) /\ (PhyBusy(u) <=> PhyBusy(d))
  BY DEF Op, PhyBusy, SameFlags, SameChannel

LEMMA SameGood ==
  ASSUME NEW mii, NEW page, NEW d, NEW u, Typed(u), Good(d, mii, page), Same(u, d)
  PROVE  Good(u, mii, page)
<1>1. Op(u) = Op(d) /\ (PhyBusy(u) <=> PhyBusy(d))
  BY OpOf DEF Same
<1> QED
  BY <1>1 DEF Good, Bus, OfStage, Staged, Live, Paged, Same, SamePlace, SameVendor, SameFlags,
              SamePhy, SameChannel

LEMMA SameReady ==
  ASSUME NEW mii, NEW page, NEW d, NEW u, Typed(u), Ready(d, mii, page), Same(u, d)
  PROVE  Ready(u, mii, page)
<1>1. Op(u) = Op(d) /\ (PhyBusy(u) <=> PhyBusy(d))
  BY OpOf DEF Same
<1> QED
  BY <1>1 DEF Ready, Bus, Paged, Same, SamePlace, SameVendor, SameFlags, SamePhy, SameChannel

LEMMA SameFree ==
  ASSUME NEW d, NEW u, Typed(u), Free(d), Same(u, d)
  PROVE  Free(u)
  BY DEF Free, Same, SamePlace, SameVendor, SameFlags, SamePhy, SameChannel

LEMMA QueueFields ==
  ASSUME NEW d, Typed(d), NEW request \in Requests
  PROVE  Queued(QueueControlTransfer(d, request), d, request)
<1> DEFINE u == [d EXCEPT !.canUserTransfer = TRUE, !.request = request, !.onUsb = FALSE]
<1>1. QueueControlTransfer(d, request) = u
  BY Fields DEF QueueControlTransfer, UserWaits
<1>2. {"canUserTransfer", "request", "onUsb"} \subseteq DOMAIN Types
  BY Zenon, TypesOf
<1>3. TRUE \in Types.canUserTransfer /\ request \in Types.request /\ FALSE \in Types.onUsb
  BY TypesOf
<1>4. Typed(u)
  BY Zenon, Put3, <1>2, <1>3
<1>5. /\ SamePlace(u, d) /\ SameVendor(u, d) /\ SameFlags(u, d) /\ SamePhy(u, d)
      /\ u.canUserTransfer /\ u.request = request
  BY SMT, TypesOf DEF Typed, SamePlace, SameVendor, SameFlags, SamePhy
<1> HIDE DEF u
<1> QED
  BY <1>1, <1>4, <1>5 DEF Queued

LEMMA CompleteFields ==
  ASSUME NEW d, Typed(d)
  PROVE  Freed(CompleteControlTransfer(d), d)
<1> DEFINE u == [d EXCEPT !.canUserTransfer = FALSE, !.request = NoRequest, !.onUsb = FALSE]
<1>1. CompleteControlTransfer(d) = u
  <2>1. ~UserWaits(d)
    BY Fields DEF UserWaits
  <2> QED
    BY Zenon, <2>1 DEF CompleteControlTransfer
<1>2. {"canUserTransfer", "request", "onUsb"} \subseteq DOMAIN Types
  BY Zenon, TypesOf
<1>3. FALSE \in Types.canUserTransfer /\ NoRequest \in Types.request /\ FALSE \in Types.onUsb
  BY TypesOf
<1>4. Typed(u)
  BY Zenon, Put3, <1>2, <1>3
<1>5. /\ SamePlace(u, d) /\ SameVendor(u, d) /\ SameFlags(u, d) /\ SamePhy(u, d)
      /\ ~u.canUserTransfer /\ u.request = NoRequest
  BY SMT, TypesOf DEF Typed, SamePlace, SameVendor, SameFlags, SamePhy
<1> HIDE DEF u
<1> QED
  BY <1>1, <1>4, <1>5 DEF Freed

(* The operation in progress, read off the request.                          *)
LEMMA RequestsTyped ==
  /\ \A op \in InitOps \cup PhyOps \cup {"eeprom", "medium", "filter", "stopReceiving"} :
       Request(op, "none") \in Requests
  /\ \A address \in Addresses \cup {NoAddress} : Request("writeNodeId", address) \in Requests
  BY DEF Request, Requests

LEMMA OpQueued ==
  ASSUME NEW u, NEW d, NEW op, NEW value, Queued(u, d, Request(op, value))
  PROVE  Op(u) = op
  BY DEF Queued, Op, Request

LEMMA OpNone ==
  ASSUME NEW d, ~d.canUserTransfer
  PROVE  Op(d) = "none"
  BY DEF Op

LEMMA OpSome ==
  ASSUME NEW d, Typed(d), d.canUserTransfer, d.request # NoRequest
  PROVE  Op(d) \in InitOps \cup PhyOps \cup
                   {"eeprom", "medium", "filter", "stopReceiving", "writeNodeId"}
<1>1. d.request \in Requests
  BY Fields
<1> QED
  BY <1>1 DEF Op, Requests

-----------------------------------------------------------------------------
(* From one predicate to another.                                            *)

LEMMA ReadyFree ==
  ASSUME NEW mii, NEW page, NEW d, Ready(d, mii, page), ~d.canUserTransfer
  PROVE  /\ Free(d)
         /\ ~d.closing => /\ d.realtekStep = "idle" /\ ~d.patching /\ ~d.serial
                          /\ PageRead(d, page) /\ PageAfter(d, page)
                          /\ \A register, value : register # PhyRegisterPage =>
                               PageWrite(d, register, value, page)
<1>1. Op(d) = "none" /\ d.request = NoRequest
  BY OpNone DEF Ready
<1>2. Typed(d) /\ Bus(d, mii)
  BY DEF Ready
<1>3. ~d.phyRead /\ ~d.phyWrite /\ (d.serial => d.closing)
  BY <1>1, <1>2, Fields DEF Bus, PhyBusy
<1>4. ~d.closing => /\ d.filterStep = "idle" /\ ~d.patching /\ d.realtekStep = "idle"
                    /\ d.ledStep # "idle" \/ d.refresh => d.initStage = InitComplete
                    /\ Paged(d, page)
  BY DEF Ready
<1>5. Free(d)
  BY <1>1, <1>2, <1>3, <1>4 DEF Ready, Free
<1>6. ASSUME ~d.closing
      PROVE  /\ PageRead(d, page) /\ PageAfter(d, page)
             /\ \A register, value : register # PhyRegisterPage => PageWrite(d, register, value, page)
  BY <1>4, <1>6 DEF Paged, PageRead, PageWrite, PageAfter, Restores
<1> QED
  BY <1>3, <1>4, <1>5, <1>6

(* Nothing of init or of the vendor setup is on its way.                     *)
LEMMA GoodReady ==
  ASSUME NEW mii, NEW page, NEW d, Good(d, mii, page), Op(d) \notin InitOps,
         ~d.closing => /\ Op(d) \in SharedOps \cup {"none"}
                       /\ ~d.patching /\ d.realtekStep = "idle"
  PROVE  Ready(d, mii, page)
<1>1. Op(d) \in SharedOps \cup {"none"} => Op(d) # "filter"
  BY DEF SharedOps, PhyOps
<1> QED
  BY <1>1 DEF Good, Ready, Staged, OfStage

LEMMA GoodReadyFree ==
  ASSUME NEW mii, NEW page, NEW d, Good(d, mii, page), ~d.canUserTransfer
  PROVE  Ready(d, mii, page)
<1>1. Op(d) = "none"
  BY OpNone
<1>2. Op(d) \notin InitOps /\ Op(d) \notin PhyOps
  BY <1>1 DEF InitOps, PhyOps
<1>3. ~d.closing => ~d.patching /\ d.realtekStep = "idle"
  BY <1>2 DEF Good, Staged
<1> QED
  BY <1>1, <1>2, <1>3, GoodReady

LEMMA ReadyGood ==
  ASSUME NEW mii, NEW page, NEW d, Ready(d, mii, page), d.closing \/ Live(d)
  PROVE  Good(d, mii, page)
<1>1. /\ Op(d) \notin {"gpio", "readNodeId", "readPhyAddress", "mii", "ipg"}
      /\ ~d.closing => Op(d) \notin {"eeprom", "stopReceiving", "filter"}
  BY DEF Ready, InitOps, SharedOps, PhyOps
<1> QED
  BY <1>1 DEF Good, Ready, OfStage, Staged

-----------------------------------------------------------------------------
(* A PHY transaction begins.                                                 *)

BegunRead(u, d, register) ==
  /\ Typed(u) /\ SamePlace(u, d) /\ SameVendor(u, d) /\ u.serial = d.serial
  /\ u.phyRead /\ ~u.phyWrite /\ u.phyRegister = register /\ u.phyValue = "zero"
  /\ u.canUserTransfer /\ u.request = Request(IF d.serial THEN "readPhy" ELSE "acquire", "none")

BegunWrite(u, d, register, value) ==
  /\ Typed(u) /\ SamePlace(u, d) /\ SameVendor(u, d) /\ u.serial = d.serial
  /\ ~u.phyRead /\ u.phyWrite /\ u.phyRegister = register /\ u.phyValue = value
  /\ u.canUserTransfer /\ u.request = Request(IF d.serial THEN "writePhy" ELSE "acquire", "none")

RegistersAt(b, d, register, value) ==
  /\ Typed(b) /\ SamePlace(b, d) /\ SameVendor(b, d) /\ SameFlags(b, d) /\ SameChannel(b, d)
  /\ b.phyRegister = register /\ b.phyValue = value

LEMMA RegisterSet ==
  ASSUME NEW d, Typed(d), NEW register \in Nat, NEW value \in PhyValues
  PROVE  RegistersAt([d EXCEPT !.phyRegister = register, !.phyValue = value], d, register, value)
<1> DEFINE b == [d EXCEPT !.phyRegister = register, !.phyValue = value]
<1>1. {"phyRegister", "phyValue"} \subseteq DOMAIN Types
  BY Zenon, TypesOf
<1>2. register \in Types.phyRegister /\ value \in Types.phyValue
  BY TypesOf
<1>3. Typed(b)
  BY Zenon, Put2, <1>1, <1>2
<1>4. SamePlace(b, d) /\ SameVendor(b, d) /\ SameFlags(b, d) /\ SameChannel(b, d)
  BY SMT, TypesOf DEF Typed, SamePlace, SameVendor, SameFlags, SameChannel
<1>5. b.phyRegister = register /\ b.phyValue = value
  BY SMT, TypesOf DEF Typed
<1> HIDE DEF b
<1>6. RegistersAt(b, d, register, value)
  BY <1>3, <1>4, <1>5 DEF RegistersAt
<1> QED
  BY <1>6 DEF b

LEMMA QueuePhyFields ==
  ASSUME NEW d, Typed(d), NEW op \in {"readPhy", "writePhy"}
  PROVE  Queued(QueuePhy(d, op), d, Request(IF d.serial THEN op ELSE "acquire", "none"))
<1> DEFINE chosen == IF d.serial THEN op ELSE "acquire"
<1>1. chosen \in PhyOps
  BY DEF PhyOps
<1> HIDE DEF chosen
<1>2. Request(chosen, "none") \in Requests
  BY <1>1, RequestsTyped
<1>3. Queued(QueueControlTransfer(d, Request(chosen, "none")), d, Request(chosen, "none"))
  BY <1>2, QueueFields
<1> QED
  BY <1>3 DEF QueuePhy, chosen

LEMMA BeginReadBegun ==
  ASSUME NEW d, Typed(d), NEW register \in Nat, CanBeginPhy(d)
  PROVE  BegunRead(BeginReadPhy(d, register), d, register)
<1> DEFINE b == [d EXCEPT !.phyRegister = register, !.phyValue = "zero"]
           c == [b EXCEPT !.phyRead = TRUE]
           u == QueuePhy(c, "readPhy")
<1>1. BeginReadPhy(d, register) = u
  <2>1. ~(d.closing \/ PhyBusy(d))
    BY DEF CanBeginPhy, CanQueueControlTransfer
  <2> QED
    BY Zenon, <2>1 DEF BeginReadPhy
<1>2. RegistersAt(b, d, register, "zero")
  <2>1. "zero" \in PhyValues
    BY DEF PhyValues
  <2> QED
    BY Zenon, RegisterSet, <2>1
<1> HIDE DEF b
<1>3. Typed(c)
  <2>1. Typed(b)
    BY <1>2 DEF RegistersAt
  <2> QED
    BY Zenon, Put, TypesOf, <2>1
<1>4. /\ SamePlace(c, b) /\ SameVendor(c, b) /\ SamePhy(c, b)
      /\ c.phyRead = TRUE /\ c.phyWrite = b.phyWrite /\ c.serial = b.serial
  BY <1>2, SMT, TypesOf DEF RegistersAt, Typed, SamePlace, SameVendor, SamePhy
<1> HIDE DEF c
<1>5. Queued(u, c, Request(IF c.serial THEN "readPhy" ELSE "acquire", "none"))
  BY <1>3, QueuePhyFields
<1>6. ~d.phyWrite
  BY DEF CanBeginPhy, PhyBusy
<1> HIDE DEF u
<1> QED
  BY <1>1, <1>2, <1>4, <1>5, <1>6
     DEF RegistersAt, BegunRead, Queued, SamePlace, SameVendor, SameFlags, SamePhy

LEMMA BeginWriteBegun ==
  ASSUME NEW d, Typed(d), NEW register \in Nat, NEW value \in PhyValues, CanBeginPhy(d)
  PROVE  BegunWrite(BeginWritePhy(d, register, value), d, register, value)
<1> DEFINE b == [d EXCEPT !.phyRegister = register, !.phyValue = value]
           c == [b EXCEPT !.phyWrite = TRUE]
           u == QueuePhy(c, "writePhy")
<1>1. BeginWritePhy(d, register, value) = u
  <2>1. ~(d.closing \/ PhyBusy(d))
    BY DEF CanBeginPhy, CanQueueControlTransfer
  <2> QED
    BY Zenon, <2>1 DEF BeginWritePhy
<1>2. RegistersAt(b, d, register, value)
  BY Zenon, RegisterSet
<1> HIDE DEF b
<1>3. Typed(c)
  <2>1. Typed(b)
    BY <1>2 DEF RegistersAt
  <2> QED
    BY Zenon, Put, TypesOf, <2>1
<1>4. /\ SamePlace(c, b) /\ SameVendor(c, b) /\ SamePhy(c, b)
      /\ c.phyWrite = TRUE /\ c.phyRead = b.phyRead /\ c.serial = b.serial
  BY <1>2, SMT, TypesOf DEF RegistersAt, Typed, SamePlace, SameVendor, SamePhy
<1> HIDE DEF c
<1>5. Queued(u, c, Request(IF c.serial THEN "writePhy" ELSE "acquire", "none"))
  BY <1>3, QueuePhyFields
<1>6. ~d.phyRead
  BY DEF CanBeginPhy, PhyBusy
<1> HIDE DEF u
<1> QED
  BY <1>1, <1>2, <1>4, <1>5, <1>6
     DEF RegistersAt, BegunWrite, Queued, SamePlace, SameVendor, SameFlags, SamePhy

(* Refused, a transaction may leave its register and value behind.           *)
LEMMA BeginReadRefused ==
  ASSUME NEW d, Typed(d), NEW register \in Nat, ~CanBeginPhy(d)
  PROVE  Refused(BeginReadPhy(d, register), d)
<1> DEFINE b == [d EXCEPT !.phyRegister = register, !.phyValue = "zero"]
<1>1. \/ BeginReadPhy(d, register) = d
      \/ ~PhyBusy(d) /\ BeginReadPhy(d, register) = b
  BY DEF BeginReadPhy
<1>2. RegistersAt(b, d, register, "zero")
  <2>1. "zero" \in PhyValues
    BY DEF PhyValues
  <2> QED
    BY Zenon, RegisterSet, <2>1
<1> HIDE DEF b
<1> QED
  BY <1>1, <1>2 DEF RegistersAt, Refused, SamePlace, SameVendor, SameFlags, SameChannel, SamePhy

LEMMA BeginWriteRefused ==
  ASSUME NEW d, Typed(d), NEW register \in Nat, NEW value \in PhyValues, ~CanBeginPhy(d)
  PROVE  Refused(BeginWritePhy(d, register, value), d)
<1> DEFINE b == [d EXCEPT !.phyRegister = register, !.phyValue = value]
<1>1. \/ BeginWritePhy(d, register, value) = d
      \/ ~PhyBusy(d) /\ BeginWritePhy(d, register, value) = b
  BY DEF BeginWritePhy
<1>2. RegistersAt(b, d, register, value)
  BY Zenon, RegisterSet
<1> HIDE DEF b
<1> QED
  BY <1>1, <1>2 DEF RegistersAt, Refused, SamePlace, SameVendor, SameFlags, SameChannel, SamePhy

(* A transaction that begins where the channel is free.                      *)
LEMMA BegunReadGood ==
  ASSUME NEW mii, NEW page, NEW d, NEW u, NEW register, Free(d), BegunRead(u, d, register),
         ~d.closing, d.serial => mii, PageRead(d, page)
  PROVE  Good(u, mii, page)
<1>1. /\ Op(u) = IF d.serial THEN "readPhy" ELSE "acquire"
      /\ Op(u) \in PhyOps /\ PhyBusy(u)
  BY DEF BegunRead, Op, Request, PhyOps, PhyBusy
<1>2. u.request # NoRequest
  BY RequestsTyped DEF BegunRead, PhyOps
<1>3. Bus(u, mii)
  BY <1>1 DEF Bus, BegunRead
<1>4. OfStage(u) /\ Staged(u) /\ Live(u)
  BY <1>1, Fields DEF OfStage, Staged, Live, BegunRead, SamePlace, SameVendor, Free, PhyOps
<1>5. Paged(u, page)
  BY <1>1 DEF Paged, PageRead, BegunRead, SameVendor
<1> QED
  BY <1>2, <1>3, <1>4, <1>5 DEF Good, BegunRead

LEMMA BegunWriteGood ==
  ASSUME NEW mii, NEW page, NEW d, NEW u, NEW register, NEW value, Free(d),
         BegunWrite(u, d, register, value), ~d.closing, d.serial => mii,
         PageWrite(d, register, value, page)
  PROVE  Good(u, mii, page)
<1>1. /\ Op(u) = IF d.serial THEN "writePhy" ELSE "acquire"
      /\ Op(u) \in PhyOps /\ PhyBusy(u)
  BY DEF BegunWrite, Op, Request, PhyOps, PhyBusy
<1>2. u.request # NoRequest
  BY RequestsTyped DEF BegunWrite, PhyOps
<1>3. Bus(u, mii)
  BY <1>1 DEF Bus, BegunWrite
<1>4. OfStage(u) /\ Staged(u) /\ Live(u)
  BY <1>1, Fields DEF OfStage, Staged, Live, BegunWrite, SamePlace, SameVendor, Free, PhyOps
<1>5. Paged(u, page)
  BY <1>1 DEF Paged, PageWrite, BegunWrite, SameVendor
<1> QED
  BY <1>2, <1>3, <1>4, <1>5 DEF Good, BegunWrite

LEMMA BeginReadGood ==
  ASSUME NEW mii, NEW page, NEW d, NEW register \in Nat, Free(d), CanBeginPhy(d),
         d.serial => mii, PageRead(d, page)
  PROVE  Good(BeginReadPhy(d, register), mii, page)
<1>1. BegunRead(BeginReadPhy(d, register), d, register)
  BY BeginReadBegun DEF Free
<1>2. ~d.closing
  BY DEF CanBeginPhy, CanQueueControlTransfer
<1> QED
  BY <1>1, <1>2, BegunReadGood

LEMMA BeginWriteGood ==
  ASSUME NEW mii, NEW page, NEW d, NEW register \in Nat, NEW value \in PhyValues, Free(d),
         CanBeginPhy(d), d.serial => mii, PageWrite(d, register, value, page)
  PROVE  Good(BeginWritePhy(d, register, value), mii, page)
<1>1. BegunWrite(BeginWritePhy(d, register, value), d, register, value)
  BY BeginWriteBegun DEF Free
<1>2. ~d.closing
  BY DEF CanBeginPhy, CanQueueControlTransfer
<1> QED
  BY <1>1, <1>2, BegunWriteGood

(* With the channel free only a device that closes refuses.                  *)
LEMMA FreeBegins ==
  ASSUME NEW d, Free(d)
  PROVE  CanBeginPhy(d) <=> ~d.closing
  BY DEF Free, CanBeginPhy, PhyBusy, CanQueueControlTransfer

-----------------------------------------------------------------------------
(* Single fields.                                                            *)

(* Init is at another stage.                                                 *)
Moved(u, d, stage) ==
  /\ Typed(u) /\ SameVendor(u, d) /\ SameFlags(u, d) /\ SamePhy(u, d) /\ SameChannel(u, d)
  /\ u.closing = d.closing /\ u.timer = d.timer /\ u.retryPending = d.retryPending
  /\ u.nodeIdFailed = d.nodeIdFailed /\ u.configInitial = d.configInitial
  /\ u.filterStep = d.filterStep /\ u.initStage = stage

LEMMA AtMoves ==
  ASSUME NEW d, Typed(d), NEW stage \in InitStages
  PROVE  Moved(At(d, stage), d, stage)
<1> DEFINE u == [d EXCEPT !.initStage = stage]
<1>1. Typed(u)
  <2>1. "initStage" \in DOMAIN Types /\ stage \in Types.initStage
    BY TypesOf
  <2> QED
    BY Zenon, Put, <2>1
<1>2. SameVendor(u, d) /\ SameFlags(u, d) /\ SamePhy(u, d) /\ SameChannel(u, d)
  BY SMT, TypesOf DEF Typed, SameVendor, SameFlags, SamePhy, SameChannel
<1>3. /\ u.closing = d.closing /\ u.timer = d.timer /\ u.retryPending = d.retryPending
      /\ u.nodeIdFailed = d.nodeIdFailed /\ u.configInitial = d.configInitial
      /\ u.filterStep = d.filterStep /\ u.initStage = stage
  BY SMT, TypesOf DEF Typed
<1>4. At(d, stage) = u
  BY DEF At
<1> HIDE DEF u
<1> QED
  BY <1>1, <1>2, <1>3, <1>4 DEF Moved

(* The timer is armed or stopped.                                            *)
Timed(u, d, timer) ==
  /\ Typed(u) /\ SameVendor(u, d) /\ SameFlags(u, d) /\ SamePhy(u, d) /\ SameChannel(u, d)
  /\ u.closing = d.closing /\ u.initStage = d.initStage /\ u.retryPending = d.retryPending
  /\ u.nodeIdFailed = d.nodeIdFailed /\ u.configInitial = d.configInitial
  /\ u.filterStep = d.filterStep /\ u.timer = timer

LEMMA TimerSet ==
  ASSUME NEW d, Typed(d), NEW timer \in {"none", "advance", "running"}
  PROVE  Timed([d EXCEPT !.timer = timer], d, timer)
<1> DEFINE u == [d EXCEPT !.timer = timer]
<1>1. Typed(u)
  <2>1. "timer" \in DOMAIN Types /\ timer \in Types.timer
    BY TypesOf
  <2> QED
    BY Zenon, Put, <2>1
<1>2. SameVendor(u, d) /\ SameFlags(u, d) /\ SamePhy(u, d) /\ SameChannel(u, d)
  BY SMT, TypesOf DEF Typed, SameVendor, SameFlags, SamePhy, SameChannel
<1>3. /\ u.closing = d.closing /\ u.initStage = d.initStage /\ u.retryPending = d.retryPending
      /\ u.nodeIdFailed = d.nodeIdFailed /\ u.configInitial = d.configInitial
      /\ u.filterStep = d.filterStep /\ u.timer = timer
  BY SMT, TypesOf DEF Typed
<1> HIDE DEF u
<1>4. Timed(u, d, timer)
  BY <1>1, <1>2, <1>3 DEF Timed
<1> QED
  BY <1>4 DEF u

LEMMA TimedReady ==
  ASSUME NEW mii, NEW page, NEW d, NEW u, NEW timer \in {"none", "running"},
         Ready(d, mii, page), Timed(u, d, timer)
  PROVE  Ready(u, mii, page)
<1>1. Op(u) = Op(d) /\ (PhyBusy(u) <=> PhyBusy(d))
  BY OpOf DEF Timed
<1> QED
  BY <1>1 DEF Ready, Bus, Paged, Timed, SameVendor, SameFlags, SamePhy, SameChannel

(* A device that runs arms its timer.                                        *)
LEMMA TimedGood ==
  ASSUME NEW mii, NEW page, NEW d, NEW u, NEW timer, timer = "running",
         Good(d, mii, page), Timed(u, d, timer), d.initStage = InitComplete
  PROVE  Good(u, mii, page)
<1>1. Op(u) = Op(d) /\ (PhyBusy(u) <=> PhyBusy(d))
  BY OpOf DEF Timed
<1> QED
  BY <1>1 DEF Good, Bus, OfStage, Staged, Live, Paged, Timed, SameVendor, SameFlags, SamePhy,
              SameChannel

-----------------------------------------------------------------------------
(* Entering the stages of init.                                              *)

(* Which request belongs where.                                              *)
Allowed(op, d) ==
  \/ op \in {"medium", "writeNodeId"}
  \/ op = "gpio" /\ d.initStage = InitWriteGpio
  \/ op = "readNodeId" /\ d.initStage = InitReadNodeId
  \/ op = "readPhyAddress" /\ d.initStage = InitReadPhyAddressRegister
  \/ op = "mii" /\ d.initStage = InitWriteMiiControl
  \/ op = "ipg" /\ d.initStage = InitWriteIpg
  \/ op = "eeprom" /\ d.initStage = IF d.configInitial THEN InitReadEepromConfig ELSE InitVendor
  \/ op = "stopReceiving" /\ d.initStage = InitComplete

LEMMA QueuedGood ==
  ASSUME NEW mii, NEW page, NEW d, NEW u, NEW op, NEW value, Ready(d, mii, page),
         ~d.closing, ~d.canUserTransfer, Request(op, value) \in Requests,
         Queued(u, d, Request(op, value)), Allowed(op, d)
  PROVE  Good(u, mii, page)
<1>1. Op(u) = op /\ u.request # NoRequest
  BY OpQueued DEF Queued
<1>2. op \notin PhyOps /\ op # "filter"
  BY DEF Allowed, PhyOps
<1>3. Free(d) /\ d.realtekStep = "idle" /\ ~d.patching /\ ~d.serial
  BY ReadyFree
<1>4. Bus(u, mii)
  BY <1>1, <1>2, <1>3 DEF Bus, PhyBusy, PhyOps, Queued, SameFlags, Free
<1>5. OfStage(u)
  BY <1>1, <1>3 DEF OfStage, Queued, SamePlace, Allowed, Free
<1>6. Staged(u) /\ Live(u)
  BY <1>1, <1>2, <1>3, Fields DEF Staged, Live, Queued, SamePlace, SameVendor, Allowed, Free
<1>7. Paged(u, page)
  BY <1>1, <1>2, <1>3 DEF Paged, Ready, Queued, SameVendor, SameFlags, SamePhy, Free, Restores
<1> QED
  BY <1>1, <1>4, <1>5, <1>6, <1>7 DEF Good, Queued

LEMMA QueueOrDropQueues ==
  ASSUME NEW mii, NEW page, NEW d, NEW op, Ready(d, mii, page), ~d.closing, ~d.canUserTransfer,
         Request(op, "none") \in Requests, Allowed(op, d)
  PROVE  Good(QueueOrDrop(d, op), mii, page)
<1>1. QueueOrDrop(d, op) = QueueControlTransfer(d, Request(op, "none"))
  BY DEF QueueOrDrop, CanQueueControlTransfer
<1>2. Queued(QueueControlTransfer(d, Request(op, "none")), d, Request(op, "none"))
  BY QueueFields DEF Ready
<1> QED
  BY <1>1, <1>2, QueuedGood

(* Another request keeps init alive.                                         *)
LEMMA BusyGood ==
  ASSUME NEW mii, NEW page, NEW d, Ready(d, mii, page), d.canUserTransfer
  PROVE  Good(d, mii, page)
  BY ReadyGood DEF Live

LEMMA QueueOrDropGood ==
  ASSUME NEW mii, NEW page, NEW d, NEW op, Ready(d, mii, page), ~d.closing,
         Request(op, "none") \in Requests, Allowed(op, d)
  PROVE  Good(QueueOrDrop(d, op), mii, page)
<1>1. CASE d.canUserTransfer
  BY <1>1, BusyGood DEF QueueOrDrop, CanQueueControlTransfer
<1>2. CASE ~d.canUserTransfer
  BY <1>2, QueueOrDropQueues
<1> QED
  BY <1>1, <1>2

LEMMA AtOpen ==
  ASSUME NEW mii, NEW page, NEW d, NEW stage \in InitStages, Open(d, mii, page)
  PROVE  Open(At(d, stage), mii, page) /\ At(d, stage).initStage = stage
<1>1. Moved(At(d, stage), d, stage)
  BY AtMoves DEF Open, Ready
<1> DEFINE u == At(d, stage)
<1> HIDE DEF u
<1>2. Moved(u, d, stage)
  BY <1>1 DEF u
<1>3. Op(u) = Op(d) /\ (PhyBusy(u) <=> PhyBusy(d))
  BY <1>2, OpOf DEF Moved
<1>4. Open(u, mii, page)
  BY <1>2, <1>3 DEF Open, Ready, Bus, Paged, Moved, SameVendor, SameFlags, SamePhy, SameChannel
<1> QED
  BY <1>2, <1>4 DEF u, Moved

LEMMA AtClosing ==
  ASSUME NEW mii, NEW page, NEW d, Ready(d, mii, page), d.closing
  PROVE  Good(At(d, InitComplete), mii, page)
<1> DEFINE u == At(d, InitComplete)
<1>1. Moved(u, d, InitComplete)
  BY AtMoves DEF Ready
<1> HIDE DEF u
<1>2. Op(u) = Op(d) /\ (PhyBusy(u) <=> PhyBusy(d))
  BY <1>1, OpOf DEF Moved
<1>3. Good(u, mii, page)
  BY <1>1, <1>2 DEF Good, Ready, Bus, OfStage, InitOps, Moved, SameFlags, SameChannel
<1> QED
  BY <1>3 DEF u

LEMMA SameOpen ==
  ASSUME NEW mii, NEW page, NEW d, NEW u, Typed(u), Open(d, mii, page), Same(u, d)
  PROVE  Open(u, mii, page)
<1>1. Ready(u, mii, page)
  BY SameReady DEF Open
<1> QED
  BY <1>1 DEF Open, Same, SamePlace, SameVendor

LEMMA RefusedOpen ==
  ASSUME NEW mii, NEW page, NEW d, NEW u, Open(d, mii, page), Refused(u, d)
  PROVE  Open(u, mii, page)
<1>1. Op(u) = Op(d) /\ (PhyBusy(u) <=> PhyBusy(d))
  BY OpOf DEF Refused
<1>2. Paged(u, page)
  BY <1>1 DEF Open, Ready, Paged, Refused, SameVendor, SameFlags, SamePhy, PhyBusy, Restores
<1> QED
  BY <1>1, <1>2 DEF Open, Ready, Bus, Refused, SamePlace, SameVendor, SameFlags, SameChannel

(* A filter update begins, or is put off.                                    *)
LEMMA FilterBusy ==
  ASSUME NEW d, Typed(d), NEW submit \in BOOLEAN, d.filterStep # "idle" \/ d.canUserTransfer
  PROVE  /\ Typed(BeginFilterUpdate(d, submit))
         /\ Same(BeginFilterUpdate(d, submit), d)
<1> DEFINE both == d.submitRing \/ submit
           e == [d EXCEPT !.submitRing = both]
           f == [e EXCEPT !.filterPending = TRUE]
           u == BeginFilterUpdate(d, submit)
<1>1. u = d \/ u = f
  <2>1. CASE d.closing
    BY Zenon, <2>1 DEF BeginFilterUpdate
  <2>2. CASE ~d.closing
    BY Zenon, <2>2 DEF BeginFilterUpdate
  <2> QED
    BY <2>1, <2>2
<1>2. both \in BOOLEAN
  BY DEF both
<1> HIDE DEF both, u
<1>3. Typed(e)
  <2>1. "submitRing" \in DOMAIN Types /\ both \in Types.submitRing
    BY <1>2, TypesOf
  <2> QED
    BY Zenon, Put, <2>1
<1>4. Same(e, d)
  BY SMT, TypesOf DEF Typed, Same, SamePlace, SameVendor, SameFlags, SamePhy, SameChannel
<1> HIDE DEF e
<1>5. Typed(f)
  BY Zenon, Put, TypesOf, <1>3
<1>6. Same(f, e)
  BY <1>3, SMT, TypesOf DEF Typed, Same, SamePlace, SameVendor, SameFlags, SamePhy, SameChannel
<1> HIDE DEF f
<1>7. Same(f, d) /\ Same(d, d)
  BY <1>4, <1>6 DEF Same, SamePlace, SameVendor, SameFlags, SamePhy, SameChannel
<1>8. CASE u = d
  BY <1>7, <1>8 DEF u
<1>9. CASE u = f
  BY <1>5, <1>7, <1>9 DEF u
<1> QED
  BY <1>1, <1>8, <1>9

FilterBegun(u, d) ==
  /\ Typed(u) /\ SameVendor(u, d) /\ SameFlags(u, d) /\ SamePhy(u, d)
  /\ u.closing = d.closing /\ u.initStage = d.initStage /\ u.timer = d.timer
  /\ u.filterStep \in {"hash", "rx"}
  /\ u.canUserTransfer /\ u.request = Request("filter", "none")

LEMMA FilterBegins ==
  ASSUME NEW d, Typed(d), NEW submit \in BOOLEAN, ~d.closing, d.filterStep = "idle",
         ~d.canUserTransfer
  PROVE  FilterBegun(BeginFilterUpdate(d, submit), d)
<1> DEFINE both == d.submitRing \/ submit
           e == [d EXCEPT !.submitRing = both]
           step == IF d.filter.hash # d.hash THEN "hash" ELSE "rx"
           f == [e EXCEPT !.pendingFilter = d.filter, !.filterPending = FALSE, !.filterStep = step]
           u == BeginFilterUpdate(d, submit)
<1>1. u = QueueControlTransfer(f, Request("filter", "none"))
  BY Zenon DEF BeginFilterUpdate
<1>2. both \in BOOLEAN /\ step \in {"hash", "rx"}
  BY DEF both
<1> HIDE DEF both, step, u
<1>3. Typed(e)
  <2>1. "submitRing" \in DOMAIN Types /\ both \in Types.submitRing
    BY <1>2, TypesOf
  <2> QED
    BY Zenon, Put, <2>1
<1>4. Same(e, d)
  BY SMT, TypesOf DEF Typed, Same, SamePlace, SameVendor, SameFlags, SamePhy, SameChannel
<1> HIDE DEF e
<1>5. Typed(f)
  <2>1. d.filter \in Types.pendingFilter
    BY SMT, TypesOf DEF Typed
  <2>2. {"pendingFilter", "filterPending", "filterStep"} \subseteq DOMAIN Types
    BY Zenon, TypesOf
  <2>3. FALSE \in Types.filterPending /\ step \in Types.filterStep
    BY <1>2, TypesOf
  <2> QED
    BY Zenon, Put3, <1>3, <2>1, <2>2, <2>3
<1>6. /\ SameVendor(f, e) /\ SameFlags(f, e) /\ SamePhy(f, e)
      /\ f.closing = e.closing /\ f.initStage = e.initStage /\ f.timer = e.timer
      /\ f.filterStep = step
  BY <1>3, SMT, TypesOf DEF Typed, SameVendor, SameFlags, SamePhy
<1> HIDE DEF f
<1>7. Queued(u, f, Request("filter", "none"))
  BY <1>1, <1>5, QueueFields, RequestsTyped
<1>8. FilterBegun(u, d)
  BY <1>2, <1>4, <1>6, <1>7 DEF FilterBegun, Queued, Same, SamePlace, SameVendor, SameFlags, SamePhy
<1> QED
  BY <1>8 DEF u

LEMMA FilterGood ==
  ASSUME NEW mii, NEW page, NEW d, NEW submit \in BOOLEAN, Ready(d, mii, page), ~d.closing,
         d.initStage \in {InitStartReceiving, InitComplete}
  PROVE  Good(BeginFilterUpdate(d, submit), mii, page)
<1> DEFINE u == BeginFilterUpdate(d, submit)
<1>1. CASE d.canUserTransfer
  BY <1>1, BusyGood, FilterBusy, SameGood DEF Ready
<1>2. CASE ~d.canUserTransfer
  <2>1. FilterBegun(u, d)
    BY <1>2, FilterBegins DEF Ready
  <2> HIDE DEF u
  <2>2. Op(u) = "filter" /\ u.request # NoRequest
    BY <2>1, RequestsTyped DEF FilterBegun, Op, Request
  <2>3. Free(d) /\ d.realtekStep = "idle" /\ ~d.patching /\ ~d.serial
    BY <1>2, ReadyFree
  <2>4. Bus(u, mii)
    BY <2>1, <2>2, <2>3 DEF Bus, PhyBusy, FilterBegun, SameFlags, Free
  <2>5. OfStage(u) /\ Staged(u) /\ Live(u)
    BY <2>1, <2>2, <2>3 DEF OfStage, Staged, Live, FilterBegun, SameVendor, Free
  <2>6. Paged(u, page)
    BY <2>1, <2>2, <2>3 DEF Paged, Ready, FilterBegun, SameVendor, SameFlags, SamePhy, Free, Restores
  <2>7. Good(u, mii, page)
    BY <2>1, <2>2, <2>4, <2>5, <2>6 DEF Good, FilterBegun
  <2> QED
    BY <2>7 DEF u
<1> QED
  BY <1>1, <1>2

(* The stages, the last one first.                                           *)
LEMMA CompleteEntered ==
  ASSUME NEW mii, NEW page, NEW d, Open(d, mii, page)
  PROVE  Good(EnterComplete(d), mii, page)
<1> DEFINE a == At(d, InitComplete)
           u == [a EXCEPT !.timer = "running"]
<1>1. Open(a, mii, page) /\ a.initStage = InitComplete
  BY AtOpen
<1> HIDE DEF a
<1>2. Timed(u, a, "running")
  BY <1>1, TimerSet DEF Open, Ready
<1> HIDE DEF u
<1>3. Ready(u, mii, page) /\ u.initStage = InitComplete
  BY <1>1, <1>2, TimedReady DEF Open, Timed
<1>4. Good(u, mii, page)
  BY <1>3, ReadyGood DEF Live
<1> QED
  BY <1>4 DEF EnterComplete, u, a

LEMMA StartReceivingEntered ==
  ASSUME NEW mii, NEW page, NEW d, Open(d, mii, page)
  PROVE  Good(EnterStartReceiving(d), mii, page)
<1>1. Open(At(d, InitStartReceiving), mii, page) /\ At(d, InitStartReceiving).initStage = InitStartReceiving
  BY AtOpen
<1> QED
  BY <1>1, FilterGood DEF EnterStartReceiving, Open

LEMMA WriteIpgEntered ==
  ASSUME NEW mii, NEW page, NEW d, Open(d, mii, page)
  PROVE  Good(EnterWriteIpg(d), mii, page)
<1>1. Open(At(d, InitWriteIpg), mii, page) /\ At(d, InitWriteIpg).initStage = InitWriteIpg
  BY AtOpen
<1>2. Request("ipg", "none") \in Requests
  BY RequestsTyped DEF InitOps
<1> QED
  BY <1>1, <1>2, QueueOrDropGood DEF EnterWriteIpg, Open, Allowed

(* A PHY transaction of a stage: begun, or not possible.                     *)
LEMMA OpenRead ==
  ASSUME NEW mii, NEW page, NEW d, NEW register \in Nat, Open(d, mii, page)
  PROVE  /\ CanBeginPhy(d) => Good(BeginReadPhy(d, register), mii, page)
         /\ ~CanBeginPhy(d) => Open(BeginReadPhy(d, register), mii, page)
<1>1. ASSUME CanBeginPhy(d)
      PROVE  Good(BeginReadPhy(d, register), mii, page)
  <2>1. ~d.canUserTransfer
    BY <1>1 DEF CanBeginPhy, CanQueueControlTransfer
  <2>2. Free(d) /\ ~d.serial /\ PageRead(d, page)
    BY <2>1, ReadyFree DEF Open
  <2> QED
    BY <1>1, <2>2, BeginReadGood
<1>2. ASSUME ~CanBeginPhy(d)
      PROVE  Open(BeginReadPhy(d, register), mii, page)
  BY <1>2, BeginReadRefused, RefusedOpen DEF Open, Ready
<1> QED
  BY <1>1, <1>2

LEMMA OpenWrite ==
  ASSUME NEW mii, NEW page, NEW d, NEW register \in Nat, register # PhyRegisterPage,
         NEW value \in PhyValues, Open(d, mii, page)
  PROVE  /\ CanBeginPhy(d) => Good(BeginWritePhy(d, register, value), mii, page)
         /\ ~CanBeginPhy(d) => Open(BeginWritePhy(d, register, value), mii, page)
<1>1. ASSUME CanBeginPhy(d)
      PROVE  Good(BeginWritePhy(d, register, value), mii, page)
  <2>1. ~d.canUserTransfer
    BY <1>1 DEF CanBeginPhy, CanQueueControlTransfer
  <2>2. Free(d) /\ ~d.serial /\ PageWrite(d, register, value, page)
    BY <2>1, ReadyFree DEF Open
  <2> QED
    BY <1>1, <2>2, BeginWriteGood
<1>2. ASSUME ~CanBeginPhy(d)
      PROVE  Open(BeginWritePhy(d, register, value), mii, page)
  BY <1>2, BeginWriteRefused, RefusedOpen DEF Open, Ready
<1> QED
  BY <1>1, <1>2

LEMMA WritePhyControlEntered ==
  ASSUME NEW mii, NEW page, NEW d, Open(d, mii, page)
  PROVE  Good(EnterWritePhyControl(d), mii, page)
<1> DEFINE e == At(d, InitWritePhyControl)
           b == BeginWritePhy(e, PhyRegisterControl, "other")
<1>1. Open(e, mii, page)
  BY AtOpen
<1> HIDE DEF e
<1>2. PhyRegisterControl \in Nat /\ PhyRegisterControl # PhyRegisterPage /\ "other" \in PhyValues
  BY DEF PhyRegisterControl, PhyRegisterPage, PhyValues
<1>3. /\ CanBeginPhy(e) => Good(b, mii, page)
      /\ ~CanBeginPhy(e) => Open(b, mii, page)
  BY <1>1, <1>2, OpenWrite
<1> HIDE DEF b
<1>4. Good(IF CanBeginPhy(e) THEN b ELSE EnterWriteIpg(b), mii, page)
  BY <1>3, WriteIpgEntered
<1> QED
  BY <1>4 DEF EnterWritePhyControl, b, e

(* A step of the Realtek setup, or a write of the patch, begins.             *)
LEMMA RealtekQueued ==
  ASSUME NEW mii, NEW page, NEW d, Free(d), CanBeginPhy(d), d.serial => mii,
         d.realtekStep # "idle", ~d.realtekFailed
  PROVE  Good(QueueRealtekPhyInitStep(d), mii, page)
<1> DEFINE u == QueueRealtekPhyInitStep(d)
<1>1. /\ PhyRegisterPage \in Nat /\ 1 \in Nat /\ 12 \in Nat /\ 26 \in Nat
      /\ {"page5", "page2", "zero", "other"} \subseteq PhyValues
  BY DEF PhyRegisterPage, PhyValues
<1>2. CASE d.realtekStep \notin Restores
  <2>1. /\ PageRead(d, page)
        /\ \A register, value : PageWrite(d, register, value, page)
    BY <1>2 DEF PageRead, PageWrite
  <2>2. /\ Good(BeginReadPhy(d, 1), mii, page)
        /\ \A register \in Nat : \A value \in PhyValues :
             Good(BeginWritePhy(d, register, value), mii, page)
    BY <1>1, <2>1, BeginReadGood, BeginWriteGood
  <2>3. \/ u = BeginReadPhy(d, 1)
        \/ u = BeginWritePhy(d, PhyRegisterPage, "page5")
        \/ u = BeginWritePhy(d, PhyRegisterPage, "page2")
        \/ u = BeginWritePhy(d, 12, "other")
        \/ u = BeginWritePhy(d, 1, "other")
        \/ u = BeginWritePhy(d, 26, "other")
        \/ u = BeginWritePhy(d, PhyRegisterPage, "zero")
    BY Zenon DEF QueueRealtekPhyInitStep
  <2> HIDE DEF u
  <2>4. Good(u, mii, page)
    BY <1>1, <2>2, <2>3
  <2> QED
    BY <2>4 DEF u
<1>3. CASE d.realtekStep \in Restores
  <2>1. PageWrite(d, PhyRegisterPage, "zero", page)
    BY <1>3 DEF PageWrite
  <2>2. u = BeginWritePhy(d, PhyRegisterPage, "zero")
    BY <1>3 DEF QueueRealtekPhyInitStep, Restores
  <2> QED
    BY <1>1, <2>1, <2>2, BeginWriteGood
<1> QED
  BY <1>2, <1>3

LEMMA PatchQueued ==
  ASSUME NEW mii, NEW page, NEW d, Free(d), CanBeginPhy(d), d.serial => mii,
         d.realtekStep = "idle", UsersLeavePage /\ ~d.pageLost => page = "zero"
  PROVE  Good(QueueNextPhyPatch(d), mii, page)
<1>1. 30 \in Nat /\ "other" \in PhyValues /\ PageWrite(d, 30, "other", page)
  BY DEF PhyValues, PageWrite, PhyRegisterPage, Restores
<1> QED
  BY <1>1, BeginWriteGood DEF QueueNextPhyPatch

(* The Realtek step is set, and the failure of the one before forgotten.     *)
Stepped(u, d, step) ==
  /\ Typed(u) /\ SamePlace(u, d) /\ SameFlags(u, d) /\ SamePhy(u, d) /\ SameChannel(u, d)
  /\ u.patching = d.patching /\ u.pageLost = d.pageLost
  /\ u.ledStep = d.ledStep /\ u.refresh = d.refresh
  /\ u.realtekStep = step /\ u.realtekFailed = FALSE

LEMMA StepSet ==
  ASSUME NEW d, Typed(d), NEW step \in RealtekSteps \cup {"idle"}
  PROVE  Stepped([d EXCEPT !.realtekStep = step, !.realtekFailed = FALSE], d, step)
<1> DEFINE u == [d EXCEPT !.realtekStep = step, !.realtekFailed = FALSE]
<1>1. Typed(u)
  <2>1. {"realtekStep", "realtekFailed"} \subseteq DOMAIN Types
    BY Zenon, TypesOf
  <2>2. step \in Types.realtekStep /\ FALSE \in Types.realtekFailed
    BY TypesOf
  <2> QED
    BY Zenon, Put2, <2>1, <2>2
<1>2. SamePlace(u, d) /\ SameFlags(u, d) /\ SamePhy(u, d) /\ SameChannel(u, d)
  BY SMT, TypesOf DEF Typed, SamePlace, SameFlags, SamePhy, SameChannel
<1>3. /\ u.patching = d.patching /\ u.pageLost = d.pageLost
      /\ u.ledStep = d.ledStep /\ u.refresh = d.refresh
      /\ u.realtekStep = step /\ u.realtekFailed = FALSE
  BY SMT, TypesOf DEF Typed
<1> HIDE DEF u
<1>4. Stepped(u, d, step)
  BY <1>1, <1>2, <1>3 DEF Stepped
<1> QED
  BY <1>4 DEF u

(* A patch begins or ends.                                                   *)
Patched(u, d, patching) ==
  /\ Typed(u) /\ SamePlace(u, d) /\ SameFlags(u, d) /\ SamePhy(u, d) /\ SameChannel(u, d)
  /\ u.realtekStep = d.realtekStep /\ u.realtekFailed = d.realtekFailed
  /\ u.pageLost = d.pageLost /\ u.ledStep = d.ledStep /\ u.refresh = d.refresh
  /\ u.patching = patching

LEMMA PatchSet ==
  ASSUME NEW d, Typed(d), NEW patching \in BOOLEAN
  PROVE  Patched([d EXCEPT !.patching = patching, !.patchIndex = 0, !.patchFailed = FALSE], d, patching)
<1> DEFINE u == [d EXCEPT !.patching = patching, !.patchIndex = 0, !.patchFailed = FALSE]
<1>1. Typed(u)
  <2>1. {"patching", "patchIndex", "patchFailed"} \subseteq DOMAIN Types
    BY Zenon, TypesOf
  <2>2. 0 \in 0 .. PatchCount - 1
    BY DEF Ax88178Assumption
  <2>3. patching \in Types.patching /\ 0 \in Types.patchIndex /\ FALSE \in Types.patchFailed
    BY <2>2, TypesOf
  <2> QED
    BY Zenon, Put3, <2>1, <2>3
<1>2. SamePlace(u, d) /\ SameFlags(u, d) /\ SamePhy(u, d) /\ SameChannel(u, d)
  BY SMT, TypesOf DEF Typed, SamePlace, SameFlags, SamePhy, SameChannel
<1>3. /\ u.realtekStep = d.realtekStep /\ u.realtekFailed = d.realtekFailed
      /\ u.pageLost = d.pageLost /\ u.ledStep = d.ledStep /\ u.refresh = d.refresh
      /\ u.patching = patching
  BY SMT, TypesOf DEF Typed
<1> HIDE DEF u
<1>4. Patched(u, d, patching)
  BY <1>1, <1>2, <1>3 DEF Patched
<1> QED
  BY <1>4 DEF u

LEMMA ConfigStepSame ==
  ASSUME NEW d, Typed(d), NEW step \in {"idle", "enable", "read", "disable"}
  PROVE  Typed([d EXCEPT !.configStep = step]) /\ Same([d EXCEPT !.configStep = step], d)
<1> DEFINE u == [d EXCEPT !.configStep = step]
<1>1. Typed(u)
  <2>1. "configStep" \in DOMAIN Types /\ step \in Types.configStep
    BY TypesOf
  <2> QED
    BY Zenon, Put, <2>1
<1>2. Same(u, d)
  BY SMT, TypesOf DEF Typed, Same, SamePlace, SameVendor, SameFlags, SamePhy, SameChannel
<1> QED
  BY <1>1, <1>2

(* The vendor initialization of the PHY.                                     *)
LEMMA VendorContinued ==
  ASSUME NEW mii, NEW page, NEW d, Ready(d, mii, page),
         d.closing \/ (Open(d, mii, page) /\ d.initStage = InitVendor)
  PROVE  Good(ContinueVendorPhyInitialization(d), mii, page)
<1> DEFINE e == [d EXCEPT !.configStep = "idle"]
           r == [e EXCEPT !.realtekStep = "page5", !.realtekFailed = FALSE]
           p == [e EXCEPT !.patching = TRUE, !.patchIndex = 0, !.patchFailed = FALSE]
           u == ContinueVendorPhyInitialization(d)
<1>1. \/ CanBeginPhy(e) /\ u = BeginWritePhy(e, PhyRegisterMarvell, "other")
      \/ CanBeginPhy(e) /\ u = QueueRealtekPhyInitStep(r)
      \/ CanBeginPhy(e) /\ u = QueueNextPhyPatch(p)
      \/ u = Advance(e, EnterWritePhyControl(e))
  BY Zenon DEF ContinueVendorPhyInitialization
<1>2. Typed(e) /\ Same(e, d)
  BY Zenon, ConfigStepSame DEF Ready
<1> HIDE DEF e, u
<1>3. Ready(e, mii, page) /\ e.closing = d.closing /\ e.initStage = d.initStage
  BY <1>2, SameReady DEF Same, SamePlace
<1>4. CASE d.closing
  <2>1. ~CanBeginPhy(e)
    BY <1>3, <1>4 DEF CanBeginPhy, CanQueueControlTransfer
  <2>2. u = At(e, InitComplete)
    BY <1>1, <1>3, <1>4, <2>1 DEF Advance
  <2>3. Good(u, mii, page)
    BY <1>3, <1>4, <2>2, AtClosing
  <2> QED
    BY <2>3 DEF u
<1>5. CASE ~d.closing
  <2>1. Open(e, mii, page) /\ e.initStage = InitVendor
    BY <1>2, <1>3, <1>5, SameOpen
  <2>2. CASE CanBeginPhy(e)
    <3>1. ~e.canUserTransfer /\ ~e.closing
      BY <2>2 DEF CanBeginPhy, CanQueueControlTransfer
    <3>2. /\ Free(e) /\ e.realtekStep = "idle" /\ ~e.patching /\ ~e.serial
          /\ PageAfter(e, page)
          /\ \A register, value : register # PhyRegisterPage =>
               PageWrite(e, register, value, page)
      BY <1>3, <3>1, ReadyFree
    <3>3. Good(BeginWritePhy(e, PhyRegisterMarvell, "other"), mii, page)
      <4>1. /\ PhyRegisterMarvell \in Nat /\ PhyRegisterMarvell # PhyRegisterPage
            /\ "other" \in PhyValues
        BY DEF PhyRegisterMarvell, PhyRegisterPage, PhyValues
      <4> QED
        BY <2>2, <3>2, <4>1, BeginWriteGood
    <3>4. Good(QueueRealtekPhyInitStep(r), mii, page)
      <4>1. Stepped(r, e, "page5")
        BY Zenon, <1>2, StepSet DEF RealtekSteps
      <4> HIDE DEF r
      <4>2. Free(r)
        BY <2>1, <3>1, <3>2, <4>1 DEF Free, Stepped, SamePlace, SameFlags, SameChannel
      <4>3. CanBeginPhy(r)
        BY <3>1, <4>1, <4>2, FreeBegins DEF Stepped, SamePlace
      <4>4. ~r.serial /\ r.realtekStep # "idle" /\ ~r.realtekFailed
        BY <3>2, <4>1 DEF Stepped, SameFlags
      <4> QED
        BY <4>2, <4>3, <4>4, RealtekQueued
    <3>5. Good(QueueNextPhyPatch(p), mii, page)
      <4>1. Patched(p, e, TRUE)
        BY Zenon, <1>2, PatchSet
      <4> HIDE DEF p
      <4>2. Free(p)
        BY <2>1, <3>1, <3>2, <4>1 DEF Free, Patched, SamePlace, SameFlags, SameChannel
      <4>3. CanBeginPhy(p)
        BY <3>1, <4>1, <4>2, FreeBegins DEF Patched, SamePlace
      <4>4. /\ ~p.serial /\ p.realtekStep = "idle"
            /\ UsersLeavePage /\ ~p.pageLost => page = "zero"
        BY <3>2, <4>1 DEF Patched, SameFlags, PageAfter
      <4> QED
        BY <4>2, <4>3, <4>4, PatchQueued
    <3>6. Good(Advance(e, EnterWritePhyControl(e)), mii, page)
      BY <2>1, <3>1, WritePhyControlEntered DEF Advance
    <3> QED
      BY <1>1, <3>3, <3>4, <3>5, <3>6 DEF u
  <2>3. CASE ~CanBeginPhy(e)
    <3>1. u = EnterWritePhyControl(e)
      BY <1>1, <1>3, <1>5, <2>3 DEF Advance
    <3> QED
      BY <2>1, <3>1, WritePhyControlEntered DEF u
  <2> QED
    BY <2>2, <2>3
<1> QED
  BY <1>4, <1>5

LEMMA EepromBegun ==
  ASSUME NEW mii, NEW page, NEW d, NEW initial \in BOOLEAN, NEW otherwise, Open(d, mii, page),
         d.initStage = IF initial THEN InitReadEepromConfig ELSE InitVendor,
         Good(otherwise, mii, page)
  PROVE  Good(BeginEepromConfig(d, initial, otherwise), mii, page)
<1> DEFINE e == [d EXCEPT !.configInitial = initial, !.configStep = "enable"]
           u == QueueControlTransfer(e, Request("eeprom", "none"))
<1>1. BeginEepromConfig(d, initial, otherwise) = IF CanQueueControlTransfer(d) THEN u ELSE otherwise
  BY DEF BeginEepromConfig
<1>2. Typed(d)
  BY DEF Open, Ready
<1>3. Typed(e)
  <2>1. {"configInitial", "configStep"} \subseteq DOMAIN Types
    BY Zenon, TypesOf
  <2>2. initial \in Types.configInitial /\ "enable" \in Types.configStep
    BY TypesOf
  <2> QED
    BY Zenon, Put2, <1>2, <2>1, <2>2
<1>4. /\ SameVendor(e, d) /\ SameFlags(e, d) /\ SamePhy(e, d) /\ SameChannel(e, d)
      /\ e.closing = d.closing /\ e.initStage = d.initStage /\ e.timer = d.timer
      /\ e.filterStep = d.filterStep /\ e.configInitial = initial
  BY <1>2, SMT, TypesOf DEF Typed, SameVendor, SameFlags, SamePhy, SameChannel
<1> HIDE DEF e
<1>5. Op(e) = Op(d) /\ (PhyBusy(e) <=> PhyBusy(d))
  BY <1>4, OpOf
<1>6. Ready(e, mii, page)
  BY <1>3, <1>4, <1>5 DEF Open, Ready, Bus, Paged, SameVendor, SameFlags, SamePhy, SameChannel
<1>7. Request("eeprom", "none") \in Requests
  BY RequestsTyped
<1>8. Queued(u, e, Request("eeprom", "none"))
  BY <1>3, <1>7, QueueFields
<1> HIDE DEF u
<1>9. CASE CanQueueControlTransfer(d)
  <2>1. ~e.closing /\ ~e.canUserTransfer /\ Allowed("eeprom", e)
    BY <1>4, <1>9 DEF CanQueueControlTransfer, Allowed, SameChannel
  <2>2. Good(u, mii, page)
    BY <1>6, <1>7, <1>8, <2>1, QueuedGood
  <2> QED
    BY <1>1, <1>9, <2>2
<1>10. CASE ~CanQueueControlTransfer(d)
  BY <1>1, <1>10
<1> QED
  BY <1>9, <1>10

LEMMA VendorEntered ==
  ASSUME NEW mii, NEW page, NEW d, Open(d, mii, page)
  PROVE  Good(EnterVendor(d), mii, page)
<1> DEFINE e == At(d, InitVendor)
           c == ContinueVendorPhyInitialization(e)
<1>1. Open(e, mii, page) /\ e.initStage = InitVendor
  BY AtOpen
<1> HIDE DEF e
<1>2. Good(c, mii, page)
  BY <1>1, VendorContinued DEF Open
<1> HIDE DEF c
<1>3. Good(BeginEepromConfig(e, FALSE, c), mii, page)
  BY <1>1, <1>2, EepromBegun
<1> QED
  BY <1>2, <1>3 DEF EnterVendor, c, e

LEMMA WritePhyAnarEntered ==
  ASSUME NEW mii, NEW page, NEW d, Open(d, mii, page)
  PROVE  Good(EnterWritePhyAnar(d), mii, page)
<1> DEFINE e == At(d, InitWritePhyAnar)
           b == BeginWritePhy(e, PhyRegisterAnar, "other")
<1>1. Open(e, mii, page)
  BY AtOpen
<1> HIDE DEF e
<1>2. PhyRegisterAnar \in Nat /\ PhyRegisterAnar # PhyRegisterPage /\ "other" \in PhyValues
  BY DEF PhyRegisterAnar, PhyRegisterPage, PhyValues
<1>3. /\ CanBeginPhy(e) => Good(b, mii, page)
      /\ ~CanBeginPhy(e) => Open(b, mii, page)
  BY <1>1, <1>2, OpenWrite
<1> HIDE DEF b
<1>4. Good(IF CanBeginPhy(e) THEN b ELSE EnterVendor(b), mii, page)
  BY <1>3, VendorEntered
<1> QED
  BY <1>4 DEF EnterWritePhyAnar, b, e

LEMMA WriteMiiControlEntered ==
  ASSUME NEW mii, NEW page, NEW d, Open(d, mii, page)
  PROVE  Good(EnterWriteMiiControl(d), mii, page)
<1>1. /\ Open(At(d, InitWriteMiiControl), mii, page)
      /\ At(d, InitWriteMiiControl).initStage = InitWriteMiiControl
  BY AtOpen
<1>2. Request("mii", "none") \in Requests
  BY RequestsTyped DEF InitOps
<1> QED
  BY <1>1, <1>2, QueueOrDropGood DEF EnterWriteMiiControl, Open, Allowed

LEMMA WriteMediumStatusEntered ==
  ASSUME NEW mii, NEW page, NEW d, Open(d, mii, page)
  PROVE  Good(EnterWriteMediumStatus(d), mii, page)
<1> DEFINE e == At(d, InitWriteMediumStatus)
<1>1. Open(e, mii, page)
  BY AtOpen
<1> HIDE DEF e
<1>2. Request("medium", "none") \in Requests
  BY RequestsTyped
<1>3. Good(QueueOrDrop(e, "medium"), mii, page)
  BY <1>1, <1>2, QueueOrDropGood DEF Open, Allowed
<1>4. Good(EnterWriteMiiControl(e), mii, page)
  BY <1>1, WriteMiiControlEntered
<1> QED
  BY <1>3, <1>4 DEF EnterWriteMediumStatus, e

(* The registers are read one after the other: a mark of that.               *)
LEMMA ReadAllSame ==
  ASSUME NEW d, Typed(d), NEW all \in BOOLEAN
  PROVE  Typed([d EXCEPT !.readAll = all]) /\ Same([d EXCEPT !.readAll = all], d)
<1> DEFINE u == [d EXCEPT !.readAll = all]
<1>1. Typed(u)
  <2>1. "readAll" \in DOMAIN Types /\ all \in Types.readAll
    BY TypesOf
  <2> QED
    BY Zenon, Put, <2>1
<1>2. Same(u, d)
  BY SMT, TypesOf DEF Typed, Same, SamePlace, SameVendor, SameFlags, SamePhy, SameChannel
<1> QED
  BY <1>1, <1>2

LEMMA ReadAllGood ==
  ASSUME NEW mii, NEW page, NEW d, NEW all \in BOOLEAN, Good(d, mii, page)
  PROVE  Good([d EXCEPT !.readAll = all], mii, page)
<1> DEFINE u == [d EXCEPT !.readAll = all]
<1>1. Typed(u) /\ Same(u, d)
  BY Zenon, ReadAllSame DEF Good
<1> HIDE DEF u
<1>2. Good(u, mii, page)
  BY <1>1, SameGood
<1> QED
  BY <1>2 DEF u

LEMMA ReadPhyRegistersEntered ==
  ASSUME NEW mii, NEW page, NEW d, Open(d, mii, page)
  PROVE  Good(EnterReadPhyRegisters(d), mii, page)
<1> DEFINE e == At(d, InitReadPhyRegisters)
           b == BeginReadPhy(e, 0)
           u == [b EXCEPT !.readAll = TRUE]
<1>1. Open(e, mii, page)
  BY AtOpen
<1> HIDE DEF e
<1>2. /\ CanBeginPhy(e) => Good(b, mii, page)
      /\ ~CanBeginPhy(e) => Open(b, mii, page)
  BY <1>1, OpenRead
<1>3. BeginReadAllPhy(e) = IF CanBeginPhy(e) THEN u ELSE b
  BY DEF BeginReadAllPhy
<1> HIDE DEF b
<1>4. CanBeginPhy(e) => Good(u, mii, page)
  BY Zenon, <1>2, ReadAllGood
<1> HIDE DEF u
<1>5. Good(IF CanBeginPhy(e) THEN BeginReadAllPhy(e) ELSE EnterWriteMediumStatus(BeginReadAllPhy(e)),
           mii, page)
  BY <1>2, <1>3, <1>4, WriteMediumStatusEntered
<1> QED
  BY <1>5 DEF EnterReadPhyRegisters, e

(* The wait for the PHY: its retries.                                        *)
Retried(u, d, pending) ==
  /\ Typed(u) /\ SameVendor(u, d) /\ SameFlags(u, d) /\ SamePhy(u, d) /\ SameChannel(u, d)
  /\ u.closing = d.closing /\ u.initStage = d.initStage /\ u.timer = d.timer
  /\ u.nodeIdFailed = d.nodeIdFailed /\ u.configInitial = d.configInitial
  /\ u.filterStep = d.filterStep /\ u.retryPending = pending

LEMMA RetrySet ==
  ASSUME NEW d, Typed(d), NEW pending \in BOOLEAN
  PROVE  Retried([d EXCEPT !.retryPending = pending], d, pending)
<1> DEFINE u == [d EXCEPT !.retryPending = pending]
<1>1. Typed(u)
  <2>1. "retryPending" \in DOMAIN Types /\ pending \in Types.retryPending
    BY TypesOf
  <2> QED
    BY Zenon, Put, <2>1
<1>2. SameVendor(u, d) /\ SameFlags(u, d) /\ SamePhy(u, d) /\ SameChannel(u, d)
  BY SMT, TypesOf DEF Typed, SameVendor, SameFlags, SamePhy, SameChannel
<1>3. /\ u.closing = d.closing /\ u.initStage = d.initStage /\ u.timer = d.timer
      /\ u.nodeIdFailed = d.nodeIdFailed /\ u.configInitial = d.configInitial
      /\ u.filterStep = d.filterStep /\ u.retryPending = pending
  BY SMT, TypesOf DEF Typed
<1> HIDE DEF u
<1>4. Retried(u, d, pending)
  BY <1>1, <1>2, <1>3 DEF Retried
<1> QED
  BY <1>4 DEF u

LEMMA RetriedReady ==
  ASSUME NEW mii, NEW page, NEW d, NEW u, NEW pending, Ready(d, mii, page), Retried(u, d, pending)
  PROVE  Ready(u, mii, page)
<1>1. Op(u) = Op(d) /\ (PhyBusy(u) <=> PhyBusy(d))
  BY OpOf DEF Retried
<1> QED
  BY <1>1 DEF Ready, Bus, Paged, Retried, SameVendor, SameFlags, SamePhy, SameChannel

LEMMA RetryGood ==
  ASSUME NEW mii, NEW page, NEW d, Ready(d, mii, page), d.initStage = InitWaitPhyReady
  PROVE  Good(RetryPhyReadyLater(d), mii, page)
<1> DEFINE r == [d EXCEPT !.retryPending = TRUE]
           u == [r EXCEPT !.timer = "running"]
<1>1. Retried(r, d, TRUE)
  BY Zenon, RetrySet DEF Ready
<1>2. RetryPhyReadyLater(d) = u
  BY DEF RetryPhyReadyLater
<1> HIDE DEF r
<1>3. Ready(r, mii, page)
  BY <1>1, RetriedReady
<1>4. Timed(u, r, "running")
  BY <1>3, TimerSet DEF Ready
<1> HIDE DEF u
<1>5. Ready(u, mii, page)
  BY <1>3, <1>4, TimedReady
<1>6. Live(u)
  BY <1>1, <1>4 DEF Retried, Timed, Live
<1> QED
  BY <1>2, <1>5, <1>6, ReadyGood

LEMMA RetriesSame ==
  ASSUME NEW d, Typed(d), NEW n \in 0 .. PhyReadyRetryLimit
  PROVE  Typed([d EXCEPT !.retries = n]) /\ Same([d EXCEPT !.retries = n], d)
<1> DEFINE u == [d EXCEPT !.retries = n]
<1>1. Typed(u)
  <2>1. "retries" \in DOMAIN Types /\ n \in Types.retries
    BY TypesOf
  <2> QED
    BY Zenon, Put, <2>1
<1>2. Same(u, d)
  BY SMT, TypesOf DEF Typed, Same, SamePlace, SameVendor, SameFlags, SamePhy, SameChannel
<1> QED
  BY <1>1, <1>2

LEMMA WaitPhyReadyEntered ==
  ASSUME NEW mii, NEW page, NEW d, Open(d, mii, page)
  PROVE  Good(EnterWaitPhyReady(d), mii, page)
<1> DEFINE a == At(d, InitWaitPhyReady)
           n == [a EXCEPT !.retries = 0]
           e == [n EXCEPT !.retryPending = FALSE]
           b == BeginReadPhy(e, PhyRegisterIdentifier1)
<1>1. Open(a, mii, page) /\ a.initStage = InitWaitPhyReady
  BY AtOpen
<1>2. EnterWaitPhyReady(d) = IF CanBeginPhy(e) THEN b ELSE RetryPhyReadyLater(b)
  BY DEF EnterWaitPhyReady
<1> HIDE DEF a
<1>3. Typed(n) /\ Same(n, a)
  <2>1. 0 \in 0 .. PhyReadyRetryLimit
    BY DEF Ax88178Assumption
  <2>2. Typed(a)
    BY <1>1 DEF Open, Ready
  <2> QED
    BY Zenon, <2>1, <2>2, RetriesSame
<1> HIDE DEF n
<1>4. Open(n, mii, page) /\ n.initStage = InitWaitPhyReady
  BY <1>1, <1>3, SameOpen DEF Same, SamePlace
<1>5. Retried(e, n, FALSE)
  BY Zenon, <1>3, RetrySet
<1> HIDE DEF e
<1>6. Open(e, mii, page) /\ e.initStage = InitWaitPhyReady
  BY <1>4, <1>5, RetriedReady DEF Open, Retried, SameVendor
<1>7. /\ CanBeginPhy(e) => Good(b, mii, page)
      /\ ~CanBeginPhy(e) => Open(b, mii, page)
  BY <1>6, OpenRead DEF PhyRegisterIdentifier1
<1>8. ~CanBeginPhy(e) => b.initStage = InitWaitPhyReady
  BY <1>6, BeginReadRefused DEF PhyRegisterIdentifier1, Refused, SamePlace, Open, Ready
<1> HIDE DEF b
<1>9. Good(IF CanBeginPhy(e) THEN b ELSE RetryPhyReadyLater(b), mii, page)
  BY <1>7, <1>8, RetryGood DEF Open
<1> QED
  BY <1>2, <1>9

LEMMA ReadPhyAddressEntered ==
  ASSUME NEW mii, NEW page, NEW d, Open(d, mii, page)
  PROVE  Good(EnterReadPhyAddressRegister(d), mii, page)
<1>1. /\ Open(At(d, InitReadPhyAddressRegister), mii, page)
      /\ At(d, InitReadPhyAddressRegister).initStage = InitReadPhyAddressRegister
  BY AtOpen
<1>2. Request("readPhyAddress", "none") \in Requests
  BY RequestsTyped DEF InitOps
<1> QED
  BY <1>1, <1>2, QueueOrDropGood DEF EnterReadPhyAddressRegister, Open, Allowed

(* The ghost of a dropped address.                                           *)
LEMMA LossSame ==
  ASSUME NEW d, Typed(d), NEW lost \in BOOLEAN
  PROVE  Typed([d EXCEPT !.addressLost = lost]) /\ Same([d EXCEPT !.addressLost = lost], d)
<1> DEFINE u == [d EXCEPT !.addressLost = lost]
<1>1. Typed(u)
  <2>1. "addressLost" \in DOMAIN Types /\ lost \in Types.addressLost
    BY TypesOf
  <2> QED
    BY Zenon, Put, <2>1
<1>2. Same(u, d)
  BY SMT, TypesOf DEF Typed, Same, SamePlace, SameVendor, SameFlags, SamePhy, SameChannel
<1> QED
  BY <1>1, <1>2

LEMMA NodeAddressTyped ==
  ASSUME NEW d, Typed(d)
  PROVE  NodeAddress(d) \in Addresses \cup {NoAddress}
<1>1. d.unicast \in Addresses \cup {NoAddress} /\ d.alternate \in Addresses \cup {NoAddress}
  BY SMT, TypesOf DEF Typed
<1> QED
  BY <1>1 DEF NodeAddress

(* An address is written, or the write is dropped.                           *)
LEMMA NodeIdQueued ==
  ASSUME NEW mii, NEW page, NEW d, Ready(d, mii, page), ~d.closing, ~d.canUserTransfer
  PROVE  Good(QueueNodeId(d), mii, page)
<1> DEFINE e == [d EXCEPT !.addressLost = FALSE]
           request == Request("writeNodeId", NodeAddress(d))
           u == QueueControlTransfer(e, request)
<1>1. QueueNodeId(d) = u
  BY DEF QueueNodeId, CanQueueControlTransfer
<1>2. Typed(e) /\ Same(e, d)
  BY Zenon, LossSame DEF Ready
<1> HIDE DEF e
<1>3. Ready(e, mii, page) /\ ~e.closing /\ ~e.canUserTransfer
  BY <1>2, SameReady DEF Same, SamePlace, SameChannel
<1>4. request \in Requests
  BY NodeAddressTyped, RequestsTyped DEF Ready
<1>5. Queued(u, e, request)
  BY <1>2, <1>4, QueueFields
<1> HIDE DEF u
<1>6. Good(u, mii, page)
  BY <1>3, <1>4, <1>5, QueuedGood DEF Allowed
<1> QED
  BY <1>1, <1>6 DEF u

LEMMA NodeIdDropped ==
  ASSUME NEW mii, NEW page, NEW d, Good(d, mii, page), d.closing \/ d.canUserTransfer
  PROVE  Good(QueueNodeId(d), mii, page)
<1> DEFINE e == [d EXCEPT !.addressLost = TRUE]
<1>1. QueueNodeId(d) = e
  BY DEF QueueNodeId, CanQueueControlTransfer
<1>2. Typed(e) /\ Same(e, d)
  BY Zenon, LossSame DEF Good
<1> HIDE DEF e
<1> QED
  BY <1>1, <1>2, SameGood

LEMMA WriteNodeIdEntered ==
  ASSUME NEW mii, NEW page, NEW d, Open(d, mii, page)
  PROVE  Good(EnterWriteNodeId(d), mii, page)
<1> DEFINE e == At(d, InitWriteNodeId)
<1>1. Open(e, mii, page)
  BY AtOpen
<1> HIDE DEF e
<1>2. Good(QueueNodeId(e), mii, page)
  BY <1>1, BusyGood, NodeIdQueued, NodeIdDropped DEF Open
<1>3. Good(EnterReadPhyAddressRegister(e), mii, page)
  BY <1>1, ReadPhyAddressEntered
<1> QED
  BY <1>2, <1>3 DEF EnterWriteNodeId, e

LEMMA AddressesSame ==
  ASSUME NEW d, Typed(d), NEW unicast \in Addresses \cup {NoAddress},
         NEW alternate \in Addresses \cup {NoAddress}
  PROVE  /\ Typed([d EXCEPT !.unicast = unicast, !.alternate = alternate])
         /\ Same([d EXCEPT !.unicast = unicast, !.alternate = alternate], d)
<1> DEFINE u == [d EXCEPT !.unicast = unicast, !.alternate = alternate]
<1>1. Typed(u)
  <2>1. {"unicast", "alternate"} \subseteq DOMAIN Types
    BY Zenon, TypesOf
  <2>2. unicast \in Types.unicast /\ alternate \in Types.alternate
    BY TypesOf
  <2> QED
    BY Zenon, Put2, <2>1, <2>2
<1>2. Same(u, d)
  BY SMT, TypesOf DEF Typed, Same, SamePlace, SameVendor, SameFlags, SamePhy, SameChannel
<1> QED
  BY <1>1, <1>2

LEMMA WaitingForAddressEntered ==
  ASSUME NEW mii, NEW page, NEW d, Open(d, mii, page)
  PROVE  Good(EnterWaitingForEthernetAddress(d), mii, page)
<1> DEFINE a == At(d, InitWaitingForEthernetAddress)
           unicast == IF d.kernel.title # NoAddress THEN d.kernel.title ELSE a.unicast
           alternate == CASE ~Devkit -> NoAddress
                          [] Devkit /\ d.kernel.debug # NoAddress -> d.kernel.debug
                          [] OTHER -> a.alternate
           e == [a EXCEPT !.unicast = unicast, !.alternate = alternate]
<1>1. Open(a, mii, page) /\ a.initStage = InitWaitingForEthernetAddress
  BY AtOpen
<1>2. EnterWaitingForEthernetAddress(d) =
        IF e.unicast # NoAddress THEN EnterWriteNodeId(e) ELSE e
  BY DEF EnterWaitingForEthernetAddress
<1>3. Typed(a) /\ Typed(d)
  BY <1>1 DEF Open, Ready
<1> HIDE DEF a
<1>4. /\ a.unicast \in Addresses \cup {NoAddress} /\ a.alternate \in Addresses \cup {NoAddress}
      /\ d.kernel \in [title: Addresses \cup {NoAddress}, debug: Addresses \cup {NoAddress}]
  <2>1. a.unicast \in Addresses \cup {NoAddress} /\ a.alternate \in Addresses \cup {NoAddress}
    BY <1>3, SMT, TypesOf DEF Typed
  <2>2. "kernel" \in DOMAIN Types
    BY TypesOf
  <2>3. d.kernel \in Types.kernel
    BY Zenon, <1>3, <2>2 DEF Typed
  <2> QED
    BY <2>1, <2>3, TypesOf
<1>5. unicast \in Addresses \cup {NoAddress}
  BY <1>4
<1>6. alternate \in Addresses \cup {NoAddress}
  <2>1. d.kernel.debug \in Addresses \cup {NoAddress}
    BY <1>4
  <2>2. alternate \in {NoAddress, d.kernel.debug, a.alternate}
    BY Zenon
  <2> HIDE DEF alternate
  <2> QED
    BY <1>4, <2>1, <2>2
<1> HIDE DEF unicast, alternate
<1>7. Typed(e) /\ Same(e, a)
  BY Zenon, <1>3, <1>5, <1>6, AddressesSame
<1> HIDE DEF e
<1>8. Open(e, mii, page) /\ e.initStage = InitWaitingForEthernetAddress
  BY <1>1, <1>7, SameOpen DEF Same, SamePlace
<1>9. Good(EnterWriteNodeId(e), mii, page)
  BY <1>8, WriteNodeIdEntered
<1>10. Good(e, mii, page)
  BY <1>8, ReadyGood DEF Open, Live
<1> QED
  BY <1>2, <1>9, <1>10

(* The pauses.                                                               *)
LEMMA ReadNodeIdEntered ==
  ASSUME NEW mii, NEW page, NEW d, Ready(d, mii, page), ~d.closing, d.ledStep = "idle", ~d.refresh
  PROVE  Good(EnterReadNodeId(d), mii, page)
<1> DEFINE a == At(d, InitReadNodeId)
           e == [a EXCEPT !.timer = "none"]
<1>1. Moved(a, d, InitReadNodeId)
  BY AtMoves DEF Ready
<1> HIDE DEF a
<1>2. Timed(e, a, "none")
  BY <1>1, TimerSet DEF Moved
<1> HIDE DEF e
<1>3. Op(e) = Op(d) /\ (PhyBusy(e) <=> PhyBusy(d))
  BY <1>1, <1>2 DEF Moved, Timed, Op, PhyBusy, SameFlags, SameChannel
<1>4. Ready(e, mii, page)
  BY <1>1, <1>2, <1>3 DEF Ready, Bus, Paged, Moved, Timed, SameVendor, SameFlags, SamePhy, SameChannel
<1>5. ~e.closing /\ Allowed("readNodeId", e)
  BY <1>1, <1>2 DEF Moved, Timed, Allowed
<1>6. Request("readNodeId", "none") \in Requests
  BY RequestsTyped DEF InitOps
<1> QED
  BY <1>4, <1>5, <1>6, QueueOrDropGood DEF EnterReadNodeId, e, a

LEMMA PauseEntered ==
  ASSUME NEW mii, NEW page, NEW d, Open(d, mii, page)
  PROVE  Good(EnterPause(d), mii, page)
<1> DEFINE a == At(d, InitPause)
           u == [a EXCEPT !.timer = "advance"]
<1>1. Open(a, mii, page) /\ a.initStage = InitPause
  BY AtOpen
<1> HIDE DEF a
<1>2. Timed(u, a, "advance")
  BY <1>1, TimerSet DEF Open, Ready
<1> HIDE DEF u
<1>3. Op(u) = Op(a) /\ (PhyBusy(u) <=> PhyBusy(a))
  BY <1>2, OpOf DEF Timed
<1>4. Ready(u, mii, page)
  BY <1>1, <1>2, <1>3 DEF Open, Ready, Bus, Paged, Timed, SameVendor, SameFlags, SamePhy, SameChannel
<1>5. Live(u)
  BY <1>1, <1>2 DEF Live, Timed
<1> QED
  BY <1>4, <1>5, ReadyGood DEF EnterPause, u, a

LEMMA WriteGpioEntered ==
  ASSUME NEW mii, NEW page, NEW d, Open(d, mii, page)
  PROVE  Good(EnterWriteGpio(d), mii, page)
<1>1. Open(At(d, InitWriteGpio), mii, page) /\ At(d, InitWriteGpio).initStage = InitWriteGpio
  BY AtOpen
<1>2. Request("gpio", "none") \in Requests
  BY RequestsTyped DEF InitOps
<1> QED
  BY <1>1, <1>2, QueueOrDropGood DEF EnterWriteGpio, Open, Allowed

LEMMA ReadEepromEntered ==
  ASSUME NEW mii, NEW page, NEW d, Open(d, mii, page)
  PROVE  Good(EnterReadEepromConfig(d), mii, page)
<1> DEFINE e == At(d, InitReadEepromConfig)
           g == EnterWriteGpio(e)
<1>1. Open(e, mii, page) /\ e.initStage = InitReadEepromConfig
  BY AtOpen
<1> HIDE DEF e
<1>2. Good(g, mii, page)
  BY <1>1, WriteGpioEntered
<1> HIDE DEF g
<1>3. Good(BeginEepromConfig(e, TRUE, g), mii, page)
  BY <1>1, <1>2, EepromBegun
<1> QED
  BY <1>3 DEF EnterReadEepromConfig, g, e

-----------------------------------------------------------------------------
(* Init advances, from whatever stage.                                       *)
LEMMA AdvanceGood ==
  ASSUME NEW mii, NEW page, NEW d, Ready(d, mii, page), d.closing \/ d.initStage # InitComplete
  PROVE  Good(AdvanceInitStage(d), mii, page)
<1> DEFINE u == AdvanceInitStage(d)
<1>1. CASE d.closing
  <2>1. u = At(d, InitComplete)
    BY <1>1 DEF AdvanceInitStage, Advance
  <2> QED
    BY <1>1, <2>1, AtClosing
<1>2. CASE ~d.closing
  <2>1. d.initStage \in InitBeginning .. InitStartReceiving
    <3>1. d.initStage \in InitStages
      BY Fields DEF Ready
    <3> QED
      BY <1>2, <3>1
  <2>2. d.ledStep = "idle" /\ ~d.refresh
    BY <1>2 DEF Ready
  <2>3. d.initStage = InitPause => u = EnterReadNodeId(d)
    BY <1>2 DEF AdvanceInitStage, Advance
  <2>4. CASE d.initStage = InitPause
    BY <1>2, <2>2, <2>3, <2>4, ReadNodeIdEntered
  <2>5. CASE d.initStage # InitPause
    <3>1. Open(d, mii, page)
      BY <1>2, <2>2, <2>5 DEF Open, Ready
    <3>2. /\ Good(EnterReadEepromConfig(d), mii, page)
          /\ Good(EnterWriteGpio(d), mii, page)
          /\ Good(EnterPause(d), mii, page)
          /\ Good(EnterWaitingForEthernetAddress(d), mii, page)
          /\ Good(EnterWriteNodeId(d), mii, page)
          /\ Good(EnterReadPhyAddressRegister(d), mii, page)
          /\ Good(EnterWaitPhyReady(d), mii, page)
          /\ Good(EnterReadPhyRegisters(d), mii, page)
          /\ Good(EnterWriteMediumStatus(d), mii, page)
          /\ Good(EnterWriteMiiControl(d), mii, page)
          /\ Good(EnterWritePhyAnar(d), mii, page)
          /\ Good(EnterVendor(d), mii, page)
          /\ Good(EnterWritePhyControl(d), mii, page)
          /\ Good(EnterWriteIpg(d), mii, page)
          /\ Good(EnterStartReceiving(d), mii, page)
          /\ Good(EnterComplete(d), mii, page)
      BY <3>1, ReadEepromEntered, WriteGpioEntered, PauseEntered, WaitingForAddressEntered,
         WriteNodeIdEntered, ReadPhyAddressEntered, WaitPhyReadyEntered, ReadPhyRegistersEntered,
         WriteMediumStatusEntered, WriteMiiControlEntered, WritePhyAnarEntered, VendorEntered,
         WritePhyControlEntered, WriteIpgEntered, StartReceivingEntered, CompleteEntered
    <3>3. u \in {EnterReadEepromConfig(d), EnterWriteGpio(d), EnterPause(d),
                 EnterWaitingForEthernetAddress(d), EnterWriteNodeId(d),
                 EnterReadPhyAddressRegister(d), EnterWaitPhyReady(d), EnterReadPhyRegisters(d),
                 EnterWriteMediumStatus(d), EnterWriteMiiControl(d), EnterWritePhyAnar(d),
                 EnterVendor(d), EnterWritePhyControl(d), EnterWriteIpg(d),
                 EnterStartReceiving(d), EnterComplete(d)}
      BY <1>2, <2>1, <2>5 DEF AdvanceInitStage, Advance
    <3> HIDE DEF u
    <3>4. Good(u, mii, page)
      BY <3>2, <3>3
    <3> QED
      BY <3>4 DEF u
  <2> QED
    BY <2>4, <2>5
<1> QED
  BY <1>1, <1>2

LEMMA UnlessCompleteGood ==
  ASSUME NEW mii, NEW page, NEW d, Ready(d, mii, page)
  PROVE  Good(AdvanceUnlessComplete(d), mii, page)
  BY AdvanceGood, ReadyGood DEF AdvanceUnlessComplete, Live

-----------------------------------------------------------------------------
(* The fields the invariant does not relate to others.                       *)

Related ==
  { "closing", "initStage", "timer", "retryPending", "nodeIdFailed", "configInitial",
    "filterStep", "patching", "realtekStep", "realtekFailed", "pageLost", "ledStep", "refresh",
    "phyRead", "phyWrite", "serial", "phyRegister", "phyValue", "canUserTransfer", "request" }

Loose == DOMAIN Types \ Related

LEMMA LooseFields ==
  { "linkState", "told", "notify", "refreshPending", "authoritative", "linkPending", "phyLink",
    "interrupt", "lastLed", "retries", "patchIndex", "patchFailed", "eepromValid", "configStep",
    "addressLost", "readAll", "hash", "hashLost", "filterPending", "pendingFilter", "running",
    "submitRing", "filter", "unicast", "alternate" } \subseteq Loose
  BY TypesOf DEF Loose, Related

LEMMA LooseSame ==
  ASSUME NEW d, Typed(d), NEW f \in Loose, NEW v \in Types[f]
  PROVE  Typed([d EXCEPT ![f] = v]) /\ Same([d EXCEPT ![f] = v], d)
<1>1. f \in DOMAIN Types
  BY DEF Loose
<1>2. Typed([d EXCEPT ![f] = v])
  BY Zenon, <1>1, Put
<1>3. f \notin Related
  BY DEF Loose
<1>4. d = [field \in DOMAIN Types |-> d[field]]
  BY DEF Typed
<1>5. /\ SamePlace([d EXCEPT ![f] = v], d) /\ SameVendor([d EXCEPT ![f] = v], d)
  BY SMT, <1>3, <1>4, TypesOf DEF Related, SamePlace, SameVendor
<1>6. /\ SameFlags([d EXCEPT ![f] = v], d) /\ SamePhy([d EXCEPT ![f] = v], d)
      /\ SameChannel([d EXCEPT ![f] = v], d)
  BY SMT, <1>3, <1>4, TypesOf DEF Related, SameFlags, SamePhy, SameChannel
<1> QED
  BY Zenon, <1>2, <1>5, <1>6 DEF Same

LEMMA SameSame ==
  ASSUME NEW u, NEW d, NEW e, Same(u, d), Same(d, e)
  PROVE  Same(u, e)
  BY DEF Same, SamePlace, SameVendor, SameFlags, SamePhy, SameChannel

LEMMA LooseSame2 ==
  ASSUME NEW d, Typed(d), NEW f \in Loose, NEW v \in Types[f], NEW g \in Loose, NEW w \in Types[g]
  PROVE  /\ Typed([d EXCEPT ![f] = v, ![g] = w])
         /\ Same([d EXCEPT ![f] = v, ![g] = w], d)
<1> DEFINE u == [d EXCEPT ![f] = v]
<1>1. Typed(u) /\ Same(u, d)
  BY Zenon, LooseSame
<1> HIDE DEF u
<1>2. Typed([u EXCEPT ![g] = w]) /\ Same([u EXCEPT ![g] = w], u)
  BY Zenon, <1>1, LooseSame
<1>3. [d EXCEPT ![f] = v, ![g] = w] = [u EXCEPT ![g] = w]
  BY DEF u
<1> QED
  BY Zenon, <1>1, <1>2, <1>3, SameSame

LEMMA LooseSame3 ==
  ASSUME NEW d, Typed(d), NEW f \in Loose, NEW v \in Types[f], NEW g \in Loose, NEW w \in Types[g],
         NEW h \in Loose, NEW x \in Types[h]
  PROVE  /\ Typed([d EXCEPT ![f] = v, ![g] = w, ![h] = x])
         /\ Same([d EXCEPT ![f] = v, ![g] = w, ![h] = x], d)
<1> DEFINE u == [d EXCEPT ![f] = v, ![g] = w]
<1>1. Typed(u) /\ Same(u, d)
  BY Zenon, LooseSame2
<1> HIDE DEF u
<1>2. Typed([u EXCEPT ![h] = x]) /\ Same([u EXCEPT ![h] = x], u)
  BY Zenon, <1>1, LooseSame
<1>3. [d EXCEPT ![f] = v, ![g] = w, ![h] = x] = [u EXCEPT ![h] = x]
  BY DEF u
<1> QED
  BY Zenon, <1>1, <1>2, <1>3, SameSame

-----------------------------------------------------------------------------
(* The link state and the LED.                                               *)

LEMMA MediumGood ==
  ASSUME NEW mii, NEW page, NEW d, Ready(d, mii, page)
  PROVE  Good(WriteMediumStatus(d), mii, page)
<1>1. CASE CanQueueControlTransfer(d)
  <2>1. Request("medium", "none") \in Requests
    BY RequestsTyped
  <2>2. ~d.closing
    BY <1>1 DEF CanQueueControlTransfer
  <2> QED
    BY <1>1, <2>1, <2>2, QueueOrDropGood DEF WriteMediumStatus, Allowed
<1>2. CASE ~CanQueueControlTransfer(d)
  BY <1>2, UnlessCompleteGood DEF WriteMediumStatus
<1> QED
  BY <1>1, <1>2

LEMMA LinkStateGood ==
  ASSUME NEW mii, NEW page, NEW d, Ready(d, mii, page)
  PROVE  Good(UpdateLinkState(d), mii, page)
<1> DEFINE interruptRules == d.interrupt # "none" /\ d.authoritative
           up  == IF interruptRules THEN d.interrupt = "up" ELSE ~d.closing /\ d.phyLink = "up"
           new == IF up THEN "up" ELSE "down"
           n   == [d EXCEPT !.linkState = new, !.notify = TRUE]
           e   == IF d.linkState # new THEN WriteMediumStatus(n) ELSE AdvanceUnlessComplete(d)
           u   == [e EXCEPT !.refreshPending = FALSE, !.authoritative = FALSE]
<1>1. UpdateLinkState(d) = u
  BY Zenon DEF UpdateLinkState
<1>2. new \in {"down", "up"}
  OBVIOUS
<1> HIDE DEF new
<1>3. Typed(n) /\ Same(n, d)
  <2>1. {"linkState", "notify"} \subseteq Loose
    BY LooseFields
  <2>2. new \in Types.linkState /\ TRUE \in Types.notify
    BY <1>2, TypesOf
  <2>3. Typed(d)
    BY DEF Ready
  <2> QED
    BY Zenon, <2>1, <2>2, <2>3, LooseSame2
<1> HIDE DEF n
<1>4. Ready(n, mii, page)
  BY <1>3, SameReady
<1>5. Good(e, mii, page)
  BY <1>4, MediumGood, UnlessCompleteGood
<1> HIDE DEF e
<1>6. Typed(u) /\ Same(u, e)
  <2>1. {"refreshPending", "authoritative"} \subseteq Loose
    BY LooseFields
  <2>2. FALSE \in Types.refreshPending /\ FALSE \in Types.authoritative
    BY TypesOf
  <2>3. Typed(e)
    BY <1>5 DEF Good
  <2> QED
    BY Zenon, <2>1, <2>2, <2>3, LooseSame2
<1> HIDE DEF u
<1>7. Good(u, mii, page)
  BY <1>5, <1>6, SameGood
<1> QED
  BY <1>1, <1>7

(* The step of the LED's read and write.                                     *)
LedAt(u, d, step) ==
  /\ Typed(u) /\ SamePlace(u, d) /\ SameFlags(u, d) /\ SamePhy(u, d) /\ SameChannel(u, d)
  /\ u.patching = d.patching /\ u.realtekStep = d.realtekStep
  /\ u.realtekFailed = d.realtekFailed /\ u.pageLost = d.pageLost /\ u.refresh = d.refresh
  /\ u.ledStep = step

LEMMA LedSet ==
  ASSUME NEW d, Typed(d), NEW step \in {"idle", "read", "write"}
  PROVE  LedAt([d EXCEPT !.ledStep = step], d, step)
<1> DEFINE u == [d EXCEPT !.ledStep = step]
<1>1. Typed(u)
  <2>1. "ledStep" \in DOMAIN Types /\ step \in Types.ledStep
    BY TypesOf
  <2> QED
    BY Zenon, Put, <2>1
<1>2. SamePlace(u, d) /\ SameFlags(u, d) /\ SamePhy(u, d) /\ SameChannel(u, d)
  BY SMT, TypesOf DEF Typed, SamePlace, SameFlags, SamePhy, SameChannel
<1>3. /\ u.patching = d.patching /\ u.realtekStep = d.realtekStep
      /\ u.realtekFailed = d.realtekFailed /\ u.pageLost = d.pageLost /\ u.refresh = d.refresh
      /\ u.ledStep = step
  BY SMT, TypesOf DEF Typed
<1> HIDE DEF u
<1>4. LedAt(u, d, step)
  BY <1>1, <1>2, <1>3 DEF LedAt
<1> QED
  BY <1>4 DEF u

LEMMA LedAtGood ==
  ASSUME NEW mii, NEW page, NEW d, NEW u, NEW step, Good(d, mii, page), LedAt(u, d, step),
         step = "idle" \/ d.initStage = InitComplete
  PROVE  Good(u, mii, page)
<1>1. Op(u) = Op(d) /\ (PhyBusy(u) <=> PhyBusy(d))
  BY OpOf DEF LedAt
<1> QED
  BY <1>1 DEF Good, Bus, OfStage, Staged, Live, Paged, LedAt, SamePlace, SameFlags, SamePhy,
              SameChannel

(* A transaction is begun or refused, on any device.                         *)
LEMMA RefusedGood ==
  ASSUME NEW mii, NEW page, NEW d, NEW u, Good(d, mii, page), Refused(u, d)
  PROVE  Good(u, mii, page)
<1>1. Op(u) = Op(d) /\ (PhyBusy(u) <=> PhyBusy(d))
  BY OpOf DEF Refused
<1>2. ~d.closing => Paged(u, page)
  BY <1>1 DEF Good, Paged, Refused, SameVendor, SameFlags, SamePhy, PhyBusy
<1> QED
  BY <1>1, <1>2 DEF Good, Bus, OfStage, Staged, Live, Refused, SamePlace, SameVendor, SameFlags,
                    SameChannel

LEMMA AnyRead ==
  ASSUME NEW mii, NEW page, NEW d, NEW register \in Nat, Good(d, mii, page)
  PROVE  /\ Good(BeginReadPhy(d, register), mii, page)
         /\ SamePlace(BeginReadPhy(d, register), d)
<1>1. Typed(d)
  BY DEF Good
<1>2. CASE CanBeginPhy(d)
  <2>1. ~d.canUserTransfer /\ ~d.closing
    BY <1>2 DEF CanBeginPhy, CanQueueControlTransfer
  <2>2. Ready(d, mii, page)
    BY <2>1, GoodReadyFree
  <2>3. Free(d) /\ ~d.serial /\ PageRead(d, page)
    BY <2>1, <2>2, ReadyFree
  <2> QED
    BY <1>1, <1>2, <2>3, BeginReadGood, BeginReadBegun DEF BegunRead
<1>3. CASE ~CanBeginPhy(d)
  BY <1>1, <1>3, BeginReadRefused, RefusedGood DEF Refused
<1> QED
  BY <1>2, <1>3

LEMMA AnyReadAll ==
  ASSUME NEW mii, NEW page, NEW d, Good(d, mii, page)
  PROVE  /\ Good(BeginReadAllPhy(d), mii, page)
         /\ SamePlace(BeginReadAllPhy(d), d)
<1> DEFINE b == BeginReadPhy(d, 0)
           u == [b EXCEPT !.readAll = TRUE]
<1>1. Good(b, mii, page) /\ SamePlace(b, d)
  BY AnyRead
<1> HIDE DEF b
<1>2. Typed(u) /\ Same(u, b)
  BY Zenon, <1>1, ReadAllSame DEF Good
<1> HIDE DEF u
<1>3. Good(u, mii, page) /\ SamePlace(u, d)
  BY <1>1, <1>2, SameGood DEF Same, SamePlace
<1> QED
  BY <1>1, <1>3 DEF BeginReadAllPhy, u, b

LEMMA MarvellLedGood ==
  ASSUME NEW mii, NEW page, NEW d, Ready(d, mii, page), d.initStage = InitComplete
  PROVE  Good(UpdateMarvellLed(d), mii, page)
<1> DEFINE b == BeginReadPhy(d, PhyRegisterLed)
           step == IF CanBeginPhy(d) THEN "read" ELSE "idle"
           l == [b EXCEPT !.lastLed = TRUE]
           u == [l EXCEPT !.ledStep = step]
<1>1. Good(d, mii, page)
  BY ReadyGood DEF Live
<1>2. Good(b, mii, page) /\ b.initStage = InitComplete
  BY <1>1, AnyRead DEF PhyRegisterLed, SamePlace
<1>3. step \in {"idle", "read", "write"}
  OBVIOUS
<1>4. UpdateMarvellLed(d) = u \/ UpdateMarvellLed(d) = d
  BY DEF UpdateMarvellLed
<1> HIDE DEF b, step
<1>5. Typed(l) /\ Same(l, b)
  <2>1. "lastLed" \in Loose /\ TRUE \in Types.lastLed
    BY LooseFields, TypesOf
  <2>2. Typed(b)
    BY <1>2 DEF Good
  <2> QED
    BY Zenon, <2>1, <2>2, LooseSame
<1> HIDE DEF l
<1>6. Good(l, mii, page) /\ l.initStage = InitComplete
  BY <1>2, <1>5, SameGood DEF Same, SamePlace
<1>7. LedAt(u, l, step)
  BY Zenon, <1>3, <1>5, LedSet
<1> HIDE DEF u
<1>8. Good(u, mii, page)
  BY <1>6, <1>7, LedAtGood
<1> QED
  BY <1>1, <1>4, <1>8
-----------------------------------------------------------------------------
(* The end of a PHY transaction.                                             *)

LEMMA FreeReady ==
  ASSUME NEW mii, NEW page, NEW d, Free(d), ~d.serial,
         ~d.closing => /\ ~d.patching /\ d.realtekStep = "idle"
                       /\ PageAfter(d, page)
  PROVE  Ready(d, mii, page)
<1>1. Op(d) = "none" /\ ~PhyBusy(d)
  BY OpNone DEF Free, PhyBusy
<1>2. Bus(d, mii) /\ Op(d) \notin InitOps
  BY <1>1 DEF Bus, Free, InitOps
<1>3. ~d.closing => Paged(d, page)
  BY <1>1 DEF Paged, PageAfter, Free, Restores
<1> QED
  BY <1>1, <1>2, <1>3 DEF Ready, Free

LEMMA SamePageAfter ==
  ASSUME NEW page, NEW d, NEW u, PageAfter(d, page), SameVendor(u, d)
  PROVE  PageAfter(u, page)
  BY DEF PageAfter, SameVendor

LEMMA WaitPhyReadyFinished ==
  ASSUME NEW mii, NEW page, NEW d, NEW ok \in BOOLEAN, Ready(d, mii, page),
         d.initStage = InitWaitPhyReady
  PROVE  Good(FinishWaitPhyReady(d, ok), mii, page)
<1> DEFINE n == [d EXCEPT !.retries = d.retries + 1]
           e == [d EXCEPT !.retryPending = FALSE]
           ready == ok /\ d.phyValue = "identifier"
<1>1. Typed(d)
  BY DEF Ready
<1>2. ASSUME d.retries < PhyReadyRetryLimit
      PROVE  Good(RetryPhyReadyLater(n), mii, page)
  <2>1. d.retries \in 0 .. PhyReadyRetryLimit
    BY <1>1, SMT, TypesOf DEF Typed
  <2>2. d.retries + 1 \in Types.retries
    BY <1>2, <2>1, TypesOf DEF Ax88178Assumption
  <2>3. Typed(n) /\ Same(n, d)
    BY Zenon, <1>1, <2>2, LooseFields, LooseSame
  <2> HIDE DEF n
  <2> QED
    BY <2>3, SameReady, RetryGood DEF Same, SamePlace
<1>3. Good(AdvanceInitStage(e), mii, page)
  <2>1. Retried(e, d, FALSE)
    BY Zenon, <1>1, RetrySet
  <2> HIDE DEF e
  <2>2. Ready(e, mii, page) /\ e.initStage = InitWaitPhyReady
    BY <2>1, RetriedReady DEF Retried
  <2> QED
    BY <2>2, AdvanceGood
<1>4. FinishWaitPhyReady(d, ok) =
        IF ~ready /\ d.retries < PhyReadyRetryLimit
        THEN RetryPhyReadyLater(n) ELSE AdvanceInitStage(e)
  BY DEF FinishWaitPhyReady
<1> HIDE DEF n, e, ready
<1> QED
  BY <1>2, <1>3, <1>4

(* A patch is over, or dropped.                                              *)
LEMMA PatchEnded ==
  ASSUME NEW mii, NEW page, NEW d, Free(d), ~d.serial, d.patching, ~d.closing => PageAfter(d, page)
  PROVE  /\ Ready(EndPatch(d), mii, page)
         /\ EndPatch(d).closing \/ EndPatch(d).initStage # InitComplete
<1> DEFINE u == EndPatch(d)
<1>1. Patched(u, d, FALSE)
  BY Zenon, PatchSet DEF EndPatch, Free
<1> HIDE DEF u
<1>2. Free(u) /\ ~u.serial
  BY <1>1 DEF Free, Patched, SamePlace, SameFlags, SameChannel
<1>3. ~u.closing => /\ ~u.patching /\ u.realtekStep = "idle"
                    /\ PageAfter(u, page)
  BY <1>1 DEF Free, Patched, SamePlace, PageAfter
<1>4. Ready(u, mii, page)
  BY <1>2, <1>3, FreeReady
<1>5. u.closing \/ u.initStage # InitComplete
  BY <1>1 DEF Free, Patched, SamePlace
<1> QED
  BY <1>4, <1>5 DEF u

LEMMA PatchWriteFinished ==
  ASSUME NEW mii, NEW page, NEW d, NEW ok \in BOOLEAN, Free(d), ~d.serial, d.patching,
         ~d.closing => PageAfter(d, page)
  PROVE  Good(FinishPatchWrite(d, ok), mii, page)
<1> DEFINE e == [d EXCEPT !.patchIndex = d.patchIndex + 1]
<1>1. Typed(d)
  BY DEF Free
<1>2. d.patchIndex \in 0 .. PatchCount - 1
  BY <1>1, SMT, TypesOf DEF Typed
<1>3. e.patchIndex = d.patchIndex + 1
  BY <1>1, SMT, TypesOf DEF Typed
<1>4. ASSUME e.patchIndex < PatchCount, CanBeginPhy(e)
      PROVE  Good(QueueNextPhyPatch(e), mii, page)
  <2>1. d.patchIndex + 1 \in Types.patchIndex
    BY <1>2, <1>3, <1>4, TypesOf DEF Ax88178Assumption
  <2>2. Typed(e) /\ Same(e, d)
    BY Zenon, <1>1, <2>1, LooseFields, LooseSame
  <2> HIDE DEF e
  <2>3. Free(e) /\ ~e.serial /\ ~e.closing
    BY <1>4, <2>2, SameFree, FreeBegins DEF Same, SameFlags
  <2>4. e.realtekStep = "idle" /\ PageAfter(e, page)
    BY <2>2, <2>3, SamePageAfter DEF Free, Same, SamePlace, SameVendor
  <2>5. UsersLeavePage /\ ~e.pageLost => page = "zero"
    BY <2>4 DEF PageAfter
  <2> QED
    BY <1>4, <2>3, <2>4, <2>5, PatchQueued
<1>5. Good(AdvanceInitStage(EndPatch(d)), mii, page)
  BY PatchEnded, AdvanceGood
<1>6. FinishPatchWrite(d, ok) =
        IF ok /\ ~d.patchFailed /\ e.patchIndex < PatchCount /\ CanBeginPhy(e)
        THEN QueueNextPhyPatch(e) ELSE AdvanceInitStage(EndPatch(d))
  BY DEF FinishPatchWrite
<1> HIDE DEF e
<1> QED
  BY <1>4, <1>5, <1>6

LEMMA RealtekStepFinished ==
  ASSUME NEW mii, NEW page, NEW d, Free(d), ~d.serial, d.initStage = InitVendor,
         ~d.closing => ~d.patching /\ PageAfter(d, page)
  PROVE  Good(FinishRealtekStep(d), mii, page)
<1> DEFINE next == CASE ~d.realtekFailed -> RealtekStepAfter(d)
                     [] d.realtekFailed
                          /\ d.realtekStep \in {"clear", "read", "set", "ledPage", "led"} ->
                          "restoreFailure"
                     [] OTHER -> "idle"
           e == [d EXCEPT !.realtekStep = next, !.realtekFailed = FALSE]
           i == [e EXCEPT !.realtekStep = "idle"]
           j == [d EXCEPT !.realtekStep = "idle", !.realtekFailed = FALSE]
<1>1. Typed(d)
  BY DEF Free
<1>2. RealtekStepAfter(d) \in RealtekSteps \cup {"idle"}
  BY DEF RealtekStepAfter, RealtekSteps
<1>3. next \in RealtekSteps \cup {"idle"}
  BY <1>2 DEF RealtekSteps
<1>4. FinishRealtekStep(d) =
        IF next # "idle" /\ CanBeginPhy(e) THEN QueueRealtekPhyInitStep(e) ELSE AdvanceInitStage(i)
  BY DEF FinishRealtekStep
<1>5. next = "idle" => d.realtekStep \in Restores \cup {"page5", "idle"}
  BY <1>1, Fields DEF RealtekStepAfter, Restores, RealtekSteps
<1>6. next = "idle" /\ d.realtekStep = "page5" => d.realtekFailed
  BY DEF RealtekStepAfter
<1> HIDE DEF next
<1>7. i = j
  BY <1>1 DEF Typed
<1>8. Stepped(e, d, next)
  BY Zenon, <1>1, <1>3, StepSet
<1>9. Stepped(j, d, "idle")
  BY Zenon, <1>1, StepSet
<1> HIDE DEF e, i, j
<1>10. Free(e) /\ ~e.serial
  BY <1>8 DEF Free, Stepped, SamePlace, SameFlags, SameChannel
<1>11. ASSUME next # "idle", CanBeginPhy(e)
       PROVE  Good(QueueRealtekPhyInitStep(e), mii, page)
  BY <1>8, <1>10, <1>11, RealtekQueued DEF Stepped
<1>12. ASSUME ~(next # "idle" /\ CanBeginPhy(e))
       PROVE  Good(AdvanceInitStage(j), mii, page)
  <2>1. e.closing = d.closing /\ j.closing = d.closing /\ j.initStage = InitVendor
    BY <1>8, <1>9 DEF Stepped, SamePlace
  <2>2. ~d.closing => next = "idle"
    BY <1>10, <1>12, <2>1, FreeBegins
  <2>3. ~d.closing => PageAfter(j, page)
    BY <1>5, <1>6, <1>9, <2>2 DEF PageAfter, Stepped
  <2>4. Free(j) /\ ~j.serial /\ (~d.closing => ~j.patching) /\ j.realtekStep = "idle"
    BY <1>9 DEF Free, Stepped, SamePlace, SameFlags, SameChannel
  <2>5. Ready(j, mii, page)
    BY <2>1, <2>3, <2>4, FreeReady
  <2> QED
    BY <2>1, <2>5, AdvanceGood
<1> QED
  BY <1>4, <1>7, <1>11, <1>12

(* A refresh is no longer due.                                               *)
Refreshed(u, d) ==
  /\ Typed(u) /\ SamePlace(u, d) /\ SameFlags(u, d) /\ SamePhy(u, d) /\ SameChannel(u, d)
  /\ u.patching = d.patching /\ u.realtekStep = d.realtekStep
  /\ u.realtekFailed = d.realtekFailed /\ u.pageLost = d.pageLost /\ u.ledStep = d.ledStep
  /\ ~u.refresh

LEMMA RefreshSet ==
  ASSUME NEW d, Typed(d)
  PROVE  Refreshed([d EXCEPT !.refresh = FALSE], d)
<1> DEFINE u == [d EXCEPT !.refresh = FALSE]
<1>1. Typed(u)
  BY Zenon, Put, TypesOf
<1>2. SamePlace(u, d) /\ SameFlags(u, d) /\ SamePhy(u, d) /\ SameChannel(u, d)
  BY SMT, TypesOf DEF Typed, SamePlace, SameFlags, SamePhy, SameChannel
<1>3. /\ u.patching = d.patching /\ u.realtekStep = d.realtekStep
      /\ u.realtekFailed = d.realtekFailed /\ u.pageLost = d.pageLost /\ u.ledStep = d.ledStep
      /\ ~u.refresh
  BY SMT, TypesOf DEF Typed
<1> HIDE DEF u
<1>4. Refreshed(u, d)
  BY <1>1, <1>2, <1>3 DEF Refreshed
<1> QED
  BY <1>4 DEF u

LEMMA RefreshedReady ==
  ASSUME NEW mii, NEW page, NEW d, NEW u, Ready(d, mii, page), Refreshed(u, d)
  PROVE  Ready(u, mii, page)
<1>1. Op(u) = Op(d) /\ (PhyBusy(u) <=> PhyBusy(d))
  BY OpOf DEF Refreshed
<1> QED
  BY <1>1 DEF Ready, Bus, Paged, Refreshed, SamePlace, SameFlags, SamePhy, SameChannel

LEMMA LinkReadFinished ==
  ASSUME NEW mii, NEW page, NEW d, Ready(d, mii, page), ~d.canUserTransfer
  PROVE  Good(FinishLinkRead(d), mii, page)
<1> DEFINE r == [d EXCEPT !.refresh = FALSE]
           u == [d EXCEPT !.refresh = FALSE, !.linkPending = FALSE]
           l == [r EXCEPT !.linkPending = FALSE]
           b == BeginReadAllPhy(r)
<1>1. Refreshed(r, d)
  BY Zenon, RefreshSet DEF Ready
<1>2. u = l
  OBVIOUS
<1>3. \/ d.refresh /\ (CanBeginPhy(r) \/ ~d.linkPending) /\ FinishLinkRead(d) = b
      \/ FinishLinkRead(d) = AdvanceUnlessComplete(d)
      \/ FinishLinkRead(d) = UpdateLinkState(u)
  BY Zenon DEF FinishLinkRead
<1> HIDE DEF r, u
<1>4. Ready(r, mii, page)
  BY <1>1, RefreshedReady
<1>5. Typed(l) /\ Same(l, r)
  <2>1. "linkPending" \in Loose /\ FALSE \in Types.linkPending
    BY LooseFields, TypesOf
  <2> QED
    BY Zenon, <1>1, <2>1, LooseSame DEF Refreshed
<1> HIDE DEF l
<1>6. Good(UpdateLinkState(u), mii, page)
  BY <1>2, <1>4, <1>5, SameReady, LinkStateGood
<1>7. Good(AdvanceUnlessComplete(d), mii, page)
  BY UnlessCompleteGood
<1>8. d.refresh => Good(b, mii, page)
  <2>1. d.refresh => r.closing \/ r.initStage = InitComplete
    BY <1>1 DEF Ready, Refreshed, SamePlace
  <2>2. d.refresh => Good(r, mii, page)
    BY <1>4, <2>1, ReadyGood DEF Live
  <2> QED
    BY <2>2, AnyReadAll
<1> HIDE DEF b
<1> QED
  BY <1>3, <1>6, <1>7, <1>8

LEMMA LedOrLinkFinished ==
  ASSUME NEW mii, NEW page, NEW d, Free(d), ~d.serial,
         ~d.closing => ~d.patching /\ PageAfter(d, page)
  PROVE  Good(FinishLedOrLink(d), mii, page)
<1> DEFINE w == [d EXCEPT !.ledStep = "write"]
           i == [d EXCEPT !.ledStep = "idle"]
           u == FinishLedOrLink(d)
<1>1. \/ d.ledStep = "read" /\ CanBeginPhy(w) /\ u = BeginWritePhy(w, PhyRegisterLed, "other")
      \/ d.ledStep = "write" /\ u = i
      \/ d.initStage = InitVendor /\ d.realtekStep # "idle" /\ u = FinishRealtekStep(i)
      \/ ~(d.initStage = InitVendor /\ d.realtekStep # "idle") /\ u = FinishLinkRead(i)
  BY Zenon DEF FinishLedOrLink
<1>2. Typed(d)
  BY DEF Free
<1>3. LedAt(w, d, "write") /\ LedAt(i, d, "idle")
  BY Zenon, <1>2, LedSet
<1> HIDE DEF u, w, i
<1>4. Free(i) /\ ~i.serial /\ i.closing = d.closing /\ i.initStage = d.initStage
      /\ i.realtekStep = d.realtekStep
  BY <1>3 DEF Free, LedAt, SamePlace, SameFlags, SameChannel
<1>5. ~d.closing => PageAfter(i, page) /\ ~i.patching
  BY <1>3 DEF LedAt, PageAfter
<1>6. ASSUME ~d.closing => d.realtekStep = "idle"
      PROVE  Ready(i, mii, page) /\ ~i.canUserTransfer
  BY <1>4, <1>5, <1>6, FreeReady DEF Free
<1>7. ASSUME d.ledStep = "read", CanBeginPhy(w)
      PROVE  Good(BeginWritePhy(w, PhyRegisterLed, "other"), mii, page)
  <2>1. ~d.closing
    BY <1>3, <1>7 DEF CanBeginPhy, CanQueueControlTransfer, LedAt, SamePlace
  <2>2. d.initStage = InitComplete /\ d.realtekStep = "idle"
    BY <1>7, <2>1 DEF Free
  <2>3. Free(w) /\ ~w.serial
    BY <1>3, <2>1, <2>2 DEF Free, LedAt, SamePlace, SameFlags, SameChannel
  <2>4. PageWrite(w, PhyRegisterLed, "other", page)
    BY <1>3, <2>1, <2>2 DEF PageWrite, PageAfter, LedAt, PhyRegisterLed, PhyRegisterPage, Restores
  <2>5. PhyRegisterLed \in Nat /\ "other" \in PhyValues
    BY DEF PhyRegisterLed, PhyValues
  <2> QED
    BY <1>7, <2>3, <2>4, <2>5, BeginWriteGood
<1>8. ASSUME d.ledStep = "write"
      PROVE  Good(i, mii, page)
  <2>1. ~d.closing => d.initStage = InitComplete /\ d.realtekStep = "idle"
    BY <1>8 DEF Free
  <2> QED
    BY <1>4, <1>6, <2>1, ReadyGood DEF Live
<1>9. ASSUME d.initStage = InitVendor, d.realtekStep # "idle"
      PROVE  Good(FinishRealtekStep(i), mii, page)
  BY <1>4, <1>5, <1>9, RealtekStepFinished
<1>10. ASSUME ~(d.initStage = InitVendor /\ d.realtekStep # "idle")
       PROVE  Good(FinishLinkRead(i), mii, page)
  <2>1. ~d.closing => d.realtekStep = "idle"
    BY <1>10 DEF Free
  <2> QED
    BY <1>6, <2>1, LinkReadFinished
<1>11. Good(u, mii, page)
  BY <1>1, <1>7, <1>8, <1>9, <1>10
<1> QED
  BY <1>11 DEF u

LEMMA PhyTransactionFinished ==
  ASSUME NEW mii, NEW page, NEW d, NEW ok \in BOOLEAN, Free(d), ~d.closing => PageAfter(d, page)
  PROVE  Good(FinishPhyTransaction(d, ok), mii, page)
<1> DEFINE e == [d EXCEPT !.serial = FALSE]
           u == FinishPhyTransaction(d, ok)
<1>1. Typed(e)
  BY Zenon, Put, TypesOf DEF Free
<1>2. /\ SamePlace(e, d) /\ SameVendor(e, d) /\ SameChannel(e, d)
      /\ e.phyRead = d.phyRead /\ e.phyWrite = d.phyWrite /\ ~e.serial
  BY SMT, TypesOf DEF Free, Typed, SamePlace, SameVendor, SameChannel
<1>3. \/ e.initStage = InitWaitPhyReady /\ u = FinishWaitPhyReady(e, ok)
      \/ e.initStage # InitWaitPhyReady /\ e.patching /\ u = FinishPatchWrite(e, ok)
      \/ e.initStage # InitWaitPhyReady /\ ~e.patching /\ u = FinishLedOrLink(e)
  BY Zenon DEF FinishPhyTransaction
<1> HIDE DEF e, u
<1>4. Free(e) /\ ~e.serial
  BY <1>1, <1>2 DEF Free, SamePlace, SameVendor, SameChannel
<1>5. ~e.closing => PageAfter(e, page)
  BY <1>2, SamePageAfter DEF SamePlace
<1>6. ASSUME e.initStage = InitWaitPhyReady
      PROVE  Good(FinishWaitPhyReady(e, ok), mii, page)
  <2>1. ~e.closing => ~e.patching /\ e.realtekStep = "idle"
    BY <1>4, <1>6 DEF Free
  <2> QED
    BY <1>4, <1>5, <1>6, <2>1, FreeReady, WaitPhyReadyFinished
<1>7. Good(u, mii, page)
  BY <1>3, <1>4, <1>5, <1>6, PatchWriteFinished, LedOrLinkFinished
<1> QED
  BY <1>7 DEF u
-----------------------------------------------------------------------------
(* Completion routines, of a request that is outstanding.                    *)

(* A request outside PHY transactions is over.                               *)
LEMMA FreedReady ==
  ASSUME NEW mii, NEW page, NEW mii2, NEW d, NEW c, Good(d, mii, page), Freed(c, d),
         Op(d) \notin PhyOps, Op(d) # "filter" \/ d.closing
  PROVE  Ready(c, mii2, page) /\ c.closing = d.closing /\ c.initStage = d.initStage
<1>1. Op(c) = "none"
  BY OpNone DEF Freed
<1>2. c.closing = d.closing /\ c.initStage = d.initStage
  BY DEF Freed, SamePlace
<1>3. ~PhyBusy(d) /\ (d.serial => d.closing)
  BY DEF Good, Bus, PhyOps
<1>4. ~PhyBusy(c) /\ (c.serial => c.closing)
  BY <1>2, <1>3 DEF Freed, SameFlags, PhyBusy
<1>5. Bus(c, mii2)
  BY <1>1, <1>4 DEF Bus, PhyBusy
<1>6. c.timer = "advance" => c.initStage = InitPause /\ ~c.closing
  BY DEF Good, OfStage, Freed, SamePlace
<1>7. ~c.closing =>
        /\ c.filterStep = "idle" /\ ~c.patching /\ c.realtekStep = "idle"
        /\ c.ledStep # "idle" \/ c.refresh => c.initStage = InitComplete
  BY <1>2 DEF Good, Staged, Freed, SamePlace, SameVendor
<1>8. ~c.closing => Paged(c, page)
  BY <1>2, <1>4, <1>7 DEF Good, Paged, Freed, SameVendor, PhyBusy, Restores
<1> QED
  BY <1>1, <1>2, <1>5, <1>6, <1>7, <1>8 DEF Ready, Freed, InitOps

LEMMA InitRequestCompleted ==
  ASSUME NEW mii, NEW page, NEW mii2, NEW d, Good(d, mii, page), Op(d) \in InitOps
  PROVE  Good(CompleteInitRequest(d), mii2, page)
<1> DEFINE c == CompleteControlTransfer(d)
<1>1. Freed(c, d)
  BY CompleteFields DEF Good
<1>2. d.initStage # InitComplete
  BY DEF Good, OfStage, InitOps
<1>3. Op(d) \notin PhyOps /\ Op(d) # "filter"
  BY DEF InitOps, PhyOps
<1> HIDE DEF c
<1>4. Ready(c, mii2, page) /\ c.initStage # InitComplete
  BY <1>1, <1>2, <1>3, FreedReady
<1> QED
  BY <1>4, AdvanceGood DEF CompleteInitRequest, c

LEMMA ReadNodeIdCompleted ==
  ASSUME NEW mii, NEW page, NEW mii2, NEW d, NEW ok \in BOOLEAN, Good(d, mii, page),
         Op(d) = "readNodeId"
  PROVE  Good(CompleteReadNodeId(d, ok), mii2, page)
<1> DEFINE c == CompleteControlTransfer(d)
           u == [c EXCEPT !.nodeIdFailed = TRUE]
<1>1. Freed(c, d)
  BY CompleteFields DEF Good
<1>2. d.initStage = InitReadNodeId
  BY DEF Good, OfStage
<1>3. CompleteReadNodeId(d, ok) = IF ok THEN AdvanceInitStage(c) ELSE u
  BY DEF CompleteReadNodeId
<1>4. Op(d) \notin PhyOps
  BY DEF PhyOps
<1> HIDE DEF c
<1>5. Ready(c, mii2, page) /\ c.initStage = InitReadNodeId
  BY <1>1, <1>2, <1>4, FreedReady
<1>6. Typed(u)
  BY Zenon, <1>1, Put, TypesOf DEF Freed
<1>7. /\ SameVendor(u, c) /\ SameFlags(u, c) /\ SamePhy(u, c) /\ SameChannel(u, c)
      /\ u.closing = c.closing /\ u.initStage = c.initStage /\ u.timer = c.timer
      /\ u.filterStep = c.filterStep /\ u.nodeIdFailed
  BY <1>1, SMT, TypesOf DEF Freed, Typed, SameVendor, SameFlags, SamePhy, SameChannel
<1> HIDE DEF u
<1>8. Op(u) = Op(c) /\ (PhyBusy(u) <=> PhyBusy(c))
  BY <1>7, OpOf
<1>9. Ready(u, mii2, page)
  BY <1>5, <1>6, <1>7, <1>8
     DEF Ready, Bus, Paged, SameVendor, SameFlags, SamePhy, SameChannel
<1>10. Good(u, mii2, page)
  BY <1>5, <1>7, <1>9, ReadyGood DEF Live
<1> QED
  BY <1>3, <1>5, <1>10, AdvanceGood

LEMMA WriteNodeIdCompleted ==
  ASSUME NEW mii, NEW page, NEW mii2, NEW d, NEW ok \in BOOLEAN, Good(d, mii, page),
         Op(d) = "writeNodeId"
  PROVE  Good(CompleteWriteNodeId(d, ok), mii2, page)
<1> DEFINE c == CompleteControlTransfer(d)
           lost == c.addressLost \/ ~ok
           u == [c EXCEPT !.addressLost = lost]
<1>1. Freed(c, d)
  BY CompleteFields DEF Good
<1>2. CompleteWriteNodeId(d, ok) = AdvanceUnlessComplete(u)
  BY DEF CompleteWriteNodeId
<1>3. Op(d) \notin PhyOps
  BY DEF PhyOps
<1> HIDE DEF c
<1>4. Ready(c, mii2, page)
  BY <1>1, <1>3, FreedReady
<1>5. lost \in BOOLEAN
  OBVIOUS
<1> HIDE DEF lost
<1>6. Typed(u) /\ Same(u, c)
  BY Zenon, <1>1, <1>5, LossSame DEF Freed
<1> HIDE DEF u
<1> QED
  BY <1>2, <1>4, <1>6, SameReady, UnlessCompleteGood

LEMMA MediumCompleted ==
  ASSUME NEW mii, NEW page, NEW mii2, NEW d, Good(d, mii, page), Op(d) = "medium"
  PROVE  Good(CompleteWriteMediumStatus(d), mii2, page)
<1> DEFINE c == CompleteControlTransfer(d)
           e == IF c.initStage # InitComplete THEN AdvanceInitStage(c) ELSE UpdateMarvellLed(c)
           told == IF e.notify THEN e.linkState ELSE e.told
           u == [e EXCEPT !.notify = FALSE, !.told = told]
<1>1. Freed(c, d)
  BY CompleteFields DEF Good
<1>2. CompleteWriteMediumStatus(d) = u
  BY Zenon DEF CompleteWriteMediumStatus
<1>3. Op(d) \notin PhyOps
  BY DEF PhyOps
<1> HIDE DEF c
<1>4. Ready(c, mii2, page)
  BY <1>1, <1>3, FreedReady
<1>5. Good(e, mii2, page)
  BY <1>4, AdvanceGood, MarvellLedGood
<1> HIDE DEF e
<1>6. told \in {"down", "up"}
  BY <1>5, SMT, TypesOf DEF Good, Typed
<1> HIDE DEF told
<1>7. Typed(u) /\ Same(u, e)
  <2>1. {"notify", "told"} \subseteq Loose
    BY LooseFields
  <2>2. FALSE \in Types.notify /\ told \in Types.told
    BY <1>6, TypesOf
  <2>3. Typed(e)
    BY <1>5 DEF Good
  <2> QED
    BY Zenon, <2>1, <2>2, <2>3, LooseSame2
<1> HIDE DEF u
<1> QED
  BY <1>2, <1>5, <1>7, SameGood

LEMMA StopReceivingCompleted ==
  ASSUME NEW mii, NEW page, NEW mii2, NEW d, Good(d, mii, page), Op(d) = "stopReceiving"
  PROVE  Good(CompleteStopReceiving(d), mii2, page)
<1> DEFINE c == CompleteControlTransfer(d)
<1>1. Freed(c, d)
  BY CompleteFields DEF Good
<1>2. ~d.closing => d.initStage = InitComplete
  BY DEF Good, Staged
<1>3. Op(d) \notin PhyOps
  BY DEF PhyOps
<1> HIDE DEF c
<1>4. Ready(c, mii2, page) /\ (~c.closing => c.initStage = InitComplete)
  BY <1>1, <1>2, <1>3, FreedReady
<1>5. c.closing => BeginFilterUpdate(c, TRUE) = c
  BY Zenon DEF BeginFilterUpdate
<1>6. Good(BeginFilterUpdate(c, TRUE), mii2, page)
  BY <1>4, <1>5, FilterGood, ReadyGood
<1> QED
  BY <1>6 DEF CompleteStopReceiving, StartReceiving, c

(* The EEPROM: enable, read, disable; then init goes on from where it was.   *)
LEMMA ConfigStepCompleted ==
  ASSUME NEW mii, NEW page, NEW mii2, NEW d, NEW ok \in BOOLEAN, Good(d, mii, page),
         Op(d) = "eeprom"
  PROVE  Good(CompletePhyConfigStep(d, ok), mii2, page)
<1> DEFINE c == CompleteControlTransfer(d)
           valid == c.eepromValid \/ (ok /\ d.configStep = "read")
           step == CASE c.configStep = "enable" /\ ok -> "read"
                     [] c.configStep = "disable"      -> "idle"
                     [] OTHER                         -> "disable"
           e == [c EXCEPT !.eepromValid = valid, !.configStep = step]
           i == [e EXCEPT !.configStep = "idle", !.configInitial = FALSE]
           q == QueueControlTransfer(e, Request("eeprom", "none"))
           u == CompletePhyConfigStep(d, ok)
<1>1. Freed(c, d)
  BY CompleteFields DEF Good
<1>2. \/ CanQueueControlTransfer(e) /\ u = q
      \/ d.configInitial /\ u = AdvanceInitStage(i)
      \/ ~d.configInitial /\ u = ContinueVendorPhyInitialization(i)
  BY Zenon DEF CompletePhyConfigStep
<1>3. Op(d) \notin PhyOps
  BY DEF PhyOps
<1> HIDE DEF c, u
<1>4. Ready(c, mii2, page) /\ ~c.canUserTransfer
  BY <1>1, <1>3, FreedReady DEF Freed
<1>5. valid \in BOOLEAN /\ step \in {"idle", "enable", "read", "disable"}
  <2>1. valid \in BOOLEAN
    OBVIOUS
  <2>2. step \in {"read", "idle", "disable"}
    BY Zenon
  <2> QED
    BY <2>1, <2>2
<1> HIDE DEF valid, step
<1>6. Typed(e) /\ Same(e, c)
  <2>1. {"eepromValid", "configStep"} \subseteq Loose
    BY LooseFields
  <2>2. valid \in Types.eepromValid /\ step \in Types.configStep
    BY <1>5, TypesOf
  <2>3. Typed(c)
    BY <1>4 DEF Ready
  <2> QED
    BY Zenon, <2>1, <2>2, <2>3, LooseSame2
<1> HIDE DEF e
<1>7. Ready(e, mii2, page) /\ ~e.canUserTransfer
  BY <1>4, <1>6, SameReady DEF Same, SameChannel
<1>8. /\ e.closing = d.closing /\ e.initStage = d.initStage /\ e.timer = d.timer
      /\ e.configInitial = d.configInitial /\ e.ledStep = d.ledStep /\ e.refresh = d.refresh
  BY <1>1, <1>6 DEF Freed, Same, SamePlace, SameVendor
<1>9. ~d.closing => d.initStage = IF d.configInitial THEN InitReadEepromConfig ELSE InitVendor
  BY DEF Good, Staged
<1>10. ASSUME CanQueueControlTransfer(e)
       PROVE  Good(q, mii2, page)
  <2>1. Request("eeprom", "none") \in Requests
    BY RequestsTyped
  <2>2. Queued(q, e, Request("eeprom", "none"))
    BY <1>6, <2>1, QueueFields
  <2>3. ~e.closing /\ Allowed("eeprom", e)
    BY <1>8, <1>9, <1>10 DEF CanQueueControlTransfer, Allowed
  <2> HIDE DEF q
  <2> QED
    BY <1>7, <2>1, <2>2, <2>3, QueuedGood
<1>11. Typed(i)
  <2>1. {"configStep", "configInitial"} \subseteq DOMAIN Types
    BY Zenon, TypesOf
  <2>2. "idle" \in Types.configStep /\ FALSE \in Types.configInitial
    BY TypesOf
  <2> QED
    BY Zenon, <1>6, <2>1, <2>2, Put2
<1>12. /\ SameVendor(i, e) /\ SameFlags(i, e) /\ SamePhy(i, e) /\ SameChannel(i, e)
       /\ i.closing = e.closing /\ i.initStage = e.initStage /\ i.timer = e.timer
       /\ i.filterStep = e.filterStep
  BY <1>6, SMT, TypesOf DEF Typed, SameVendor, SameFlags, SamePhy, SameChannel
<1> HIDE DEF i, q
<1>13. Op(i) = Op(e) /\ (PhyBusy(i) <=> PhyBusy(e))
  BY <1>12, OpOf
<1>14. Ready(i, mii2, page)
  BY <1>7, <1>11, <1>12, <1>13
     DEF Ready, Bus, Paged, SameVendor, SameFlags, SamePhy, SameChannel
<1>15. ASSUME d.configInitial
       PROVE  Good(AdvanceInitStage(i), mii2, page)
  BY <1>8, <1>9, <1>12, <1>14, <1>15, AdvanceGood
<1>16. ASSUME ~d.configInitial
       PROVE  Good(ContinueVendorPhyInitialization(i), mii2, page)
  <2>1. ~i.closing => i.initStage = InitVendor
    BY <1>8, <1>9, <1>12, <1>16
  <2>2. ~i.closing => Open(i, mii2, page)
    BY <1>14, <2>1 DEF Open, Ready
  <2> QED
    BY <1>14, <2>1, <2>2, VendorContinued
<1>17. Good(u, mii2, page)
  BY <1>2, <1>10, <1>15, <1>16
<1> QED
  BY <1>17 DEF u
-----------------------------------------------------------------------------
(* The requests of a PHY transaction.                                        *)

(* The flags of a transaction are cleared; it has a request no longer.       *)
Over(u, d) ==
  /\ Typed(u) /\ SamePlace(u, d)
  /\ ~u.canUserTransfer /\ u.request = NoRequest /\ ~u.phyRead /\ ~u.phyWrite
  /\ u.patching = d.patching /\ u.realtekStep = d.realtekStep /\ u.ledStep = d.ledStep
  /\ u.refresh => d.refresh \/ d.initStage = InitComplete

LEMMA OverFree ==
  ASSUME NEW mii, NEW page, NEW d, NEW u, Good(d, mii, page), Op(d) \in PhyOps, Over(u, d)
  PROVE  Free(u)
<1>1. Op(d) # "filter"
  BY DEF PhyOps
<1> QED
  BY <1>1 DEF Good, OfStage, Staged, Over, SamePlace, Free

LEMMA ReleaseCompleted ==
  ASSUME NEW mii, NEW page, NEW mii2, NEW d, NEW ok \in BOOLEAN, Good(d, mii, page),
         Op(d) = "release"
  PROVE  Good(CompleteReleaseSerialMgmtControl(d, ok), mii2, page)
<1> DEFINE c == CompleteControlTransfer(d)
<1>1. Freed(c, d)
  BY CompleteFields DEF Good
<1> HIDE DEF c
<1>2. ~PhyBusy(d) /\ Op(d) \in PhyOps
  BY DEF Good, Bus, PhyOps
<1>3. Over(c, d)
  BY <1>1, <1>2 DEF Over, Freed, SameFlags, SameVendor, PhyBusy
<1>4. Free(c)
  BY <1>2, <1>3, OverFree
<1>5. ~c.closing => PageAfter(c, page)
  BY <1>1 DEF Good, Paged, PageAfter, Freed, SamePlace, SameVendor
<1> QED
  BY <1>4, <1>5, PhyTransactionFinished DEF CompleteReleaseSerialMgmtControl, c

LEMMA ReleaseQueued ==
  ASSUME NEW mii, NEW page, NEW d, Free(d), d.serial => mii, ~d.closing => PageAfter(d, page)
  PROVE  Good(QueueRelease(d), mii, page)
<1>1. CASE CanQueueControlTransfer(d)
  <2> DEFINE u == QueueControlTransfer(d, Request("release", "none"))
  <2>1. QueueRelease(d) = u
    BY <1>1 DEF QueueRelease, QueueOrDrop
  <2>2. Queued(u, d, Request("release", "none"))
    BY QueueFields, RequestsTyped DEF Free, PhyOps
  <2> HIDE DEF u
  <2>3. Op(u) = "release" /\ u.request # NoRequest /\ ~u.closing
    BY <1>1, <2>2, OpQueued, RequestsTyped DEF Queued, PhyOps, SamePlace, CanQueueControlTransfer
  <2>4. Bus(u, mii)
    BY <2>2, <2>3 DEF Bus, PhyBusy, Queued, SameFlags, Free
  <2>5. OfStage(u) /\ Staged(u) /\ Live(u)
    BY <2>2, <2>3 DEF OfStage, Staged, Live, Queued, SamePlace, SameVendor, Free, PhyOps
  <2>6. Paged(u, page)
    BY <2>2, <2>3 DEF Paged, PageAfter, Queued, SamePlace, SameVendor, SameFlags, Free
  <2>7. Good(u, mii, page)
    BY <2>2, <2>3, <2>4, <2>5, <2>6 DEF Good, Queued
  <2> QED
    BY <2>1, <2>7
<1>2. CASE ~CanQueueControlTransfer(d)
  BY <1>2, PhyTransactionFinished DEF QueueRelease
<1> QED
  BY <1>1, <1>2

LEMMA AcquireFailureCompleted ==
  ASSUME NEW mii, NEW page, NEW mii2, NEW d, Good(d, mii, page), Op(d) = "acquire"
  PROVE  Good(AcquireFailed(d), mii2, page)
<1> DEFINE b == CompleteControlTransfer(d)
           lost == b.pageLost \/ d.realtekStep # "idle"
           c == [b EXCEPT !.phyRead = FALSE, !.phyWrite = FALSE, !.pageLost = lost]
           w == [c EXCEPT !.phyValue = "other"]
           n == [w EXCEPT !.retries = w.retries + 1]
           p == [EndPatch(c) EXCEPT !.patchFailed = TRUE]
           i == [c EXCEPT !.ledStep = "idle"]
           r == [c EXCEPT !.realtekStep = "idle", !.realtekFailed = FALSE]
           u == AcquireFailed(d)
<1>1. Freed(b, d) /\ Typed(d)
  BY CompleteFields DEF Good
<1>2. \/ c.initStage = InitWaitPhyReady
           /\ u = IF c.retries < PhyReadyRetryLimit THEN RetryPhyReadyLater(n) ELSE AdvanceInitStage(w)
      \/ c.patching /\ u = AdvanceInitStage(p)
      \/ c.ledStep # "idle" /\ u = i
      \/ ~c.patching /\ u = AdvanceUnlessComplete(r)
  <2>1. u = CASE c.initStage = InitWaitPhyReady ->
                   IF c.retries < PhyReadyRetryLimit
                   THEN RetryPhyReadyLater(n) ELSE AdvanceInitStage(w)
              [] c.initStage # InitWaitPhyReady /\ c.patching -> AdvanceInitStage(p)
              [] c.ledStep # "idle" -> i
              [] OTHER -> AdvanceUnlessComplete(r)
    BY DEF AcquireFailed
  <2> HIDE DEF u, c, n, w, p, i, r
  <2> QED
    BY <2>1
<1> HIDE DEF b, u
<1>3. lost \in BOOLEAN /\ lost = (d.pageLost \/ d.realtekStep # "idle")
  BY <1>1, Fields DEF Freed, SameVendor
<1> HIDE DEF lost
<1>4. Typed(c)
  <2>1. {"phyRead", "phyWrite", "pageLost"} \subseteq DOMAIN Types
    BY Zenon, TypesOf
  <2>2. FALSE \in Types.phyRead /\ FALSE \in Types.phyWrite /\ lost \in Types.pageLost
    BY <1>3, TypesOf
  <2> QED
    BY Zenon, <1>1, <2>1, <2>2, Put3 DEF Freed
<1>5. /\ SamePlace(c, b) /\ SamePhy(c, b) /\ SameChannel(c, b)
      /\ ~c.phyRead /\ ~c.phyWrite /\ c.serial = b.serial
  BY <1>1, SMT, TypesOf DEF Freed, Typed, SamePlace, SamePhy, SameChannel
<1>6. /\ c.patching = b.patching /\ c.realtekStep = b.realtekStep
      /\ c.realtekFailed = b.realtekFailed /\ c.ledStep = b.ledStep /\ c.refresh = b.refresh
      /\ c.pageLost = lost
  BY <1>1, SMT, TypesOf DEF Freed, Typed
<1> HIDE DEF c
<1>7. Over(c, d)
  BY <1>1, <1>4, <1>5, <1>6 DEF Over, Freed, SamePlace, SamePhy, SameVendor, SameChannel
<1>8. Free(c)
  BY <1>7, OverFree DEF PhyOps
<1>9. c.closing = d.closing /\ c.initStage = d.initStage /\ c.serial = d.serial
  BY <1>1, <1>5 DEF Freed, SamePlace, SameFlags
<1>10. c.serial => c.closing
  BY <1>9 DEF Good, Bus
<1>11. ASSUME ~d.closing, UsersLeavePage, ~c.pageLost
       PROVE  d.realtekStep = "idle" /\ page = "zero"
  <2>1. d.realtekStep = "idle" /\ ~d.pageLost
    BY <1>1, <1>3, <1>6, <1>11, Fields
  <2> QED
    BY <1>11, <2>1 DEF Good, Paged
(* What a device that closes does with a hold on the bus does not matter.    *)
<1>12. ASSUME NEW v, Typed(v), SamePlace(v, c), SameChannel(v, c), SameFlags(v, c),
              v.refresh = c.refresh, v.pageLost = c.pageLost,
              v.ledStep = c.ledStep \/ v.ledStep = "idle",
              ~v.closing => ~v.patching /\ v.realtekStep = "idle"
       PROVE  Ready(v, mii2, page)
  <2>1. Op(v) = "none" /\ ~PhyBusy(v)
    BY <1>8, <1>12, OpNone DEF Free, SameChannel, SameFlags, PhyBusy
  <2>2. v.closing = d.closing
    BY <1>9, <1>12 DEF SamePlace
  <2>3. Bus(v, mii2)
    BY <1>9, <1>10, <1>12, <2>1, <2>2 DEF Bus, PhyBusy, SameFlags
  <2>4. ~v.closing => Paged(v, page)
    BY <1>11, <1>12, <2>1, <2>2 DEF Paged, PhyBusy, Restores
  <2> QED
    BY <1>8, <1>12, <2>1, <2>3, <2>4 DEF Ready, Free, SamePlace, SameChannel, InitOps
<1>13. Typed(w) /\ SamePlace(w, c) /\ SameVendor(w, c) /\ SameFlags(w, c) /\ SameChannel(w, c)
  <2>1. "phyValue" \in DOMAIN Types /\ "other" \in Types.phyValue
    BY TypesOf DEF PhyValues
  <2>2. Typed(w)
    BY Zenon, <1>4, <2>1, Put
  <2>3. SamePlace(w, c) /\ SameVendor(w, c) /\ SameFlags(w, c) /\ SameChannel(w, c)
    BY <1>4, SMT, TypesOf DEF Typed, SamePlace, SameVendor, SameFlags, SameChannel
  <2> QED
    BY <2>2, <2>3
<1>14. LedAt(i, c, "idle")
  BY Zenon, <1>4, LedSet
<1>15. Stepped(r, c, "idle")
  BY Zenon, <1>4, StepSet
<1>16. Patched(EndPatch(c), c, FALSE)
  BY Zenon, <1>4, PatchSet DEF EndPatch
<1> HIDE DEF w, i, r
<1>17. ASSUME c.initStage = InitWaitPhyReady
       PROVE  Ready(w, mii2, page) /\ w.initStage = InitWaitPhyReady
  <2>1. ~c.closing => ~c.patching /\ c.realtekStep = "idle"
    BY <1>8, <1>17 DEF Free
  <2> QED
    BY <1>12, <1>13, <1>17, <2>1 DEF SamePlace, SameVendor
<1>18. ASSUME c.initStage = InitWaitPhyReady, c.retries < PhyReadyRetryLimit
       PROVE  Good(RetryPhyReadyLater(n), mii2, page)
  <2>1. w.retries = c.retries
    BY <1>4, SMT, TypesOf DEF Typed, w
  <2>2. c.retries \in 0 .. PhyReadyRetryLimit
    BY <1>4, SMT, TypesOf DEF Typed
  <2>3. w.retries + 1 \in Types.retries
    BY <1>18, <2>1, <2>2, TypesOf DEF Ax88178Assumption
  <2>4. Typed(n) /\ Same(n, w)
    BY Zenon, <1>13, <2>3, LooseFields, LooseSame
  <2> HIDE DEF n
  <2> QED
    BY <1>17, <1>18, <2>4, SameReady, RetryGood DEF Same, SamePlace
<1>19. ASSUME c.initStage = InitWaitPhyReady
       PROVE  Good(AdvanceInitStage(w), mii2, page)
  BY <1>17, <1>19, AdvanceGood
<1>20. ASSUME c.patching
       PROVE  Good(AdvanceInitStage(p), mii2, page)
  <2> DEFINE q == EndPatch(c)
  <2> HIDE DEF q
  <2>1. Patched(q, c, FALSE) /\ p = [q EXCEPT !.patchFailed = TRUE]
    BY <1>16 DEF q
  <2>2. "patchFailed" \in Loose /\ TRUE \in Types.patchFailed
    BY LooseFields, TypesOf
  <2>3. Typed([q EXCEPT !.patchFailed = TRUE]) /\ Same([q EXCEPT !.patchFailed = TRUE], q)
    BY Zenon, <2>1, <2>2, LooseSame DEF Patched
  <2> HIDE DEF p
  <2>4. Typed(p) /\ Same(p, q)
    BY <2>1, <2>3
  <2>5. ~c.closing => c.realtekStep = "idle" /\ c.initStage = InitVendor
    BY <1>8, <1>20 DEF Free
  <2>6. /\ SamePlace(p, c) /\ SameChannel(p, c) /\ SameFlags(p, c)
        /\ p.refresh = c.refresh /\ p.pageLost = c.pageLost /\ p.ledStep = c.ledStep
        /\ ~p.patching /\ p.realtekStep = c.realtekStep
    BY <2>1, <2>4 DEF Patched, Same, SamePlace, SameVendor, SameChannel, SameFlags
  <2>7. Ready(p, mii2, page)
    BY <1>12, <2>4, <2>5, <2>6 DEF SamePlace
  <2> QED
    BY <2>5, <2>6, <2>7, AdvanceGood DEF SamePlace
<1>21. ASSUME c.ledStep # "idle"
       PROVE  Good(i, mii2, page)
  <2>1. ~c.closing => c.initStage = InitComplete /\ c.realtekStep = "idle" /\ ~c.patching
    BY <1>8, <1>21 DEF Free
  <2>2. Ready(i, mii2, page)
    BY <1>12, <1>14, <1>21, <2>1 DEF LedAt, SamePlace
  <2>3. i.closing \/ Live(i)
    BY <1>14, <2>1 DEF LedAt, SamePlace, Live
  <2> QED
    BY <2>2, <2>3, ReadyGood
<1>22. ASSUME ~c.patching
       PROVE  Good(AdvanceUnlessComplete(r), mii2, page)
  <2>1. Ready(r, mii2, page)
    BY <1>12, <1>15, <1>22 DEF Stepped
  <2> QED
    BY <2>1, UnlessCompleteGood
<1>23. Good(u, mii2, page)
  BY <1>2, <1>18, <1>19, <1>20, <1>21, <1>22
<1> QED
  BY <1>23 DEF u

(* Software has the bus: the transaction goes on with its read or write.     *)
LEMMA AcquireCompleted ==
  ASSUME NEW mii, NEW page, NEW d, Good(d, mii, page), Op(d) = "acquire"
  PROVE  Good(Acquired(d), TRUE, page)
<1> DEFINE b == CompleteControlTransfer(d)
           c == [b EXCEPT !.serial = TRUE, !.phyRead = FALSE, !.phyWrite = FALSE]
           v == [c EXCEPT !.phyValue = "other"]
           w == IF d.phyRead /\ c.initStage = InitWaitPhyReady THEN v ELSE c
           u == Acquired(d)
<1>1. Freed(b, d) /\ Typed(d)
  BY CompleteFields DEF Good
<1>2. \/ ~CanBeginPhy(c) /\ u = FinishPhyTransaction(w, FALSE)
      \/ CanBeginPhy(c) /\ d.phyRead /\ u = BeginReadPhy(c, d.phyRegister)
      \/ CanBeginPhy(c) /\ ~d.phyRead /\ u = BeginWritePhy(c, d.phyRegister, d.phyValue)
  BY Zenon DEF Acquired
<1> HIDE DEF b, u
<1>3. Typed(c)
  <2>1. {"serial", "phyRead", "phyWrite"} \subseteq DOMAIN Types
    BY Zenon, TypesOf
  <2>2. TRUE \in Types.serial /\ FALSE \in Types.phyRead /\ FALSE \in Types.phyWrite
    BY TypesOf
  <2> QED
    BY Zenon, <1>1, <2>1, <2>2, Put3 DEF Freed
<1>4. /\ SamePlace(c, b) /\ SameVendor(c, b) /\ SamePhy(c, b) /\ SameChannel(c, b)
      /\ ~c.phyRead /\ ~c.phyWrite /\ c.serial
  BY <1>1, SMT, TypesOf DEF Freed, Typed, SamePlace, SameVendor, SamePhy, SameChannel
<1> HIDE DEF c
<1>5. Over(c, d)
  BY <1>1, <1>3, <1>4 DEF Over, Freed, SamePlace, SamePhy, SameVendor, SameChannel
<1>6. Free(c)
  BY <1>5, OverFree DEF PhyOps
<1>7. SameVendor(c, d) /\ c.closing = d.closing
  BY <1>1, <1>4 DEF Freed, SamePlace, SameVendor
<1>8. d.phyRegister \in Nat /\ d.phyValue \in PhyValues
  BY <1>1, Fields
<1>9. ~d.phyRead => d.phyWrite
  BY DEF Good, Bus, PhyBusy
<1>10. ASSUME ~d.closing, d.phyRead
       PROVE  PageRead(c, page)
  <2>1. ~d.phyWrite
    BY <1>10 DEF Good, Bus
  <2> QED
    BY <1>7, <1>10, <2>1 DEF Good, Paged, PageRead, SameVendor
<1>11. ASSUME ~d.closing, d.phyWrite
       PROVE  PageWrite(c, d.phyRegister, d.phyValue, page)
  BY <1>7, <1>11 DEF Good, Paged, PageWrite, SameVendor
<1>12. ASSUME CanBeginPhy(c), d.phyRead
       PROVE  Good(BeginReadPhy(c, d.phyRegister), TRUE, page)
  BY <1>6, <1>7, <1>8, <1>10, <1>12, FreeBegins, BeginReadGood
<1>13. ASSUME CanBeginPhy(c), ~d.phyRead
       PROVE  Good(BeginWritePhy(c, d.phyRegister, d.phyValue), TRUE, page)
  BY <1>6, <1>7, <1>8, <1>9, <1>11, <1>13, FreeBegins, BeginWriteGood
<1>14. ASSUME ~CanBeginPhy(c)
       PROVE  Good(FinishPhyTransaction(w, FALSE), TRUE, page)
  <2>1. c.closing
    BY <1>6, <1>14, FreeBegins
  <2>2. Typed(v) /\ SamePlace(v, c) /\ SameVendor(v, c) /\ SameFlags(v, c) /\ SameChannel(v, c)
    <3>1. "phyValue" \in DOMAIN Types /\ "other" \in Types.phyValue
      BY TypesOf DEF PhyValues
    <3>2. Typed(v)
      BY Zenon, <1>3, <3>1, Put
    <3>3. SamePlace(v, c) /\ SameVendor(v, c) /\ SameFlags(v, c) /\ SameChannel(v, c)
      BY <1>3, SMT, TypesOf DEF Typed, SamePlace, SameVendor, SameFlags, SameChannel
    <3> QED
      BY <3>2, <3>3
  <2> HIDE DEF v
  <2>3. Free(v) /\ v.closing
    BY <1>6, <2>1, <2>2 DEF Free, SamePlace, SameFlags, SameChannel
  <2>4. Free(w) /\ w.closing
    BY <1>6, <2>1, <2>3
  <2> HIDE DEF w
  <2> QED
    BY <2>4, PhyTransactionFinished
<1>15. Good(u, TRUE, page)
  BY <1>2, <1>12, <1>13, <1>14
<1> QED
  BY <1>15 DEF u

LEMMA WritePhyCompleted ==
  ASSUME NEW mii, NEW page, NEW page2, NEW d, NEW ok \in BOOLEAN, Good(d, mii, page),
         Op(d) = "writePhy",
         \/ page2 = IF d.phyRegister = PhyRegisterPage THEN d.phyValue ELSE page
         \/ ~ok /\ page2 = page
  PROVE  Good(CompleteWritePhy(d, ok), mii, page2)
<1> DEFINE b == CompleteControlTransfer(d)
           failed == b.realtekFailed \/ (~ok /\ d.initStage = InitVendor /\ d.realtekStep # "idle")
           patchFailed == b.patchFailed \/ (~ok /\ d.patching)
           lost == b.pageLost \/ (~ok /\ d.realtekStep \in {"page5", "restore", "restoreLed",
                                                            "restoreFailure"})
           u == [b EXCEPT !.phyWrite = FALSE, !.realtekFailed = failed,
                          !.patchFailed = patchFailed, !.pageLost = lost]
<1>1. Freed(b, d) /\ Typed(d)
  BY CompleteFields DEF Good
<1>2. CompleteWritePhy(d, ok) = QueueRelease(u)
  BY Zenon DEF CompleteWritePhy
<1> HIDE DEF b
<1>3. /\ failed \in BOOLEAN /\ patchFailed \in BOOLEAN /\ lost \in BOOLEAN
      /\ failed => d.realtekFailed \/ ~ok
      /\ d.pageLost => lost
      /\ ~ok /\ d.realtekStep \in Restores \cup {"page5"} => lost
  BY <1>1 DEF Freed, SameVendor, Restores
<1> HIDE DEF failed, patchFailed, lost
<1>4. Typed(u)
  <2>1. {"phyWrite", "realtekFailed", "patchFailed", "pageLost"} \subseteq DOMAIN Types
    BY ZenonT(40), TypesOf
  <2>2. /\ FALSE \in Types.phyWrite /\ failed \in Types.realtekFailed
        /\ patchFailed \in Types.patchFailed /\ lost \in Types.pageLost
    BY <1>3, TypesOf
  <2> QED
    BY Zenon, <1>1, <2>1, <2>2, Put4 DEF Freed
<1>5. /\ SamePlace(u, b) /\ SamePhy(u, b) /\ SameChannel(u, b)
      /\ u.phyRead = b.phyRead /\ ~u.phyWrite /\ u.serial = b.serial
  BY <1>1, SMT, TypesOf DEF Freed, Typed, SamePlace, SamePhy, SameChannel
<1>6. /\ u.patching = b.patching /\ u.realtekStep = b.realtekStep
      /\ u.ledStep = b.ledStep /\ u.refresh = b.refresh
      /\ u.realtekFailed = failed /\ u.pageLost = lost
  BY <1>1, SMT, TypesOf DEF Freed, Typed
<1> HIDE DEF u
<1>7. ~d.phyRead /\ d.phyWrite /\ mii
  BY DEF Good, Bus
<1>8. Over(u, d)
  BY <1>1, <1>4, <1>5, <1>6, <1>7
     DEF Over, Freed, SamePlace, SamePhy, SameVendor, SameFlags, SameChannel
<1>9. Free(u)
  BY <1>8, OverFree DEF PhyOps
<1>10. ASSUME ~u.closing, UsersLeavePage, ~u.pageLost
       PROVE  /\ u.realtekStep \in Restores \cup {"idle"} => page2 = "zero"
              /\ u.realtekStep \in Restores \cup {"page5"} => ~u.realtekFailed
  <2>1. ~d.closing /\ ~d.pageLost /\ u.realtekStep = d.realtekStep
    BY <1>1, <1>3, <1>6, <1>8, <1>10, Fields DEF Over, SamePlace
  <2>2. d.realtekStep \in Restores \cup {"page5"} => ok /\ ~d.realtekFailed
    BY <1>3, <1>6, <1>10, <2>1 DEF Good, Paged
  <2>3. d.realtekStep \in Restores => d.phyRegister = PhyRegisterPage /\ d.phyValue = "zero"
    BY <1>10, <2>1 DEF Good, Paged
  <2>4. d.realtekStep = "idle" => d.phyRegister # PhyRegisterPage /\ page = "zero"
    BY <1>7, <1>10, <2>1 DEF Good, Paged
  <2> QED
    BY <1>3, <1>6, <2>1, <2>2, <2>3, <2>4 DEF Restores
<1>11. ~u.closing => PageAfter(u, page2)
  BY <1>10 DEF PageAfter
<1>12. Good(QueueRelease(u), mii, page2)
  BY <1>7, <1>9, <1>11, ReleaseQueued
<1> QED
  BY Zenon, <1>2, <1>12
(* What follows a read: the next register, or the release of the bus.        *)
LEMMA ReadContinued ==
  ASSUME NEW mii, NEW page, NEW r, Free(r), r.serial => mii,
         ~r.closing => PageAfter(r, page) /\ PageRead(r, page)
  PROVE  /\ Good(QueueRelease([r EXCEPT !.readAll = FALSE]), mii, page)
         /\ CanBeginPhy(r) => Good(BeginReadPhy(r, r.phyRegister + 1), mii, page)
         /\ ~CanBeginPhy(r) =>
              Good(AdvanceUnlessComplete([BeginReadPhy(r, r.phyRegister + 1) EXCEPT
                                            !.readAll = FALSE]), mii, page)
<1> DEFINE s == [r EXCEPT !.readAll = FALSE]
           n == BeginReadPhy(r, r.phyRegister + 1)
           t == [n EXCEPT !.readAll = FALSE]
<1>1. Typed(r) /\ r.phyRegister + 1 \in Nat
  <2>1. Typed(r)
    BY DEF Free
  <2>2. r.phyRegister \in Nat
    BY <2>1, Fields
  <2> QED
    BY <2>1, <2>2
<1>2. Good(QueueRelease(s), mii, page)
  <2>1. Typed(s) /\ Same(s, r)
    BY Zenon, <1>1, ReadAllSame
  <2> HIDE DEF s
  <2>2. Free(s) /\ (s.serial => mii)
    BY <2>1, SameFree DEF Same, SameFlags
  <2>3. ~s.closing => PageAfter(s, page)
    BY <2>1, SamePageAfter DEF Same, SamePlace
  <2> QED
    BY <2>2, <2>3, ReleaseQueued
<1>3. CanBeginPhy(r) => Good(n, mii, page)
  BY <1>1, BeginReadGood, FreeBegins
<1>4. ASSUME ~CanBeginPhy(r)
      PROVE  Good(AdvanceUnlessComplete(t), mii, page)
  <2>1. Refused(n, r) /\ r.closing
    BY <1>1, <1>4, BeginReadRefused, FreeBegins
  <2> HIDE DEF n
  <2>2. Typed(t) /\ Same(t, n)
    BY Zenon, <2>1, ReadAllSame DEF Refused
  <2> HIDE DEF t
  <2>3. /\ t.closing /\ t.timer # "advance" /\ Typed(t)
        /\ ~t.canUserTransfer /\ t.request = NoRequest /\ ~t.phyRead /\ ~t.phyWrite
    BY <2>1, <2>2 DEF Free, Refused, Same, SamePlace, SameFlags, SameChannel
  <2>4. Op(t) = "none"
    BY <2>3, OpNone
  <2>5. Ready(t, mii, page)
    BY <2>3, <2>4 DEF Ready, Bus, PhyBusy, InitOps
  <2> QED
    BY <2>5, UnlessCompleteGood
<1> QED
  BY <1>2, <1>3, <1>4

LEMMA ReadPhyCompleted ==
  ASSUME NEW mii, NEW page, NEW d, NEW ok \in BOOLEAN, Good(d, mii, page), Op(d) = "readPhy",
         NEW v \in [value: {"identifier", "other"}, link: {"down", "up"}, news: BOOLEAN]
  PROVE  Good(CompleteReadPhy(d, ok, v), mii, page)
<1> DEFINE b == CompleteControlTransfer(d)
           c == [b EXCEPT !.phyRead = FALSE]
           paged == d.initStage = InitVendor /\ d.realtekStep = "read"
           links == ~paged /\ d.phyRegister = PhyRegisterStatus /\ v.link # d.phyLink
           failed == c.realtekFailed \/ paged
           kept == IF d.initStage = InitWaitPhyReady THEN "other" ELSE c.phyValue
           phyLink == IF links THEN v.link ELSE c.phyLink
           pending == c.linkPending \/ links \/ (v.news /\ ~paged)
           refresh == c.refresh \/ (links /\ d.initStage = InitComplete /\ ~d.readAll)
           bad == [c EXCEPT !.realtekFailed = failed, !.phyValue = kept]
           good == [c EXCEPT !.phyValue = v.value, !.phyLink = phyLink,
                             !.linkPending = pending, !.refresh = refresh]
           r == IF ~ok THEN bad ELSE good
           n == BeginReadPhy(r, r.phyRegister + 1)
           u == CompleteReadPhy(d, ok, v)
<1>1. Freed(b, d) /\ Typed(d)
  BY CompleteFields DEF Good
<1>2. \/ u = QueueRelease([r EXCEPT !.readAll = FALSE])
      \/ u = IF CanBeginPhy(r) THEN n ELSE AdvanceUnlessComplete([n EXCEPT !.readAll = FALSE])
  BY Zenon DEF CompleteReadPhy
<1> HIDE DEF b, u
<1>3. Typed(c)
  BY Zenon, <1>1, Put, TypesOf DEF Freed
<1>4. /\ SamePlace(c, b) /\ SameVendor(c, b) /\ SamePhy(c, b) /\ SameChannel(c, b)
      /\ ~c.phyRead /\ c.phyWrite = b.phyWrite /\ c.serial = b.serial
  BY <1>1, SMT, TypesOf DEF Freed, Typed, SamePlace, SameVendor, SamePhy, SameChannel
<1> HIDE DEF c
<1>5. /\ c.realtekFailed = d.realtekFailed /\ c.refresh = d.refresh /\ c.phyValue = d.phyValue
      /\ c.realtekStep = d.realtekStep /\ c.pageLost = d.pageLost
  BY <1>1, <1>4 DEF Freed, SameVendor, SamePhy
<1>6. /\ failed \in BOOLEAN /\ refresh \in BOOLEAN /\ pending \in BOOLEAN
      /\ kept \in PhyValues /\ v.value \in PhyValues /\ phyLink \in {"unread", "down", "up"}
      /\ failed => d.realtekFailed \/ d.realtekStep = "read"
      /\ refresh => d.refresh \/ d.initStage = InitComplete
  <2>1. c.phyLink \in {"unread", "down", "up"}
    BY <1>3, SMT, TypesOf DEF Typed
  <2>2. phyLink \in {"unread", "down", "up"}
    BY <2>1
  <2>3. kept \in PhyValues /\ v.value \in PhyValues
    BY <1>3, Fields DEF PhyValues
  <2>4. failed => d.realtekFailed \/ d.realtekStep = "read"
    BY <1>5
  <2>5. refresh => d.refresh \/ d.initStage = InitComplete
    BY <1>5
  <2>6. failed \in BOOLEAN /\ refresh \in BOOLEAN /\ pending \in BOOLEAN
    OBVIOUS
  <2> QED
    BY <2>2, <2>3, <2>4, <2>5, <2>6
<1> HIDE DEF failed, kept, phyLink, pending, refresh, links, paged
<1>7. Typed(bad) /\ Typed(good)
  <2>1. {"realtekFailed", "phyValue", "phyLink", "linkPending", "refresh"} \subseteq DOMAIN Types
    BY ZenonT(40), TypesOf
  <2>2. /\ failed \in Types.realtekFailed /\ kept \in Types.phyValue
        /\ v.value \in Types.phyValue /\ phyLink \in Types.phyLink
        /\ pending \in Types.linkPending /\ refresh \in Types.refresh
    BY <1>6, TypesOf
  <2>3. Typed(bad)
    BY Zenon, <1>3, <2>1, <2>2, Put2
  <2>4. Typed(good)
    BY Zenon, <1>3, <2>1, <2>2, Put4
  <2> QED
    BY <2>3, <2>4
<1>8. /\ SamePlace(bad, c) /\ SameFlags(bad, c) /\ SameChannel(bad, c)
      /\ bad.patching = c.patching /\ bad.realtekStep = c.realtekStep
      /\ bad.ledStep = c.ledStep /\ bad.pageLost = c.pageLost
      /\ bad.refresh = c.refresh /\ bad.realtekFailed = failed
  BY <1>3, SMT, TypesOf DEF Typed, SamePlace, SameFlags, SameChannel
<1>9. /\ SamePlace(good, c) /\ SameFlags(good, c) /\ SameChannel(good, c)
      /\ good.patching = c.patching /\ good.realtekStep = c.realtekStep
      /\ good.ledStep = c.ledStep /\ good.pageLost = c.pageLost
      /\ good.refresh = refresh /\ good.realtekFailed = c.realtekFailed
  BY <1>3, SMT, TypesOf DEF Typed, SamePlace, SameFlags, SameChannel
<1> HIDE DEF bad, good
<1>10. /\ Typed(r) /\ SamePlace(r, c) /\ SameFlags(r, c) /\ SameChannel(r, c)
       /\ r.patching = c.patching /\ r.realtekStep = c.realtekStep
       /\ r.ledStep = c.ledStep /\ r.pageLost = c.pageLost
       /\ r.refresh => d.refresh \/ d.initStage = InitComplete
       /\ r.realtekFailed => d.realtekFailed \/ d.realtekStep = "read"
  BY <1>5, <1>6, <1>7, <1>8, <1>9
<1> HIDE DEF r
<1>11. d.phyRead /\ ~d.phyWrite /\ mii
  BY DEF Good, Bus
<1>12. Over(r, d)
  BY <1>1, <1>4, <1>10, <1>11 DEF Over, Freed, SamePlace, SameVendor, SameFlags, SameChannel
<1>13. Free(r)
  BY <1>12, OverFree DEF PhyOps
<1>14. ASSUME ~r.closing, UsersLeavePage
       PROVE  /\ r.realtekStep \notin Restores
              /\ ~r.pageLost => /\ r.realtekStep = "idle" => page = "zero"
                                /\ r.realtekStep = "page5" => ~r.realtekFailed
  <2>1. ~d.closing
    BY <1>12, <1>14 DEF Over, SamePlace
  <2> QED
    BY <1>5, <1>10, <1>11, <1>14, <2>1 DEF Good, Paged
<1>15. ~r.closing => PageAfter(r, page) /\ PageRead(r, page)
  BY <1>14 DEF PageAfter, PageRead
<1>16. r.serial => mii
  BY <1>11
<1>17. Good(u, mii, page)
  <2>1. /\ Good(QueueRelease([r EXCEPT !.readAll = FALSE]), mii, page)
        /\ CanBeginPhy(r) => Good(n, mii, page)
        /\ ~CanBeginPhy(r) => Good(AdvanceUnlessComplete([n EXCEPT !.readAll = FALSE]), mii, page)
    BY Zenon, <1>13, <1>15, <1>16, ReadContinued
  <2> HIDE DEF n
  <2> QED
    BY Zenon, <1>2, <2>1
<1> QED
  BY <1>17 DEF u

(* The filter is written in two steps, or put off.                           *)
LEMMA FilterCompleted ==
  ASSUME NEW mii, NEW page, NEW mii2, NEW d, NEW ok \in BOOLEAN, Good(d, mii, page),
         Op(d) = "filter"
  PROVE  Good(CompleteFilterUpdate(d, ok), mii2, page)
<1> DEFINE c == CompleteControlTransfer(d)
           hash == IF ok THEN d.pendingFilter.hash ELSE c.hash
           pending == c.filterPending \/ ~ok
           lost == ~ok
           run == c.running \/ d.submitRing
           x == [c EXCEPT !.hash = hash, !.hashLost = lost, !.filterPending = pending]
           h == [c EXCEPT !.filterStep = "rx", !.hash = hash, !.hashLost = lost,
                          !.filterPending = pending]
           hc == [h EXCEPT !.filterStep = "idle", !.filterPending = TRUE, !.timer = "running"]
           f == [c EXCEPT !.filterStep = "idle", !.filterPending = TRUE, !.timer = "running"]
           s == [c EXCEPT !.filterStep = "idle", !.running = run, !.submitRing = FALSE]
           q == QueueOrDrop(h, "filter")
           u == CompleteFilterUpdate(d, ok)
<1>1. Freed(c, d) /\ Typed(d)
  BY CompleteFields DEF Good
<1>2. \/ CanQueueControlTransfer(h) /\ u = q
      \/ ~CanQueueControlTransfer(h) /\ u = hc
      \/ u = f
      \/ s.initStage = InitStartReceiving /\ u = AdvanceInitStage(s)
      \/ s.initStage # InitStartReceiving /\ u = BeginFilterUpdate(s, FALSE)
      \/ s.initStage # InitStartReceiving /\ u = s
  BY Zenon DEF CompleteFilterUpdate
<1> HIDE DEF c, u
<1>3. hash \in Types.hash /\ pending \in BOOLEAN /\ lost \in BOOLEAN /\ run \in BOOLEAN
  <2>1. d["pendingFilter"] \in Types["pendingFilter"] /\ c["hash"] \in Types["hash"]
    BY Zenon, <1>1, TypesOf DEF Freed, Typed
  <2>2. d.pendingFilter.hash \in Types.hash
    BY <2>1, TypesOf
  <2>3. hash \in Types.hash
    BY <2>1, <2>2
  <2> QED
    BY <2>3
<1> HIDE DEF hash, pending, lost, run
<1>4. {"filterStep", "filterPending", "timer", "hash", "hashLost", "running", "submitRing"}
        \subseteq DOMAIN Types
  BY ZenonT(40), TypesOf
<1>5. /\ {"idle", "rx"} \subseteq Types.filterStep /\ "running" \in Types.timer
      /\ TRUE \in Types.filterPending /\ pending \in Types.filterPending
      /\ lost \in Types.hashLost /\ run \in Types.running /\ FALSE \in Types.submitRing
  BY <1>3, TypesOf
<1>6. Typed(h)
  BY Zenon, <1>1, <1>3, <1>4, <1>5, Put4 DEF Freed
<1>7. Typed(hc)
  BY Zenon, <1>4, <1>5, <1>6, Put3
<1>8. Typed(f) /\ Typed(s)
  BY Zenon, <1>1, <1>4, <1>5, Put3 DEF Freed
<1>9. /\ SameVendor(h, c) /\ SameFlags(h, c) /\ SamePhy(h, c) /\ SameChannel(h, c)
      /\ h.closing = c.closing /\ h.initStage = c.initStage /\ h.timer = c.timer
      /\ h.filterStep = "rx"
  BY <1>1, SMT, TypesOf DEF Freed, Typed, SameVendor, SameFlags, SamePhy, SameChannel
<1> HIDE DEF h
<1>10. /\ SameVendor(hc, h) /\ SameFlags(hc, h) /\ SamePhy(hc, h) /\ SameChannel(hc, h)
       /\ hc.closing = h.closing /\ hc.timer = "running"
  BY <1>6, SMT, TypesOf DEF Freed, Typed, SameVendor, SameFlags, SamePhy, SameChannel
<1>11. /\ SameVendor(f, c) /\ SameFlags(f, c) /\ SamePhy(f, c) /\ SameChannel(f, c)
       /\ f.closing = c.closing /\ f.initStage = c.initStage /\ f.timer = "running"
       /\ f.filterStep = "idle"
  BY <1>1, SMT, TypesOf DEF Freed, Typed, SameVendor, SameFlags, SamePhy, SameChannel
<1>12. /\ SameVendor(s, c) /\ SameFlags(s, c) /\ SamePhy(s, c) /\ SameChannel(s, c)
       /\ s.closing = c.closing /\ s.initStage = c.initStage /\ s.timer = c.timer
       /\ s.filterStep = "idle"
  BY <1>1, SMT, TypesOf DEF Freed, Typed, SameVendor, SameFlags, SamePhy, SameChannel
<1> HIDE DEF hc, f, s
<1>13. /\ ~d.phyRead /\ ~d.phyWrite /\ (d.serial => d.closing)
       /\ ~d.closing => d.initStage \in {InitStartReceiving, InitComplete}
                        /\ ~d.patching /\ d.realtekStep = "idle"
                        /\ (d.ledStep # "idle" \/ d.refresh => d.initStage = InitComplete)
                        /\ Paged(d, page)
       /\ d.timer = "advance" => d.initStage = InitPause /\ ~d.closing
  BY DEF Good, Bus, OfStage, Staged, PhyBusy, PhyOps
<1>14. /\ c.closing = d.closing /\ c.initStage = d.initStage /\ c.timer = d.timer
       /\ SameVendor(c, d) /\ SameFlags(c, d) /\ SamePhy(c, d)
       /\ ~c.canUserTransfer /\ c.request = NoRequest
  BY <1>1 DEF Freed, SamePlace
(* What is the same of all of them.                                          *)
<1>15. ASSUME NEW w, Typed(w), SameVendor(w, c), SameFlags(w, c), SamePhy(w, c), SameChannel(w, c),
              w.closing = c.closing, w.timer \in {c.timer, "running"},
              ~w.closing => w.initStage = c.initStage /\ w.filterStep = "idle",
              w.timer = c.timer => w.initStage = c.initStage
       PROVE  Ready(w, mii2, page)
  <2>1. Op(w) = "none" /\ ~PhyBusy(w)
    BY <1>13, <1>14, <1>15, OpNone DEF SameChannel, SameFlags, PhyBusy
  <2>2. Bus(w, mii2)
    BY <1>13, <1>14, <1>15, <2>1 DEF Bus, PhyBusy, SameFlags
  <2>3. ~w.closing => Paged(w, page)
    BY <1>13, <1>14, <1>15, <2>1 DEF Paged, PhyBusy, SameVendor, SameFlags, SamePhy, Restores
  <2>4. w.timer = "advance" => w.initStage = InitPause /\ ~w.closing
    BY <1>13, <1>14, <1>15
  <2>5. ~w.closing => /\ ~w.patching /\ w.realtekStep = "idle"
                      /\ w.ledStep # "idle" \/ w.refresh => w.initStage = InitComplete
    BY <1>13, <1>14, <1>15 DEF SameVendor
  <2> QED
    BY <1>14, <1>15, <2>1, <2>2, <2>3, <2>4, <2>5 DEF Ready, SameChannel, InitOps
<1>16. ASSUME CanQueueControlTransfer(h)
       PROVE  Good(q, mii2, page)
  <2>1. q = QueueControlTransfer(h, Request("filter", "none"))
    BY <1>16 DEF QueueOrDrop
  <2>2. Queued(q, h, Request("filter", "none"))
    BY <1>6, <2>1, QueueFields, RequestsTyped
  <2> HIDE DEF q
  <2>3. Op(q) = "filter" /\ q.request # NoRequest
    BY <2>2, OpQueued, RequestsTyped DEF Queued
  <2>4. ~d.closing /\ ~h.closing
    BY <1>9, <1>14, <1>16 DEF CanQueueControlTransfer
  <2>5. ~q.phyRead /\ ~q.phyWrite /\ ~q.serial /\ ~q.closing
    BY <1>9, <1>13, <1>14, <2>2, <2>4 DEF Queued, SamePlace, SameFlags
  <2>6. Bus(q, mii2)
    BY <2>3, <2>5 DEF Bus, PhyBusy
  <2>7. OfStage(q) /\ Staged(q) /\ Live(q)
    BY <1>9, <1>13, <1>14, <2>2, <2>3, <2>4 DEF OfStage, Staged, Live, Queued, SamePlace, SameVendor
  <2>8. Paged(q, page)
    BY <1>9, <1>13, <1>14, <2>2, <2>3, <2>4, <2>5 DEF Paged, Queued, SameVendor, Restores
  <2> QED
    BY <2>2, <2>3, <2>6, <2>7, <2>8 DEF Good, Queued
<1>17. ASSUME ~CanQueueControlTransfer(h)
       PROVE  Good(hc, mii2, page)
  <2>1. h.closing
    BY <1>9, <1>14, <1>17 DEF CanQueueControlTransfer, SameChannel
  <2>2. Op(hc) = "none" /\ ~PhyBusy(hc) /\ hc.closing
    BY <1>9, <1>10, <1>13, <1>14, <2>1, OpNone DEF SameChannel, SameFlags, PhyBusy
  <2>3. ~hc.canUserTransfer /\ hc.request = NoRequest
    BY <1>9, <1>10, <1>14 DEF SameChannel
  <2> QED
    BY <1>7, <1>10, <2>2, <2>3 DEF Good, Bus, OfStage, PhyBusy
<1>18. Good(f, mii2, page)
  <2>1. Ready(f, mii2, page)
    BY <1>8, <1>11, <1>15
  <2>2. f.closing \/ Live(f)
    BY <1>11, <1>13, <1>14 DEF Live
  <2> QED
    BY <2>1, <2>2, ReadyGood
<1>19. Ready(s, mii2, page)
  BY <1>8, <1>12, <1>15
<1>20. s.closing \/ s.initStage \in {InitStartReceiving, InitComplete}
  BY <1>12, <1>13, <1>14
<1>21. ASSUME s.initStage = InitStartReceiving
       PROVE  Good(AdvanceInitStage(s), mii2, page)
  BY <1>19, <1>21, AdvanceGood
<1>22. ASSUME s.initStage # InitStartReceiving
       PROVE  Good(s, mii2, page)
  BY <1>19, <1>20, <1>22, ReadyGood DEF Live
<1>23. ASSUME s.initStage # InitStartReceiving
       PROVE  Good(BeginFilterUpdate(s, FALSE), mii2, page)
  <2>1. s.closing => BeginFilterUpdate(s, FALSE) = s
    BY Zenon DEF BeginFilterUpdate
  <2> QED
    BY <1>19, <1>20, <1>22, <1>23, <2>1, FilterGood
<1>24. Good(u, mii2, page)
  BY <1>2, <1>16, <1>17, <1>18, <1>21, <1>22, <1>23
<1> QED
  BY <1>24 DEF u
(* Whatever request is over, performed by the adapter or not.                *)
After(d, mii) ==
  CASE Op(d) = "acquire" -> TRUE
    [] Op(d) = "release" -> FALSE
    [] OTHER             -> mii

PageSet(d, page) ==
  IF Op(d) = "writePhy" /\ d.phyRegister = PhyRegisterPage THEN d.phyValue ELSE page

LEMMA RequestCompleted ==
  ASSUME NEW mii, NEW page, NEW mii2, NEW page2, NEW d, NEW ok \in BOOLEAN, Good(d, mii, page),
         d.canUserTransfer,
         NEW v \in [value: {"identifier", "other"}, link: {"down", "up"}, news: BOOLEAN],
         \/ mii2 = After(d, mii) /\ page2 = PageSet(d, page)
         \/ ~ok /\ mii2 = mii /\ page2 = page
  PROVE  Good(CompleteRequest(d, ok, v), mii2, page2)
<1> DEFINE u == CompleteRequest(d, ok, v)
<1>1. Op(d) \in InitOps \cup PhyOps \cup {"eeprom", "medium", "filter", "stopReceiving", "writeNodeId"}
  BY OpSome DEF Good
<1>2. Op(d) # "writePhy" => page2 = page
  BY DEF PageSet
<1>3. Op(d) \notin {"acquire", "release"} => mii2 = mii
  BY DEF After
<1>4. Op(d) = "acquire" /\ ok => mii2 = TRUE
  BY DEF After
<1>5. CASE Op(d) = "eeprom"
  <2>1. u = CompletePhyConfigStep(d, ok)
    BY <1>5 DEF CompleteRequest
  <2> QED
    BY <1>2, <1>5, <2>1, ConfigStepCompleted
<1>6. CASE Op(d) = "readNodeId"
  <2>1. u = CompleteReadNodeId(d, ok)
    BY <1>6 DEF CompleteRequest
  <2> QED
    BY <1>2, <1>6, <2>1, ReadNodeIdCompleted
<1>7. CASE Op(d) = "writeNodeId"
  <2>1. u = CompleteWriteNodeId(d, ok)
    BY <1>7 DEF CompleteRequest
  <2> QED
    BY <1>2, <1>7, <2>1, WriteNodeIdCompleted
<1>8. CASE Op(d) = "medium"
  <2>1. u = CompleteWriteMediumStatus(d)
    BY <1>8 DEF CompleteRequest
  <2> QED
    BY <1>2, <1>8, <2>1, MediumCompleted
<1>9. CASE Op(d) = "acquire"
  <2>1. u = IF ok THEN Acquired(d) ELSE AcquireFailed(d)
    BY <1>9 DEF CompleteRequest, CompleteAcquireSerialMgmtControl
  <2>2. page2 = page /\ (ok => mii2 = TRUE)
    BY <1>2, <1>4, <1>9
  <2>3. Good(Acquired(d), TRUE, page) /\ Good(AcquireFailed(d), mii2, page)
    BY <1>9, AcquireCompleted, AcquireFailureCompleted
  <2> HIDE DEF u
  <2>4. Good(u, mii2, page2)
    BY Zenon, <2>1, <2>2, <2>3
  <2> QED
    BY <2>4 DEF u
<1>10. CASE Op(d) = "readPhy"
  <2>1. u = CompleteReadPhy(d, ok, v)
    BY <1>10 DEF CompleteRequest
  <2> QED
    BY <1>2, <1>3, <1>10, <2>1, ReadPhyCompleted
<1>11. CASE Op(d) = "writePhy"
  <2>1. u = CompleteWritePhy(d, ok)
    BY <1>11 DEF CompleteRequest
  <2>2. \/ page2 = IF d.phyRegister = PhyRegisterPage THEN d.phyValue ELSE page
        \/ ~ok /\ page2 = page
    BY <1>11 DEF PageSet
  <2> HIDE DEF u
  <2>3. Good(u, mii, page2)
    BY <1>11, <2>1, <2>2, WritePhyCompleted
  <2> QED
    BY <1>3, <1>11, <2>3 DEF u
<1>12. CASE Op(d) = "release"
  <2>1. u = CompleteReleaseSerialMgmtControl(d, ok)
    BY <1>12 DEF CompleteRequest
  <2> QED
    BY <1>2, <1>12, <2>1, ReleaseCompleted
<1>13. CASE Op(d) = "filter"
  <2>1. u = CompleteFilterUpdate(d, ok)
    BY <1>13 DEF CompleteRequest
  <2> QED
    BY <1>2, <1>13, <2>1, FilterCompleted
<1>14. CASE Op(d) = "stopReceiving"
  <2>1. u = CompleteStopReceiving(d)
    BY <1>14 DEF CompleteRequest
  <2> QED
    BY <1>2, <1>14, <2>1, StopReceivingCompleted
<1>15. CASE Op(d) \in {"gpio", "readPhyAddress", "mii", "ipg"}
  <2>1. u = CompleteInitRequest(d)
    BY <1>15 DEF CompleteRequest
  <2>2. Op(d) \in InitOps
    BY <1>15 DEF InitOps
  <2> QED
    BY <1>2, <1>15, <2>1, <2>2, InitRequestCompleted
<1> QED
  BY <1>1, <1>5, <1>6, <1>7, <1>8, <1>9, <1>10, <1>11, <1>12, <1>13, <1>14, <1>15
     DEF InitOps, PhyOps

-----------------------------------------------------------------------------
(* The timer.                                                                *)

LEMMA AdvanceTimerGood ==
  ASSUME NEW mii, NEW page, NEW d, Good(d, mii, page), d.timer = "advance"
  PROVE  Good(AdvanceInitStage([d EXCEPT !.timer = "none"]), mii, page)
<1> DEFINE u == [d EXCEPT !.timer = "none"]
<1>1. Typed(d) /\ d.initStage = InitPause /\ ~d.closing
  BY DEF Good, OfStage
<1>2. Timed(u, d, "none")
  BY Zenon, <1>1, TimerSet
<1> HIDE DEF u
<1>3. Ready(d, mii, page)
  <2>1. Op(d) \notin InitOps
    BY <1>1 DEF Good, OfStage, InitOps
  <2>2. Op(d) = "none" \/ d.canUserTransfer
    BY OpNone
  <2>3. Op(d) \in InitOps \cup SharedOps \cup {"eeprom", "filter", "stopReceiving", "none"}
    BY <2>2, OpSome DEF Good, SharedOps
  <2>4. Op(d) \notin {"eeprom", "filter", "stopReceiving"} /\ ~d.patching /\ d.realtekStep = "idle"
    BY <1>1 DEF Good, Staged
  <2> QED
    BY <2>1, <2>3, <2>4, GoodReady
<1>4. Ready(u, mii, page) /\ u.initStage = InitPause
  BY <1>1, <1>2, <1>3, TimedReady DEF Timed
<1>5. Good(AdvanceInitStage(u), mii, page)
  BY <1>4, AdvanceGood
<1> QED
  BY <1>5 DEF u

(* The timer has fired; somebody still goes on with init.                    *)
LEMMA StoppedGood ==
  ASSUME NEW mii, NEW page, NEW d, NEW u, Good(d, mii, page), Timed(u, d, "none"),
         d.timer = "running", d.closing \/ Live(u)
  PROVE  Good(u, mii, page)
<1>1. Op(u) = Op(d) /\ (PhyBusy(u) <=> PhyBusy(d))
  BY OpOf DEF Timed
<1> QED
  BY <1>1 DEF Good, Bus, OfStage, Staged, Paged, Timed, SameVendor, SameFlags, SamePhy, SameChannel

LEMMA TimerWaitGood ==
  ASSUME NEW mii, NEW page, NEW d, NEW u, Good(d, mii, page), Timed(u, d, "none"),
         d.timer = "running", ~d.closing, d.initStage = InitWaitPhyReady
  PROVE  Good(TimerWaitPhyReady(u), mii, page)
<1> DEFINE e == [u EXCEPT !.retryPending = FALSE]
           b == BeginReadPhy(e, PhyRegisterIdentifier1)
<1>1. TimerWaitPhyReady(u) = IF u.retryPending /\ ~Outstanding(u) THEN b ELSE u
  BY DEF TimerWaitPhyReady
<1>2. /\ u.canUserTransfer = d.canUserTransfer /\ (PhyBusy(u) <=> PhyBusy(d))
      /\ u.retryPending = d.retryPending /\ u.initStage = d.initStage /\ u.closing = d.closing
  BY DEF Timed, SameChannel, SameFlags, PhyBusy
<1>3. PhyBusy(d) => d.canUserTransfer
  BY OpNone DEF Good, Bus
<1>4. ASSUME u.retryPending, ~Outstanding(u)
      PROVE  Good(b, mii, page)
  <2>1. ~d.canUserTransfer
    BY <1>2, <1>4 DEF Outstanding
  <2>2. Ready(u, mii, page)
    BY <2>1, GoodReadyFree, TimedReady
  <2>3. Retried(e, u, FALSE)
    BY Zenon, <2>2, RetrySet DEF Ready
  <2> HIDE DEF e
  <2>4. Ready(e, mii, page) /\ ~e.canUserTransfer /\ ~e.closing
    BY <1>2, <2>1, <2>2, <2>3, RetriedReady DEF Retried, SameChannel
  <2>5. Free(e) /\ PageRead(e, page) /\ ~e.serial
    BY <2>4, ReadyFree
  <2>6. CanBeginPhy(e) /\ PhyRegisterIdentifier1 \in Nat
    BY <2>4, <2>5, FreeBegins DEF PhyRegisterIdentifier1
  <2> QED
    BY <2>5, <2>6, BeginReadGood
<1>5. ASSUME ~(u.retryPending /\ ~Outstanding(u))
      PROVE  Good(u, mii, page)
  <2>1. u.canUserTransfer
    BY <1>2, <1>3, <1>5 DEF Outstanding, Good, Live
  <2> QED
    BY <2>1, StoppedGood DEF Live
<1> HIDE DEF b
<1> QED
  BY <1>1, <1>4, <1>5

(* Reception is stopped to be started again.                                 *)
LEMMA RestartGood ==
  ASSUME NEW mii, NEW page, NEW d, Good(d, mii, page), ~d.closing, d.initStage = InitComplete
  PROVE  /\ Good(RestartReceiving(d), mii, page)
         /\ SamePlace(RestartReceiving(d), d)
<1> DEFINE e == [d EXCEPT !.running = FALSE]
           q == QueueControlTransfer(e, Request("stopReceiving", "none"))
           u == RestartReceiving(d)
<1>1. Typed(e) /\ Same(e, d)
  <2>1. "running" \in Loose /\ FALSE \in Types.running
    BY LooseFields, TypesOf
  <2> QED
    BY Zenon, <2>1, LooseSame DEF Good
<1>2. \/ ~d.canUserTransfer /\ u = QueueOrDrop(e, "stopReceiving")
      \/ u = d
  BY Zenon DEF RestartReceiving, CanQueueControlTransfer
<1> HIDE DEF e, u
<1>3. ASSUME ~d.canUserTransfer
      PROVE  /\ Good(QueueOrDrop(e, "stopReceiving"), mii, page)
             /\ SamePlace(QueueOrDrop(e, "stopReceiving"), d)
  <2>1. Ready(e, mii, page) /\ ~e.closing /\ ~e.canUserTransfer /\ e.initStage = InitComplete
    BY <1>1, <1>3, GoodReadyFree, SameReady DEF Same, SamePlace, SameChannel
  <2>2. Request("stopReceiving", "none") \in Requests
    BY RequestsTyped
  <2>3. QueueOrDrop(e, "stopReceiving") = q
    BY <2>1 DEF QueueOrDrop, CanQueueControlTransfer
  <2>4. Queued(q, e, Request("stopReceiving", "none"))
    BY <1>1, <2>2, QueueFields
  <2> HIDE DEF q
  <2> QED
    BY <1>1, <2>1, <2>2, <2>3, <2>4, QueuedGood DEF Allowed, Queued, Same, SamePlace
<1>4. Good(u, mii, page) /\ SamePlace(u, d)
  BY <1>2, <1>3 DEF SamePlace
<1> QED
  BY <1>4 DEF u

LEMMA PollGood ==
  ASSUME NEW mii, NEW page, NEW d, NEW tick, NEW all \in BOOLEAN, Good(d, mii, page)
  PROVE  /\ Good(PollLink(d, tick, all), mii, page)
         /\ SamePlace(PollLink(d, tick, all), d)
<1> DEFINE distrust == [d EXCEPT !.refreshPending = TRUE, !.authoritative = TRUE,
                                 !.linkPending = TRUE]
           read == IF all THEN BeginReadAllPhy(d) ELSE BeginReadPhy(d, PhyRegisterStatus)
           pending == read.linkPending \/ tick = "fallback"
           noted == [read EXCEPT !.linkPending = pending]
           u == PollLink(d, tick, all)
<1>1. \/ u = noted
      \/ u = BeginReadAllPhy(d)
      \/ u = BeginReadPhy(d, PhyRegisterStatus)
      \/ u = distrust
      \/ u = d
  BY Zenon DEF PollLink
<1> HIDE DEF u
<1>2. /\ Good(BeginReadAllPhy(d), mii, page) /\ SamePlace(BeginReadAllPhy(d), d)
      /\ Good(BeginReadPhy(d, PhyRegisterStatus), mii, page)
      /\ SamePlace(BeginReadPhy(d, PhyRegisterStatus), d)
  BY AnyRead, AnyReadAll DEF PhyRegisterStatus
<1>3. Good(read, mii, page) /\ SamePlace(read, d)
  BY <1>2
<1>4. pending \in BOOLEAN
  OBVIOUS
<1> HIDE DEF read, pending
<1>5. Typed(noted) /\ Same(noted, read)
  <2>1. "linkPending" \in Loose /\ pending \in Types.linkPending
    BY <1>4, LooseFields, TypesOf
  <2> QED
    BY Zenon, <1>3, <2>1, LooseSame DEF Good
<1>6. Typed(distrust) /\ Same(distrust, d)
  <2>1. {"refreshPending", "authoritative", "linkPending"} \subseteq Loose
    BY LooseFields
  <2>2. TRUE \in Types.refreshPending /\ TRUE \in Types.authoritative /\ TRUE \in Types.linkPending
    BY TypesOf
  <2> QED
    BY Zenon, <2>1, <2>2, LooseSame3 DEF Good
<1> HIDE DEF noted, distrust
<1>7. Good(noted, mii, page) /\ SamePlace(noted, d)
  BY <1>3, <1>5, SameGood DEF Same, SamePlace
<1>8. Good(distrust, mii, page) /\ SamePlace(distrust, d)
  BY <1>6, SameGood DEF Same
<1>9. SamePlace(d, d)
  BY DEF SamePlace
<1>10. Good(u, mii, page) /\ SamePlace(u, d)
  BY <1>1, <1>2, <1>7, <1>8, <1>9
<1> QED
  BY <1>10 DEF u

LEMMA TickGood ==
  ASSUME NEW mii, NEW page, NEW d, NEW tick, NEW all \in BOOLEAN, Good(d, mii, page), ~d.closing,
         d.initStage = InitComplete
  PROVE  Good(TimerTick(d, tick, all), mii, page)
<1> DEFINE p == IF tick = "restart" /\ d.linkState = "up" /\ d.running
                THEN RestartReceiving(d) ELSE PollLink(d, tick, all)
           e == [p EXCEPT !.filterPending = FALSE]
           f == IF p.filterPending /\ p.filterStep = "idle" /\ ~p.canUserTransfer
                THEN BeginFilterUpdate(e, FALSE) ELSE p
           u == [f EXCEPT !.timer = "running"]
<1>1. TimerTick(d, tick, all) = u
  BY Zenon DEF TimerTick
<1>2. Good(p, mii, page) /\ p.initStage = InitComplete /\ ~p.closing
  <2>1. Good(RestartReceiving(d), mii, page) /\ SamePlace(RestartReceiving(d), d)
    BY Zenon, RestartGood
  <2>2. Good(PollLink(d, tick, all), mii, page) /\ SamePlace(PollLink(d, tick, all), d)
    BY Zenon, PollGood
  <2>3. Good(p, mii, page) /\ SamePlace(p, d)
    BY Zenon, <2>1, <2>2
  <2> HIDE DEF p
  <2> QED
    BY <2>3 DEF SamePlace
<1> HIDE DEF p
<1>3. Typed(e) /\ Same(e, p)
  <2>1. "filterPending" \in Loose /\ FALSE \in Types.filterPending
    BY LooseFields, TypesOf
  <2> QED
    BY Zenon, <1>2, <2>1, LooseSame DEF Good
<1> HIDE DEF e
<1>4. ASSUME p.filterStep = "idle", ~p.canUserTransfer
      PROVE  /\ Good(BeginFilterUpdate(e, FALSE), mii, page)
             /\ BeginFilterUpdate(e, FALSE).initStage = InitComplete
  <2>1. Ready(e, mii, page) /\ ~e.closing /\ e.initStage = InitComplete
    BY <1>2, <1>3, <1>4, GoodReadyFree, SameReady DEF Same, SamePlace
  <2>2. FilterBegun(BeginFilterUpdate(e, FALSE), e)
    BY <1>3, <1>4, <2>1, FilterBegins DEF Same, SamePlace, SameChannel
  <2> QED
    BY <2>1, <2>2, FilterGood DEF FilterBegun
<1>5. Good(f, mii, page) /\ f.initStage = InitComplete
  BY <1>2, <1>4
<1> HIDE DEF f
<1>6. Timed(u, f, "running")
  BY Zenon, <1>5, TimerSet DEF Good
<1> HIDE DEF u
<1>7. Good(u, mii, page)
  BY <1>5, <1>6, TimedGood
<1> QED
  BY <1>1, <1>7
-----------------------------------------------------------------------------
(* Interrupts, users and the close.                                          *)

LEMMA InterruptGood ==
  ASSUME NEW mii, NEW page, NEW d, NEW reported \in {"down", "up"}, Good(d, mii, page)
  PROVE  LET i == [d EXCEPT !.interrupt = reported]
             n == [i EXCEPT !.refreshPending = TRUE, !.authoritative = TRUE, !.linkPending = TRUE]
         IN  /\ Good(i, mii, page) /\ Good(n, mii, page)
             /\ Good(BeginReadAllPhy(n), mii, page)
<1> DEFINE i == [d EXCEPT !.interrupt = reported]
           n == [i EXCEPT !.refreshPending = TRUE, !.authoritative = TRUE, !.linkPending = TRUE]
<1>1. Typed(i) /\ Same(i, d)
  <2>1. "interrupt" \in Loose /\ reported \in Types.interrupt
    BY LooseFields, TypesOf
  <2> QED
    BY Zenon, <2>1, LooseSame DEF Good
<1> HIDE DEF i
<1>2. Good(i, mii, page)
  BY <1>1, SameGood
<1>3. Typed(n) /\ Same(n, i)
  <2>1. {"refreshPending", "authoritative", "linkPending"} \subseteq Loose
    BY LooseFields
  <2>2. TRUE \in Types.refreshPending /\ TRUE \in Types.authoritative /\ TRUE \in Types.linkPending
    BY TypesOf
  <2> QED
    BY Zenon, <1>1, <2>1, <2>2, LooseSame3
<1> HIDE DEF n
<1>4. Good(n, mii, page) /\ Good(BeginReadAllPhy(n), mii, page)
  BY <1>2, <1>3, SameGood, AnyReadAll
<1> QED
  BY <1>2, <1>4 DEF n, i

LEMMA LinkDownGood ==
  ASSUME NEW mii, NEW page, NEW d, Good(d, mii, page)
  PROVE  Good([d EXCEPT !.linkState = "down", !.told = "down"], mii, page)
<1> DEFINE u == [d EXCEPT !.linkState = "down", !.told = "down"]
<1>1. Typed(u) /\ Same(u, d)
  <2>1. {"linkState", "told"} \subseteq Loose
    BY LooseFields
  <2>2. "down" \in Types.linkState /\ "down" \in Types.told
    BY TypesOf
  <2> QED
    BY Zenon, <2>1, <2>2, LooseSame2 DEF Good
<1> HIDE DEF u
<1>2. Good(u, mii, page)
  BY <1>1, SameGood
<1> QED
  BY <1>2 DEF u

LEMMA UserPhyGood ==
  ASSUME NEW mii, NEW page, NEW d, NEW register \in Registers, Good(d, mii, page), UserMayBegin(d)
  PROVE  /\ Good(BeginReadPhy(d, register), mii, page)
         /\ \A value \in PhyValues : Good(BeginWritePhy(d, register, value), mii, page)
<1>1. ~d.closing /\ ~d.canUserTransfer
  BY DEF UserMayBegin
<1>2. Ready(d, mii, page)
  BY <1>1, GoodReadyFree
<1>3. Free(d) /\ d.realtekStep = "idle" /\ ~d.serial /\ PageRead(d, page) /\ PageAfter(d, page)
  BY <1>1, <1>2, ReadyFree
<1>4. CanBeginPhy(d) /\ register \in Nat
  BY <1>1, <1>3, FreeBegins DEF ControlAssumption
<1>5. \A value \in PhyValues : PageWrite(d, register, value, page)
  BY <1>3 DEF PageWrite, PageAfter, Restores, UsersLeavePage
<1> QED
  BY <1>3, <1>4, <1>5, BeginReadGood, BeginWriteGood

LEMMA AddressGood ==
  ASSUME NEW mii, NEW page, NEW d, NEW address \in Addresses, NEW slot \in {"unicast", "alternate"},
         Good(d, mii, page)
  PROVE  Good(OnUnicastAddressChanged([d EXCEPT ![slot] = address]), mii, page)
<1> DEFINE e == [d EXCEPT ![slot] = address]
           u == OnUnicastAddressChanged(e)
<1>1. Typed(e) /\ Same(e, d)
  <2>1. slot \in Loose /\ address \in Types[slot]
    BY LooseFields, TypesOf
  <2> QED
    BY Zenon, <2>1, LooseSame DEF Good
<1>2. NodeAddress(e) # NoAddress
  <2>1. d = [field \in DOMAIN Types |-> d[field]]
    BY DEF Good, Typed
  <2>2. /\ slot = "unicast" => e.unicast = address
        /\ slot = "alternate" => e.alternate = address
    BY SMT, <2>1, TypesOf
  <2>3. address # NoAddress
    BY DEF Ax88178Assumption
  <2> HIDE DEF e
  <2> QED
    BY <2>2, <2>3 DEF NodeAddress
<1> HIDE DEF e
<1>3. \/ e.initStage = InitWaitingForEthernetAddress /\ u = AdvanceInitStage(e)
      \/ u = WriteNodeId(e)
      \/ u = e
  BY DEF OnUnicastAddressChanged
<1> HIDE DEF u
<1>4. Good(e, mii, page)
  BY <1>1, SameGood
<1>5. WriteNodeId(e) = QueueNodeId(e)
  BY <1>2 DEF WriteNodeId
<1>6. Good(QueueNodeId(e), mii, page)
  BY <1>4, GoodReadyFree, NodeIdQueued, NodeIdDropped
<1>7. ASSUME e.initStage = InitWaitingForEthernetAddress
      PROVE  Good(AdvanceInitStage(e), mii, page)
  <2>1. Op(e) \notin InitOps
    BY <1>4, <1>7 DEF Good, OfStage, InitOps
  <2>2. Op(e) = "none" \/ e.canUserTransfer
    BY OpNone
  <2>3. Op(e) \in InitOps \cup SharedOps \cup {"eeprom", "filter", "stopReceiving", "none"}
    BY <1>4, <2>2, OpSome DEF Good, SharedOps
  <2>4. ~e.closing => /\ Op(e) \notin {"eeprom", "filter", "stopReceiving"}
                      /\ ~e.patching /\ e.realtekStep = "idle"
    BY <1>4, <1>7 DEF Good, Staged
  <2>5. Ready(e, mii, page)
    BY <1>4, <2>1, <2>3, <2>4, GoodReady
  <2> QED
    BY <1>7, <2>5, AdvanceGood
<1>8. Good(u, mii, page)
  BY <1>3, <1>4, <1>5, <1>6, <1>7
<1> QED
  BY <1>8 DEF u, e

LEMMA FilterChangeGood ==
  ASSUME NEW mii, NEW page, NEW d, NEW filter \in Filters, Good(d, mii, page)
  PROVE  Good(UpdateReceiveFilter([d EXCEPT !.filter = filter]), mii, page)
<1> DEFINE e == [d EXCEPT !.filter = filter]
           f == [e EXCEPT !.filterPending = TRUE]
           u == UpdateReceiveFilter(e)
<1>1. Typed(e) /\ Same(e, d)
  <2>1. "filter" \in Loose /\ filter \in Types.filter
    BY LooseFields, TypesOf DEF FilterValues
  <2> QED
    BY Zenon, <2>1, LooseSame DEF Good
<1>2. \/ u = e
      \/ u = f
      \/ /\ ~(e.initStage < InitStartReceiving) /\ ~e.closing
         /\ ~(e.filterStep # "idle" \/ e.canUserTransfer)
         /\ u = BeginFilterUpdate(e, FALSE)
  BY Zenon DEF UpdateReceiveFilter
<1> HIDE DEF e, u
<1>3. Good(e, mii, page)
  BY <1>1, SameGood
<1>4. Typed(f) /\ Same(f, e)
  <2>1. "filterPending" \in Loose /\ TRUE \in Types.filterPending
    BY LooseFields, TypesOf
  <2> QED
    BY Zenon, <1>1, <2>1, LooseSame
<1> HIDE DEF f
<1>5. Good(f, mii, page)
  BY <1>3, <1>4, SameGood
<1>6. ASSUME ~(e.initStage < InitStartReceiving), ~e.closing, ~e.canUserTransfer
      PROVE  Good(BeginFilterUpdate(e, FALSE), mii, page)
  <2>1. e.initStage \in InitStages
    BY <1>1, Fields
  <2>2. e.initStage \in {InitStartReceiving, InitComplete}
    BY <1>6, <2>1
  <2> QED
    BY <1>3, <1>6, <2>2, GoodReadyFree, FilterGood
<1>7. Good(u, mii, page)
  BY <1>2, <1>3, <1>5, <1>6
<1> QED
  BY <1>7 DEF u, e

LEMMA CloseGood ==
  ASSUME NEW mii, NEW page, NEW d, Good(d, mii, page)
  PROVE  Good([d EXCEPT !.closing = TRUE, !.timer = "none", !.linkState = "down"], mii, page)
<1> DEFINE u == [d EXCEPT !.closing = TRUE, !.timer = "none", !.linkState = "down"]
<1>1. Typed(u)
  <2>1. {"closing", "timer", "linkState"} \subseteq DOMAIN Types
    BY Zenon, TypesOf
  <2>2. TRUE \in Types.closing /\ "none" \in Types.timer /\ "down" \in Types.linkState
    BY TypesOf
  <2> QED
    BY Zenon, <2>1, <2>2, Put3 DEF Good
<1>2. /\ u.initStage = d.initStage /\ SameFlags(u, d) /\ SameChannel(u, d)
      /\ u.closing /\ u.timer = "none"
  BY SMT, TypesOf DEF Good, Typed, SameFlags, SameChannel
<1> HIDE DEF u
<1>3. Op(u) = Op(d) /\ (PhyBusy(u) <=> PhyBusy(d))
  BY <1>2, OpOf
<1>4. Good(u, mii, page)
  BY <1>1, <1>2, <1>3 DEF Good, Bus, OfStage, SameFlags, SameChannel
<1> QED
  BY <1>4 DEF u

-----------------------------------------------------------------------------
(* The initial device.                                                       *)

NewDevice(eeprom, title, debug, filter) ==
  [Device EXCEPT !.mode = eeprom.mode, !.led = eeprom.led, !.filter = filter,
                 !.kernel = [title |-> title, debug |-> debug]]

Blank(d) ==
  /\ Typed(d)
  /\ ~d.canUserTransfer /\ d.request = NoRequest /\ ~d.phyRead /\ ~d.phyWrite
  /\ ~d.serial /\ d.timer = "none" /\ d.filterStep = "idle" /\ ~d.patching
  /\ d.realtekStep = "idle" /\ d.ledStep = "idle" /\ ~d.refresh
  /\ d.initStage = InitBeginning

LEMMA DeviceTyped ==
  ASSUME NEW eeprom \in Eeproms, NEW title \in Addresses \cup {NoAddress},
         NEW debug \in Addresses \cup {NoAddress}, NEW filter \in Filters
  PROVE  Blank(NewDevice(eeprom, title, debug, filter))
<1>1. DOMAIN ControlFields =
        {"canUserTransfer", "transferInProgress", "active", "closing", "request", "onUsb",
         "signalled", "waiters", "woken"}
  BY DEF ControlFields
<1>2. DOMAIN ControlFields \cup DOMAIN BackendFields = DOMAIN Types
  BY <1>1, TypesOf DEF BackendFields
<1>3. Device = [field \in DOMAIN Types |->
                 IF field \in DOMAIN ControlFields THEN ControlFields[field] ELSE BackendFields[field]]
  BY Zenon, <1>2 DEF Device
<1>4. \A field \in DOMAIN ControlFields : ControlFields[field] \in Types[field]
  <2>1. /\ ControlFields.canUserTransfer \in Types.canUserTransfer
        /\ ControlFields.transferInProgress \in Types.transferInProgress
        /\ ControlFields.active \in Types.active /\ ControlFields.closing \in Types.closing
        /\ ControlFields.request \in Types.request /\ ControlFields.onUsb \in Types.onUsb
        /\ ControlFields.signalled \in Types.signalled /\ ControlFields.waiters \in Types.waiters
        /\ ControlFields.woken \in Types.woken
    BY TypesOf DEF ControlFields
  <2> QED
    BY <1>1, <2>1
<1>5. \A field \in DOMAIN BackendFields : BackendFields[field] \in Types[field]
  <2>1. NoFilter \in FilterValues /\ NoFilter = [hash |-> "none", rx |-> "stop"]
    BY DEF FilterValues, NoFilter
  <2>2. "none" \in {f.hash : f \in FilterValues}
    BY <2>1
  <2>3. 0 \in 0 .. PatchCount - 1 /\ 0 \in 0 .. PhyReadyRetryLimit
    BY DEF Ax88178Assumption
  <2>4. [title |-> NoAddress, debug |-> NoAddress] \in Types.kernel
    BY TypesOf
  <2>5. /\ BackendFields.initStage \in Types.initStage /\ BackendFields.timer \in Types.timer
        /\ BackendFields.kernel \in Types.kernel /\ BackendFields.unicast \in Types.unicast
        /\ BackendFields.alternate \in Types.alternate /\ BackendFields.phyRead \in Types.phyRead
        /\ BackendFields.phyWrite \in Types.phyWrite /\ BackendFields.serial \in Types.serial
        /\ BackendFields.phyRegister \in Types.phyRegister
    BY <2>1, <2>2, <2>3, <2>4, TypesOf DEF BackendFields, PhyValues, NoFilter
  <2>6. /\ BackendFields.phyValue \in Types.phyValue /\ BackendFields.readAll \in Types.readAll
        /\ BackendFields.refresh \in Types.refresh
        /\ BackendFields.linkPending \in Types.linkPending
        /\ BackendFields.notify \in Types.notify /\ BackendFields.phyLink \in Types.phyLink
        /\ BackendFields.linkState \in Types.linkState /\ BackendFields.told \in Types.told
        /\ BackendFields.interrupt \in Types.interrupt
    BY <2>1, <2>2, <2>3, <2>4, TypesOf DEF BackendFields, PhyValues, NoFilter
  <2>7. /\ BackendFields.refreshPending \in Types.refreshPending
        /\ BackendFields.authoritative \in Types.authoritative
        /\ BackendFields.eepromValid \in Types.eepromValid
        /\ BackendFields.configStep \in Types.configStep
        /\ BackendFields.configInitial \in Types.configInitial /\ BackendFields.mode \in Types.mode
        /\ BackendFields.led \in Types.led /\ BackendFields.ledStep \in Types.ledStep
        /\ BackendFields.lastLed \in Types.lastLed
    BY <2>1, <2>2, <2>3, <2>4, TypesOf DEF BackendFields, PhyValues, NoFilter
  <2>8. /\ BackendFields.realtekStep \in Types.realtekStep
        /\ BackendFields.realtekFailed \in Types.realtekFailed
        /\ BackendFields.patching \in Types.patching
        /\ BackendFields.patchIndex \in Types.patchIndex
        /\ BackendFields.patchFailed \in Types.patchFailed
        /\ BackendFields.retries \in Types.retries
        /\ BackendFields.retryPending \in Types.retryPending
        /\ BackendFields.filter \in Types.filter
        /\ BackendFields.filterStep \in Types.filterStep
    BY <2>1, <2>2, <2>3, <2>4, TypesOf DEF BackendFields, PhyValues, NoFilter
  <2>9. /\ BackendFields.filterPending \in Types.filterPending
        /\ BackendFields.pendingFilter \in Types.pendingFilter
        /\ BackendFields.hash \in Types.hash /\ BackendFields.submitRing \in Types.submitRing
        /\ BackendFields.running \in Types.running
        /\ BackendFields.addressLost \in Types.addressLost
        /\ BackendFields.nodeIdFailed \in Types.nodeIdFailed
        /\ BackendFields.hashLost \in Types.hashLost
        /\ BackendFields.pageLost \in Types.pageLost
    BY <2>1, <2>2, <2>3, <2>4, TypesOf DEF BackendFields, PhyValues, NoFilter
  <2>10. DOMAIN BackendFields =
           {"initStage", "timer", "kernel", "unicast", "alternate", "phyRead", "phyWrite",
            "serial", "phyRegister", "phyValue", "readAll", "refresh", "linkPending", "notify",
            "phyLink", "linkState", "told", "interrupt", "refreshPending", "authoritative",
            "eepromValid", "configStep", "configInitial", "mode", "led", "ledStep", "lastLed",
            "realtekStep", "realtekFailed", "patching", "patchIndex", "patchFailed", "retries",
            "retryPending", "filter", "filterStep", "filterPending", "pendingFilter", "hash",
            "submitRing", "running", "addressLost", "nodeIdFailed", "hashLost", "pageLost"}
    BY DEF BackendFields
  <2> QED
    BY <2>10, <2>5, <2>6, <2>7, <2>8, <2>9
<1>6. Typed(Device)
  BY Zenon, <1>2, <1>3, <1>4, <1>5 DEF Typed
<1>7. /\ Device.canUserTransfer = FALSE /\ Device.request = NoRequest
  BY <1>1, <1>3, TypesOf DEF ControlFields
<1>8. /\ Device.phyRead = FALSE /\ Device.phyWrite = FALSE /\ Device.serial = FALSE
      /\ Device.timer = "none" /\ Device.filterStep = "idle" /\ Device.patching = FALSE
      /\ Device.realtekStep = "idle" /\ Device.ledStep = "idle" /\ Device.refresh = FALSE
      /\ Device.initStage = InitBeginning
  BY <1>1, <1>3, TypesOf DEF BackendFields
<1> DEFINE kernel == [title |-> title, debug |-> debug]
           d == [Device EXCEPT !.mode = eeprom.mode, !.led = eeprom.led, !.filter = filter,
                               !.kernel = kernel]
<1>9. Typed(d)
  <2>1. {"mode", "led", "filter", "kernel"} \subseteq DOMAIN Types
    BY Zenon, TypesOf
  <2>2. eeprom \in [mode : {"marvell", "realtek", "patch", "none"}, led : BOOLEAN]
    BY DEF Ax88178Assumption
  <2>3. eeprom.mode \in Types.mode /\ eeprom.led \in Types.led
    BY <2>2, TypesOf
  <2>4. filter \in Types.filter /\ kernel \in Types.kernel
    BY TypesOf DEF FilterValues
  <2> HIDE DEF kernel
  <2> QED
    BY Zenon, <1>6, <2>1, <2>3, <2>4, Put4
<1>10. /\ ~d.canUserTransfer /\ d.request = NoRequest /\ ~d.phyRead /\ ~d.phyWrite
       /\ ~d.serial /\ d.timer = "none" /\ d.filterStep = "idle" /\ ~d.patching
       /\ d.realtekStep = "idle" /\ d.ledStep = "idle" /\ ~d.refresh
       /\ d.initStage = InitBeginning
  <2> HIDE DEF kernel
  <2> QED
    BY <1>6, <1>7, <1>8, SMT, TypesOf DEF Typed
<1>11. NewDevice(eeprom, title, debug, filter) = d
  BY Zenon DEF d, kernel, NewDevice
<1> HIDE DEF d
<1>12. Blank(d)
  BY <1>9, <1>10 DEF Blank
<1> QED
  BY Zenon, <1>11, <1>12

LEMMA InitInvariant ==
  Init => IInv
<1> SUFFICES ASSUME Init
             PROVE  IInv
  OBVIOUS
<1>1. /\ regs.softwareMii = FALSE /\ regs.page = "zero" /\ regs \in RegsType
  <2>1. NoFilter \in FilterValues /\ NoFilter.hash = "none" /\ NoFilter.rx = "stop"
    BY DEF FilterValues, NoFilter
  <2>2. "none" \in {f.hash : f \in FilterValues} /\ "stop" \in {f.rx : f \in FilterValues}
    BY <2>1
  <2>3. regs = [nodeId |-> NoAddress, hash |-> "none", rx |-> "stop",
                softwareMii |-> FALSE, page |-> "zero"]
    BY DEF Init
  <2> QED
    BY <2>2, <2>3 DEF RegsType, PhyValues
<1>2. Good(dev, regs.softwareMii, regs.page)
  <2>1. PICK eeprom \in Eeproms, title \in Addresses \cup {NoAddress},
             debug \in Addresses \cup {NoAddress}, filter \in Filters :
          dev = AdvanceInitStage(NewDevice(eeprom, title, debug, filter))
    BY Zenon DEF Init, NewDevice
  <2>2. PICK d : d = NewDevice(eeprom, title, debug, filter)
    OBVIOUS
  <2>3. Blank(d)
    BY Zenon, <2>2, DeviceTyped
  <2>4. dev = AdvanceInitStage(d)
    BY Zenon, <2>1, <2>2
  <2> DEFINE mii == regs.softwareMii
             page == regs.page
  <2>5. Free(d) /\ PageAfter(d, page)
    BY <1>1, <2>3 DEF Blank, Free, PageAfter, Restores
  <2>6. d.initStage # InitComplete
    BY <2>3 DEF Blank
  <2> HIDE DEF mii, page
  <2>7. Ready(d, mii, page)
    BY <2>3, <2>5, FreeReady DEF Blank
  <2>8. Good(AdvanceInitStage(d), mii, page)
    BY Zenon, <2>6, <2>7, AdvanceGood
  <2> QED
    BY Zenon, <2>4, <2>8 DEF mii, page
<1>3. link \in {"down", "up"} /\ events \in 0 .. MaxEvents
  BY DEF Init, Ax88178Assumption
<1> QED
  BY <1>1, <1>2, <1>3 DEF IInv

-----------------------------------------------------------------------------
(* The steps.                                                                *)

(* What the adapter makes of its registers.                                  *)
LEMMA PerformedTyped ==
  ASSUME IInv, dev.canUserTransfer
  PROVE  /\ Performed \in RegsType
         /\ Performed.softwareMii = After(dev, regs.softwareMii)
         /\ Performed.page = PageSet(dev, regs.page)
<1>1. Typed(dev) /\ dev.request \in Requests /\ dev.phyValue \in PhyValues
  BY Fields DEF IInv, Good
<1>2. dev.pendingFilter \in FilterValues
  <2>1. dev["pendingFilter"] \in Types["pendingFilter"]
    BY Zenon, <1>1, TypesOf DEF Typed
  <2> QED
    BY <2>1, TypesOf
<1>3. Op(dev) = "writeNodeId" => dev.request.value \in Addresses \cup {NoAddress}
  BY <1>1 DEF Op, Requests, InitOps, PhyOps
<1>4. \/ /\ Op(dev) = "writeNodeId" /\ Performed = [regs EXCEPT !.nodeId = dev.request.value]
      \/ /\ Op(dev) = "acquire" /\ Performed = [regs EXCEPT !.softwareMii = TRUE]
      \/ /\ Op(dev) = "release" /\ Performed = [regs EXCEPT !.softwareMii = FALSE]
      \/ /\ Op(dev) = "stopReceiving" /\ Performed = [regs EXCEPT !.rx = "stop"]
      \/ /\ Op(dev) = "filter" /\ Performed = [regs EXCEPT !.hash = dev.pendingFilter.hash]
      \/ /\ Op(dev) = "filter" /\ Performed = [regs EXCEPT !.rx = dev.pendingFilter.rx]
      \/ /\ Op(dev) = "writePhy" /\ dev.phyRegister = PhyRegisterPage
         /\ Performed = [regs EXCEPT !.page = dev.phyValue]
      \/ /\ Op(dev) \notin {"acquire", "release"}
         /\ ~(Op(dev) = "writePhy" /\ dev.phyRegister = PhyRegisterPage)
         /\ Performed = regs
  BY DEF Performed
<1>5. regs \in RegsType
  BY DEF IInv
<1>6. "stop" \in {f.rx : f \in FilterValues}
  <2>1. NoFilter \in FilterValues /\ NoFilter.rx = "stop"
    BY DEF FilterValues, NoFilter
  <2> QED
    BY <2>1
<1>7. /\ dev.pendingFilter.hash \in {f.hash : f \in FilterValues}
      /\ dev.pendingFilter.rx \in {f.rx : f \in FilterValues}
  BY <1>2
<1>8. Performed \in RegsType
  <2>1. /\ \A a \in Addresses \cup {NoAddress} : [regs EXCEPT !.nodeId = a] \in RegsType
        /\ \A b \in BOOLEAN : [regs EXCEPT !.softwareMii = b] \in RegsType
        /\ \A v \in PhyValues : [regs EXCEPT !.page = v] \in RegsType
    BY <1>5 DEF RegsType
  <2>2. /\ \A h \in {f.hash : f \in FilterValues} : [regs EXCEPT !.hash = h] \in RegsType
        /\ \A r \in {f.rx : f \in FilterValues} : [regs EXCEPT !.rx = r] \in RegsType
    BY <1>5 DEF RegsType
  <2> QED
    BY Zenon, <1>1, <1>3, <1>4, <1>5, <1>6, <1>7, <2>1, <2>2
<1>9. Performed.softwareMii = After(dev, regs.softwareMii)
  BY <1>4, <1>5 DEF RegsType, After
<1>10. Performed.page = PageSet(dev, regs.page)
  BY <1>4, <1>5 DEF RegsType, PageSet
<1> QED
  BY <1>8, <1>9, <1>10

(* A request that succeeds, and one that fails, on the adapter or before it.   *)
LEMMA RequestSucceeded ==
  ASSUME NEW mii, NEW page, NEW d, Good(d, mii, page), d.canUserTransfer,
         NEW v \in [value: {"identifier", "other"}, link: {"down", "up"}, news: BOOLEAN]
  PROVE  Good(CompleteRequest(d, TRUE, v), After(d, mii), PageSet(d, page))
<1> DEFINE mii2 == After(d, mii)
           page2 == PageSet(d, page)
           ok == TRUE
<1>1. /\ mii2 = After(d, mii) /\ page2 = PageSet(d, page)
      /\ ok \in BOOLEAN /\ ok = TRUE
  OBVIOUS
<1> HIDE DEF mii2, page2, ok
<1>2. Good(CompleteRequest(d, ok, v), mii2, page2)
  BY Zenon, <1>1, RequestCompleted
<1> QED
  BY Zenon, <1>1, <1>2

LEMMA RequestFailed ==
  ASSUME NEW mii, NEW page, NEW d, Good(d, mii, page), d.canUserTransfer,
         NEW v \in [value: {"identifier", "other"}, link: {"down", "up"}, news: BOOLEAN]
  PROVE  /\ Good(CompleteRequest(d, FALSE, v), mii, page)
         /\ Good(CompleteRequest(d, FALSE, v), After(d, mii), PageSet(d, page))
<1> DEFINE mii2 == After(d, mii)
           page2 == PageSet(d, page)
           ok == FALSE
<1>1. /\ mii2 = After(d, mii) /\ page2 = PageSet(d, page)
      /\ ok \in BOOLEAN /\ ok = FALSE
  OBVIOUS
<1> HIDE DEF mii2, page2, ok
<1>2. ~ok
  BY <1>1
<1>3. Good(CompleteRequest(d, ok, v), mii2, page2)
  BY Zenon, <1>1, RequestCompleted
<1>4. Good(CompleteRequest(d, ok, v), mii, page)
  BY Zenon, <1>1, <1>2, RequestCompleted
<1> QED
  BY Zenon, <1>1, <1>3, <1>4

LEMMA NextInvariant ==
  IInv /\ [Next]_vars => IInv'
<1> SUFFICES ASSUME IInv, [Next]_vars
             PROVE  IInv'
  OBVIOUS
<1> DEFINE mii == regs.softwareMii
           page == regs.page
<1>1. /\ Good(dev, mii, page) /\ Typed(dev) /\ regs \in RegsType
      /\ link \in {"down", "up"} /\ events \in 0 .. MaxEvents
  BY DEF IInv, Good
(* Most steps leave the registers of the adapter alone.                      *)
<1>2. ASSUME Good(dev', mii, page), UNCHANGED <<regs, link>>, events' \in 0 .. MaxEvents
      PROVE  IInv'
  BY <1>1, <1>2 DEF IInv
<1>3. events < MaxEvents => events + 1 \in 0 .. MaxEvents
  BY <1>1 DEF Ax88178Assumption
<1>4. CASE SucceedRequest
  <2>1. PICK v \in ReadResults : dev' = CompleteRequest(dev, TRUE, v)
    BY <1>4 DEF SucceedRequest
  <2>2. v \in [value: {"identifier", "other"}, link: {"down", "up"}, news: BOOLEAN]
    BY <2>1 DEF ReadResults
  <2>3. dev.canUserTransfer /\ regs' = Performed /\ UNCHANGED <<link, events>>
    BY <1>4 DEF SucceedRequest
  <2>4. Good(CompleteRequest(dev, TRUE, v), After(dev, mii), PageSet(dev, page))
    BY Zenon, <1>1, <2>2, <2>3, RequestSucceeded
  <2>5. /\ regs' \in RegsType /\ regs'.softwareMii = After(dev, mii)
        /\ regs'.page = PageSet(dev, page)
    BY <2>3, PerformedTyped
  <2>6. Good(dev', regs'.softwareMii, regs'.page)
    BY Zenon, <2>1, <2>4, <2>5
  <2> QED
    BY <1>1, <2>3, <2>5, <2>6 DEF IInv
<1>5. CASE FailRequest
  <2> DEFINE v == [value |-> "other", link |-> link, news |-> FALSE]
  <2>1. v \in [value: {"identifier", "other"}, link: {"down", "up"}, news: BOOLEAN]
    BY <1>1
  <2>2. /\ dev.canUserTransfer /\ (dev.closing \/ events < MaxEvents)
        /\ events' = IF dev.closing THEN events ELSE events + 1
        /\ regs' \in {regs, Performed}
        /\ dev' = CompleteRequest(dev, FALSE, v) /\ link' = link
    BY Zenon, <1>5 DEF FailRequest
  <2> HIDE DEF v
  <2>3. /\ Good(CompleteRequest(dev, FALSE, v), mii, page)
        /\ Good(CompleteRequest(dev, FALSE, v), After(dev, mii), PageSet(dev, page))
    BY Zenon, <1>1, <2>1, <2>2, RequestFailed
  <2>4. regs' = regs \/ /\ regs' \in RegsType /\ regs'.softwareMii = After(dev, mii)
                        /\ regs'.page = PageSet(dev, page)
    BY <2>2, PerformedTyped
  <2>5. Good(dev', regs'.softwareMii, regs'.page)
    BY Zenon, <2>2, <2>3, <2>4
  <2>6. events' \in 0 .. MaxEvents /\ regs' \in RegsType
    BY <1>1, <1>3, <2>2, <2>4
  <2> QED
    BY <1>1, <2>2, <2>5, <2>6 DEF IInv
<1>6. CASE TimerAdvance
  <2>1. Good(AdvanceInitStage([dev EXCEPT !.timer = "none"]), mii, page)
    BY <1>1, <1>6, AdvanceTimerGood DEF TimerAdvance
  <2> QED
    BY <1>1, <1>2, <1>6, <2>1 DEF TimerAdvance
<1>7. ASSUME NEW tick \in Ticks, NEW all \in BOOLEAN, RunTimer(tick, all)
      PROVE  IInv'
  <2> DEFINE d == [dev EXCEPT !.timer = "none"]
  <2>1. /\ dev.timer = "running" /\ UNCHANGED <<regs, link>> /\ events' \in 0 .. MaxEvents
    BY <1>1, <1>3, <1>7 DEF RunTimer
  <2>2. \/ /\ dev' = d
           /\ \/ d.closing
              \/ /\ d.initStage # InitWaitPhyReady /\ d.initStage # InitComplete
                 /\ ~(d.initStage = InitStartReceiving /\ d.filterStep = "idle")
        \/ ~d.closing /\ d.initStage = InitWaitPhyReady /\ dev' = TimerWaitPhyReady(d)
        \/ /\ ~d.closing /\ d.initStage = InitStartReceiving /\ d.filterStep = "idle"
           /\ dev' = BeginFilterUpdate(d, TRUE)
        \/ ~d.closing /\ d.initStage = InitComplete /\ dev' = TimerTick(d, tick, all)
    <3> DEFINE w == TimerWaitPhyReady(d)
               b == BeginFilterUpdate(d, TRUE)
               t == TimerTick(d, tick, all)
    <3>1. dev' = CASE d.closing -> d
                   [] ~d.closing /\ d.initStage = InitWaitPhyReady -> w
                   [] ~d.closing /\ d.initStage = InitStartReceiving /\ d.filterStep = "idle" -> b
                   [] ~d.closing /\ d.initStage = InitComplete -> t
                   [] OTHER -> d
      BY Zenon, <1>7 DEF RunTimer
    <3> HIDE DEF d, w, b, t
    <3>2. \/ /\ dev' = d
             /\ \/ d.closing
                \/ /\ d.initStage # InitWaitPhyReady /\ d.initStage # InitComplete
                   /\ ~(d.initStage = InitStartReceiving /\ d.filterStep = "idle")
          \/ ~d.closing /\ d.initStage = InitWaitPhyReady /\ dev' = w
          \/ /\ ~d.closing /\ d.initStage = InitStartReceiving /\ d.filterStep = "idle"
             /\ dev' = b
          \/ ~d.closing /\ d.initStage = InitComplete /\ dev' = t
      BY <3>1
    <3> QED
      BY Zenon, <3>2 DEF w, b, t
  <2>3. Timed(d, dev, "none")
    BY Zenon, <1>1, TimerSet
  <2> HIDE DEF d
  <2>4. d.closing = dev.closing /\ d.initStage = dev.initStage /\ d.filterStep = dev.filterStep
    BY <2>3 DEF Timed
  <2>5. ASSUME ~d.closing, d.initStage = InitWaitPhyReady
        PROVE  Good(TimerWaitPhyReady(d), mii, page)
    BY <1>1, <2>1, <2>3, <2>4, <2>5, TimerWaitGood
  <2>6. ASSUME ~d.closing, d.initStage = InitStartReceiving, d.filterStep = "idle"
        PROVE  Good(BeginFilterUpdate(d, TRUE), mii, page)
    <3>1. Op(dev) \notin InitOps
      BY <1>1, <2>4, <2>6 DEF Good, OfStage, InitOps
    <3>2. Op(dev) = "none" \/ dev.canUserTransfer
      BY OpNone
    <3>3. Op(dev) \in InitOps \cup SharedOps \cup {"eeprom", "filter", "stopReceiving", "none"}
      BY <1>1, <3>2, OpSome DEF Good, SharedOps
    <3>4. Op(dev) \notin {"eeprom", "filter", "stopReceiving"} /\ ~dev.patching
          /\ dev.realtekStep = "idle"
      BY <1>1, <2>4, <2>6 DEF Good, Staged
    <3>5. Ready(d, mii, page)
      BY <1>1, <2>3, <3>1, <3>3, <3>4, GoodReady, TimedReady
    <3> QED
      BY <2>6, <3>5, FilterGood
  <2>7. ASSUME ~d.closing, d.initStage = InitComplete
        PROVE  Good(TimerTick(d, tick, all), mii, page)
    <3>1. Good(d, mii, page)
      BY <1>1, <2>1, <2>3, <2>7, StoppedGood DEF Live
    <3> QED
      BY <2>7, <3>1, TickGood
  <2>8. ASSUME d.closing \/ /\ d.initStage # InitWaitPhyReady /\ d.initStage # InitComplete
                            /\ ~(d.initStage = InitStartReceiving /\ d.filterStep = "idle")
        PROVE  Good(d, mii, page)
    <3>1. ~dev.closing => Live(d)
      <4> SUFFICES ASSUME ~dev.closing
                   PROVE  Live(d)
        OBVIOUS
      <4>1. Live(dev) /\ Staged(dev)
        BY <1>1 DEF Good
      <4>2. dev.filterStep # "idle" => dev.canUserTransfer
        BY <4>1, OpNone DEF Staged
      <4> QED
        BY <2>1, <2>3, <2>4, <2>8, <4>1, <4>2, Fields, <1>1 DEF Live, Timed, SameChannel
    <3> QED
      BY <1>1, <2>1, <2>3, <3>1, StoppedGood
  <2>9. Good(dev', mii, page)
    BY <2>2, <2>5, <2>6, <2>7, <2>8
  <2> QED
    BY <1>2, <2>1, <2>9
<1>8. CASE ProcessInterruptLinkStatus
  <2> DEFINE i == [dev EXCEPT !.interrupt = link]
             n == [i EXCEPT !.refreshPending = TRUE, !.authoritative = TRUE, !.linkPending = TRUE]
             news == dev.interrupt # link \/ (link = "up" /\ dev.linkState = "down")
             r == IF ~news THEN i ELSE IF Outstanding(n) THEN n ELSE BeginReadAllPhy(n)
  <2>1. /\ dev' = IF link = "up" \/ r.linkState = "down" THEN r
                  ELSE [r EXCEPT !.linkState = "down", !.told = "down"]
        /\ UNCHANGED <<regs, link, events>>
    BY Zenon, <1>8 DEF ProcessInterruptLinkStatus
  <2>2. Good(i, mii, page) /\ Good(n, mii, page) /\ Good(BeginReadAllPhy(n), mii, page)
    BY Zenon, <1>1, InterruptGood
  <2>3. Good(r, mii, page)
    BY Zenon, <2>2
  <2> HIDE DEF r
  <2>4. Good([r EXCEPT !.linkState = "down", !.told = "down"], mii, page)
    BY Zenon, <2>3, LinkDownGood
  <2>5. Good(dev', mii, page)
    BY Zenon, <2>1, <2>3, <2>4
  <2> QED
    BY <1>1, <1>2, <2>1, <2>5
<1>9. CASE LinkChanges
  <2>1. /\ dev' = dev /\ regs' = regs /\ link' \in {"down", "up"} /\ events' \in 0 .. MaxEvents
    BY <1>3, <1>9 DEF LinkChanges
  <2> QED
    BY <1>1, <2>1 DEF IInv
<1>10. ASSUME NEW register \in Registers, NEW write \in BOOLEAN,
              BeginUserPhyTransfer(register, write)
       PROVE  IInv'
  <2>1. /\ UserMayBegin(dev) /\ events' \in 0 .. MaxEvents /\ UNCHANGED <<regs, link>>
    BY <1>3, <1>10 DEF BeginUserPhyTransfer
  <2>2. \/ dev' = BeginReadPhy(dev, register)
        \/ \E value \in {"identifier", "other"} : dev' = BeginWritePhy(dev, register, value)
    BY <1>10 DEF BeginUserPhyTransfer
  <2>3. Good(dev', mii, page)
    BY <1>1, <2>1, <2>2, UserPhyGood DEF PhyValues
  <2> QED
    BY <1>2, <2>1, <2>3
<1>11. ASSUME NEW address \in Addresses, NEW slot \in {"unicast", "alternate"},
              NicSetUnicastAddress(address, slot)
       PROVE  IInv'
  <2>1. /\ dev' = OnUnicastAddressChanged([dev EXCEPT ![slot] = address])
        /\ events' \in 0 .. MaxEvents /\ UNCHANGED <<regs, link>>
    BY <1>3, <1>11 DEF NicSetUnicastAddress
  <2>2. Good(OnUnicastAddressChanged([dev EXCEPT ![slot] = address]), mii, page)
    BY Zenon, <1>1, AddressGood
  <2>3. Good(dev', mii, page)
    BY Zenon, <2>1, <2>2
  <2> QED
    BY <1>2, <2>1, <2>3
<1>12. ASSUME NEW filter \in Filters, ChangeReceiveFilter(filter)
       PROVE  IInv'
  <2>1. /\ dev' = UpdateReceiveFilter([dev EXCEPT !.filter = filter])
        /\ events' \in 0 .. MaxEvents /\ UNCHANGED <<regs, link>>
    BY <1>3, <1>12 DEF ChangeReceiveFilter
  <2>2. Good(UpdateReceiveFilter([dev EXCEPT !.filter = filter]), mii, page)
    BY Zenon, <1>1, FilterChangeGood
  <2>3. Good(dev', mii, page)
    BY Zenon, <2>1, <2>2
  <2> QED
    BY <1>2, <2>1, <2>3
<1>13. CASE BeginClose
  <2>1. /\ dev' = [dev EXCEPT !.closing = TRUE, !.timer = "none", !.linkState = "down"]
        /\ events' \in 0 .. MaxEvents /\ UNCHANGED <<regs, link>>
    BY <1>3, <1>13 DEF BeginClose
  <2>2. Good(dev', mii, page)
    BY Zenon, <1>1, <2>1, CloseGood
  <2> QED
    BY <1>2, <2>1, <2>2
<1>14. CASE UNCHANGED vars
  BY <1>1, <1>2, <1>14 DEF vars
<1> QED
  BY <1>4, <1>5, <1>6, <1>7, <1>8, <1>9, <1>10, <1>11, <1>12, <1>13, <1>14 DEF Next

(* The inductive invariant.  The handlers complete requests one at a time on  *)
(* the single control URB; what each handler, and each function it calls, may *)
(* assume of the device and leaves behind it is what the lemmas above say.    *)
THEOREM Invariant ==
  Spec => []IInv
<1>1. Init => IInv
  BY InitInvariant
<1>2. IInv /\ [Next]_vars => IInv'
  BY NextInvariant
<1> QED
  BY <1>1, <1>2, PTL DEF Spec

(* The fields of the device stay in their domains.                           *)
THEOREM TypesHold ==
  Spec => []TypeOK
<1>1. IInv => TypeOK
  <2> SUFFICES ASSUME IInv
               PROVE  TypeOK
    OBVIOUS
  <2>1. Typed(dev) /\ regs.nodeId \in Addresses \cup {NoAddress}
    BY DEF IInv, Good, RegsType
  <2>2. /\ dev["initStage"] \in Types["initStage"] /\ dev["timer"] \in Types["timer"]
        /\ dev["unicast"] \in Types["unicast"] /\ dev["alternate"] \in Types["alternate"]
        /\ dev["phyValue"] \in Types["phyValue"] /\ dev["configStep"] \in Types["configStep"]
        /\ dev["realtekStep"] \in Types["realtekStep"] /\ dev["ledStep"] \in Types["ledStep"]
        /\ dev["filterStep"] \in Types["filterStep"] /\ dev["patchIndex"] \in Types["patchIndex"]
        /\ dev["retries"] \in Types["retries"] /\ dev["interrupt"] \in Types["interrupt"]
        /\ dev["linkState"] \in Types["linkState"] /\ dev["told"] \in Types["told"]
    BY ZenonT(40), <2>1, TypesOf DEF Typed
  <2>3. /\ dev.initStage \in InitStages /\ dev.timer \in {"none", "advance", "running"}
        /\ dev.unicast \in Addresses \cup {NoAddress}
        /\ dev.alternate \in Addresses \cup {NoAddress}
        /\ dev.phyValue \in PhyValues /\ dev.configStep \in {"idle", "enable", "read", "disable"}
        /\ dev.realtekStep \in RealtekSteps \cup {"idle"}
        /\ dev.ledStep \in {"idle", "read", "write"}
        /\ dev.filterStep \in {"idle", "hash", "rx"} /\ dev.patchIndex \in 0 .. PatchCount - 1
        /\ dev.retries \in 0 .. PhyReadyRetryLimit /\ dev.interrupt \in {"none", "down", "up"}
        /\ dev.linkState \in {"down", "up"} /\ dev.told \in {"down", "up"}
    BY <2>2, TypesOf
  <2>4. link \in {"down", "up"} /\ events \in 0 .. MaxEvents
    BY DEF IInv
  <2> QED
    BY <2>1, <2>3, <2>4 DEF TypeOK, PhyValues
<1> QED
  BY <1>1, Invariant, PTL

(* The device's flags and its outstanding request agree, whatever transactions *)
(* of init, users, LED and link interleave, fail or chain: see RequestsOwned.  *)
THEOREM RequestsAlwaysOwned ==
  Spec => []RequestsOwned
<1>1. IInv /\ TypeOK => RequestsOwned
  BY DEF IInv, Good, Bus, OfStage, RequestsOwned
<1> QED
  BY <1>1, Invariant, TypesHold, PTL

(* A device that is not ready has somebody to go on with its init, except in  *)
(* the two stages where the driver leaves it: see InitNeverStalls.            *)
THEOREM InitGoesOn ==
  Spec => []InitNeverStalls
<1>1. IInv => InitNeverStalls
  BY DEF IInv, Good, Live, InitNeverStalls
<1> QED
  BY <1>1, Invariant, PTL

(* The vendor initialization leaves the PHY on page 0, whichever step failed, *)
(* if users leave the page register alone (BeginReadPhyForUser and            *)
(* BeginWritePhyForUser let them name any register).                          *)
THEOREM PageAlwaysRestored ==
  ASSUME PhyRegisterPage \notin Registers
  PROVE  Spec => []PageRestored
<1>1. IInv => PageRestored
  <2> SUFFICES ASSUME IInv, dev.initStage > InitVendor, ~dev.closing, ~dev.pageLost
               PROVE  regs.page = "zero"
    BY DEF PageRestored
  <2>1. Staged(dev) /\ Paged(dev, regs.page)
    BY DEF IInv, Good
  <2>2. dev.realtekStep = "idle"
    BY <2>1 DEF Staged
  <2> QED
    BY <2>1, <2>2 DEF Paged, UsersLeavePage
<1> QED
  BY <1>1, Invariant, PTL
=============================================================================
