--------------------------- MODULE Ax88179Proofs ---------------------------
(***************************************************************************)
(* Proofs about the AX88179 backends, for both classes and every set of    *)
(* addresses, filters, speeds and PHY registers of users, all limits and   *)
(* thresholds, and any number of faults and calls.                         *)
(*                                                                         *)
(* A handler is a composition of functions on the device record.  So the   *)
(* invariant is a predicate on that record, in layers, and each function   *)
(* has a lemma: what it needs of the device and what it leaves behind.     *)
(*   Base    types; channel, PHY flags and recovery agree;                 *)
(*   Placed  drain and replay are at the stages that belong to them;       *)
(*   Steady  both, and a link reset owns the request;                      *)
(*   Good    and init has something to go on with, or a reason not to.     *)
(* A handler finds a Good device and leaves one; within it, once a request *)
(* has completed, the device is only Steady until init is led on.          *)
(***************************************************************************)
EXTENDS Ax88179, NaturalsInduction, WellFoundedInduction, TLAPS

USE ControlAssumption, Ax88179Assumption, RequestAssumption

-----------------------------------------------------------------------------
(* The inductive invariant, as predicates on the device record.              *)

States     == Links \cup {"10", "1000"}   \* what a link reset may be about
FilterSet  == Filters \cup {"none"}

Types == [
  canUserTransfer    |-> BOOLEAN,
  transferInProgress |-> {FALSE},
  active             |-> {FALSE},
  closing            |-> BOOLEAN,
  request            |-> Requests \cup {NoRequest},
  onUsb              |-> BOOLEAN,
  signalled          |-> BOOLEAN,
  waiters            |-> {<<>>},
  woken              |-> {{}},
  initStage          |-> Nat,
  rxControl          |-> FilterSet \cup {"stop"},
  linkReset          |-> Nat,
  linkRetries        |-> 0 .. MaximumLinkResetRetries,
  resetLink          |-> States,
  interrupt          |-> {"none", "down", "up"},
  refreshPending     |-> BOOLEAN,
  retries            |-> 0 .. PhyReadyMaximumRetries,
  retryPending       |-> BOOLEAN,
  level              |-> RecoveryIdle .. RecoveryResetDevice,
  pipe               |-> Pipes,
  pending            |-> BOOLEAN,
  replay             |-> BOOLEAN,
  hardPending        |-> BOOLEAN,
  errors             |-> [Pipes -> Nat],
  overdue            |-> BOOLEAN,
  timeouts           |-> Nat,
  grace              |-> BOOLEAN,
  generation         |-> {"ax88179", "ax179a"},
  timer              |-> {"none", "advance", "running"},
  title              |-> Addresses \cup {NoAddress},
  unicast            |-> Addresses \cup {NoAddress},
  alternate          |-> Addresses \cup {NoAddress},
  phyRead            |-> BOOLEAN,
  phyWrite           |-> BOOLEAN,
  completedStage     |-> Nat,
  linkState          |-> Links \cup {"10"},
  told               |-> Links \cup {"10"},
  filter             |-> FilterSet,
  running            |-> BOOLEAN,
  pipes              |-> SUBSET Pipes,
  paused             |-> BOOLEAN,
  usbReset           |-> BOOLEAN,
  rxLost             |-> BOOLEAN,
  startLost          |-> BOOLEAN,
  addressLost        |-> BOOLEAN,
  mediumStale        |-> BOOLEAN,
  retryLost          |-> BOOLEAN ]

Typed(d) ==
  /\ d = [field \in DOMAIN Types |-> d[field]]
  /\ \A field \in DOMAIN Types : d[field] \in Types[field]

(* Channel, PHY flags and link reset agree.                                  *)
Channel(d) ==
  /\ d.canUserTransfer <=> d.request # NoRequest
  /\ d.phyRead <=> Op(d) = "readPhy"
  /\ d.phyWrite <=> Op(d) = "writePhy"
  /\ ~d.phyWrite => d.completedStage = 0

(* The tables are not overrun, and recovery does one thing at a time.        *)
Base(d) ==
  /\ Typed(d)
  /\ Channel(d)
  /\ d.initStage <= Complete(d) + 1
  /\ d.linkReset <= Len(LinkReset(d))
  /\ d.pending => d.paused /\ ~d.replay
  /\ d.replay =>
       /\ d.paused /\ d.pipes \subseteq {"receive"} /\ Op(d) # "stopReceiving"
       /\ d.initStage < StageOf(d, "start") => d.pipes = {} /\ ~d.running

(* A drain begins when init is complete, a replay ends there.                *)
Placed(d) ==
  /\ d.pending => d.initStage >= Complete(d)
  /\ d.replay /\ ~d.closing => d.initStage < Complete(d)

Steady(d) ==
  /\ Base(d)
  /\ d.linkReset # 0 <=> Op(d) = "linkReset"
  /\ Placed(d)

(* The completion of the outstanding request advances init.                  *)
Leads(d) ==
  \/ Op(d) \in StageOps \cup {"startReceiving"}
  \/ Op(d) = "readPhy" /\ Kind(d) = "waitPhy" /\ d.request.register = PhyIdentifier
  \/ Op(d) = "readPhy" /\ Kind(d) = "readBmcr" /\ d.request.register = MiiBmcr
  \/ /\ Op(d) = "writePhy" /\ Kind(d) \in WriteKinds
     /\ d.completedStage = 0 \/ KindAt(d, d.completedStage) \in WriteKinds
  \/ Op(d) = "writeNodeId" /\ (d.generation = "ax88179" \/ Kind(d) = "writeNodeId")

(* Init needs no request to go on, or does not go on for a known reason.     *)
Waiting(d) ==
  \/ d.timer = "advance"
  \/ Kind(d) \in {"complete", "address", "none"}
  \/ Kind(d) = "start" /\ d.startLost
  \/ Kind(d) = "waitPhy" /\ d.retryPending /\ (d.timer = "running" \/ d.retryLost)

Good(d) ==
  /\ Steady(d)
  /\ d.closing \/ Leads(d) \/ Waiting(d)

IInv ==
  /\ Good(dev)
  /\ regs.nodeId \in Addresses \cup {NoAddress}
  /\ regs = [field \in {"nodeId", "rx", "medium", "negotiated"} |-> regs[field]]
  /\ cable \in Links
  /\ faults \in 0 .. MaxFaults /\ calls \in 0 .. MaxCalls

LEMMA TypesOf ==
  /\ DOMAIN Types =
     { "canUserTransfer", "transferInProgress", "active", "closing", "request",
       "onUsb", "signalled", "waiters", "woken", "initStage", "rxControl",
       "linkReset", "linkRetries", "resetLink", "interrupt", "refreshPending",
       "retries", "retryPending", "level", "pipe", "pending", "replay",
       "hardPending", "errors", "overdue", "timeouts", "grace", "generation",
       "timer", "title", "unicast", "alternate", "phyRead", "phyWrite", "completedStage",
       "linkState", "told", "filter", "running", "pipes", "paused", "usbReset",
       "rxLost", "startLost", "addressLost", "mediumStale", "retryLost" }
  /\ Types.canUserTransfer = BOOLEAN
  /\ Types.transferInProgress = {FALSE}
  /\ Types.active = {FALSE}
  /\ Types.closing = BOOLEAN
  /\ Types.request = Requests \cup {NoRequest}
  /\ Types.onUsb = BOOLEAN
  /\ Types.signalled = BOOLEAN
  /\ Types.waiters = {<<>>}
  /\ Types.woken = {{}}
  /\ Types.initStage = Nat
  /\ Types.rxControl = FilterSet \cup {"stop"}
  /\ Types.linkReset = Nat
  /\ Types.linkRetries = 0 .. MaximumLinkResetRetries
  /\ Types.resetLink = States
  /\ Types.interrupt = {"none", "down", "up"}
  /\ Types.refreshPending = BOOLEAN
  /\ Types.retries = 0 .. PhyReadyMaximumRetries
  /\ Types.retryPending = BOOLEAN
  /\ Types.level = RecoveryIdle .. RecoveryResetDevice
  /\ Types.pipe = Pipes
  /\ Types.pending = BOOLEAN
  /\ Types.replay = BOOLEAN
  /\ Types.hardPending = BOOLEAN
  /\ Types.errors = [Pipes -> Nat]
  /\ Types.overdue = BOOLEAN
  /\ Types.timeouts = Nat
  /\ Types.grace = BOOLEAN
  /\ Types.generation = {"ax88179", "ax179a"}
  /\ Types.timer = {"none", "advance", "running"}
  /\ Types.title = Addresses \cup {NoAddress}
  /\ Types.unicast = Addresses \cup {NoAddress}
  /\ Types.alternate = Addresses \cup {NoAddress}
  /\ Types.phyRead = BOOLEAN
  /\ Types.phyWrite = BOOLEAN
  /\ Types.completedStage = Nat
  /\ Types.linkState = Links \cup {"10"}
  /\ Types.told = Links \cup {"10"}
  /\ Types.filter = FilterSet
  /\ Types.running = BOOLEAN
  /\ Types.pipes = SUBSET Pipes
  /\ Types.paused = BOOLEAN
  /\ Types.usbReset = BOOLEAN
  /\ Types.rxLost = BOOLEAN
  /\ Types.startLost = BOOLEAN
  /\ Types.addressLost = BOOLEAN
  /\ Types.mediumStale = BOOLEAN
  /\ Types.retryLost = BOOLEAN
  BY ZenonT(40) DEF Types

-----------------------------------------------------------------------------
(* Updates.  A device keeps the fields it is not changed in.                 *)

Keeps(u, d, F) == Typed(u) /\ \A field \in DOMAIN Types \ F : u[field] = d[field]

LEMMA Put ==
  ASSUME NEW d, Typed(d), NEW f \in DOMAIN Types, NEW v \in Types[f]
  PROVE  Keeps([d EXCEPT ![f] = v], d, {f}) /\ [d EXCEPT ![f] = v][f] = v
  BY SMT DEF Typed, Keeps

LEMMA KeepsItself ==
  ASSUME NEW d, Typed(d), NEW F
  PROVE  Keeps(d, d, F)
  BY DEF Keeps

LEMMA KeepsOn ==
  ASSUME NEW u, NEW d, NEW e, NEW F, NEW G, Keeps(u, d, F), Keeps(d, e, G)
  PROVE  Keeps(u, e, F \cup G)
  BY DEF Keeps

LEMMA KeepsLess ==
  ASSUME NEW u, NEW d, NEW F, NEW G, Keeps(u, d, F), F \subseteq G
  PROVE  Keeps(u, d, G)
  BY DEF Keeps

(* Two, three or four fields at once.                                        *)
LEMMA Put2 ==
  ASSUME NEW d, Typed(d), NEW f \in DOMAIN Types, NEW v \in Types[f],
         NEW g \in DOMAIN Types, NEW w \in Types[g]
  PROVE  Keeps([d EXCEPT ![f] = v, ![g] = w], d, {f, g})
<1> DEFINE u == [d EXCEPT ![f] = v]
<1>1. Keeps(u, d, {f})
  BY Zenon, Put
<1> HIDE DEF u
<1>2. Typed(u)
  BY <1>1 DEF Keeps
<1>3. Keeps([u EXCEPT ![g] = w], u, {g})
  BY Zenon, <1>2, Put
<1>4. {g} \cup {f} \subseteq {f, g}
  OBVIOUS
<1>5. [d EXCEPT ![f] = v, ![g] = w] = [u EXCEPT ![g] = w]
  BY DEF u
<1> QED
  BY Zenon, <1>1, <1>3, <1>4, <1>5, KeepsOn, KeepsLess

LEMMA Put3 ==
  ASSUME NEW d, Typed(d), NEW f \in DOMAIN Types, NEW v \in Types[f],
         NEW g \in DOMAIN Types, NEW w \in Types[g], NEW h \in DOMAIN Types, NEW x \in Types[h]
  PROVE  Keeps([d EXCEPT ![f] = v, ![g] = w, ![h] = x], d, {f, g, h})
<1> DEFINE u == [d EXCEPT ![f] = v, ![g] = w]
<1>1. Keeps(u, d, {f, g})
  BY Zenon, Put2
<1> HIDE DEF u
<1>2. Typed(u)
  BY <1>1 DEF Keeps
<1>3. Keeps([u EXCEPT ![h] = x], u, {h})
  BY Zenon, <1>2, Put
<1>4. {h} \cup {f, g} \subseteq {f, g, h}
  OBVIOUS
<1>5. [d EXCEPT ![f] = v, ![g] = w, ![h] = x] = [u EXCEPT ![h] = x]
  BY DEF u
<1> QED
  BY Zenon, <1>1, <1>3, <1>4, <1>5, KeepsOn, KeepsLess

LEMMA Put4 ==
  ASSUME NEW d, Typed(d), NEW f \in DOMAIN Types, NEW v \in Types[f],
         NEW g \in DOMAIN Types, NEW w \in Types[g], NEW h \in DOMAIN Types, NEW x \in Types[h],
         NEW k \in DOMAIN Types, NEW y \in Types[k]
  PROVE  Keeps([d EXCEPT ![f] = v, ![g] = w, ![h] = x, ![k] = y], d, {f, g, h, k})
<1> DEFINE u == [d EXCEPT ![f] = v, ![g] = w, ![h] = x]
<1>1. Keeps(u, d, {f, g, h})
  BY Zenon, Put3
<1> HIDE DEF u
<1>2. Typed(u)
  BY <1>1 DEF Keeps
<1>3. Keeps([u EXCEPT ![k] = y], u, {k})
  BY Zenon, <1>2, Put
<1>4. {k} \cup {f, g, h} \subseteq {f, g, h, k}
  OBVIOUS
<1>5. [d EXCEPT ![f] = v, ![g] = w, ![h] = x, ![k] = y] = [u EXCEPT ![k] = y]
  BY DEF u
<1>6. Keeps([u EXCEPT ![k] = y], d, {k} \cup {f, g, h})
  BY Zenon, <1>1, <1>3, KeepsOn
<1>7. Keeps([u EXCEPT ![k] = y], d, {f, g, h, k})
  <2> DEFINE e == [u EXCEPT ![k] = y]
             F == {k} \cup {f, g, h}
             G == {f, g, h, k}
  <2>1. Keeps(e, d, F) /\ F \subseteq G
    BY <1>4, <1>6
  <2> HIDE DEF e, F, G
  <2>2. Keeps(e, d, G)
    BY Zenon, <2>1, KeepsLess
  <2> QED
    BY <2>2 DEF e, G
<1> QED
  BY Zenon, <1>5, <1>7

-----------------------------------------------------------------------------
(* The fields the invariant relates to each other.                           *)

Related ==
  { "closing", "generation", "initStage", "timer", "retryPending", "retryLost", "startLost",
    "pending", "replay", "paused", "pipes", "running", "phyRead", "phyWrite", "completedStage",
    "linkReset", "canUserTransfer", "request" }

(* What Keeps says of them.                                                  *)
LEMMA KeptPlace ==
  ASSUME NEW u, NEW d, NEW F, Keeps(u, d, F)
  PROVE  /\ "closing" \notin F => u.closing = d.closing
         /\ "generation" \notin F => u.generation = d.generation
         /\ "initStage" \notin F => u.initStage = d.initStage
         /\ "timer" \notin F => u.timer = d.timer
         /\ "retryPending" \notin F => u.retryPending = d.retryPending
         /\ "retryLost" \notin F => u.retryLost = d.retryLost
         /\ "startLost" \notin F => u.startLost = d.startLost
<1> {"closing", "generation", "initStage", "timer", "retryPending", "retryLost", "startLost"}
      \subseteq DOMAIN Types
  BY Zenon, TypesOf
<1> QED
  BY DEF Keeps

LEMMA KeptRecovery ==
  ASSUME NEW u, NEW d, NEW F, Keeps(u, d, F)
  PROVE  /\ "pending" \notin F => u.pending = d.pending
         /\ "replay" \notin F => u.replay = d.replay
         /\ "paused" \notin F => u.paused = d.paused
         /\ "pipes" \notin F => u.pipes = d.pipes
         /\ "running" \notin F => u.running = d.running
<1> {"pending", "replay", "paused", "pipes", "running"} \subseteq DOMAIN Types
  BY Zenon, TypesOf
<1> QED
  BY DEF Keeps

LEMMA KeptChannel ==
  ASSUME NEW u, NEW d, NEW F, Keeps(u, d, F)
  PROVE  /\ "phyRead" \notin F => u.phyRead = d.phyRead
         /\ "phyWrite" \notin F => u.phyWrite = d.phyWrite
         /\ "completedStage" \notin F => u.completedStage = d.completedStage
         /\ "linkReset" \notin F => u.linkReset = d.linkReset
         /\ "canUserTransfer" \notin F => u.canUserTransfer = d.canUserTransfer
         /\ "request" \notin F => u.request = d.request
<1> {"phyRead", "phyWrite", "completedStage", "linkReset", "canUserTransfer", "request"}
      \subseteq DOMAIN Types
  BY Zenon, TypesOf
<1> QED
  BY DEF Keeps

(* The fields that decide, with their values.                                *)
LEMMA Fields ==
  ASSUME NEW d, Typed(d)
  PROVE  /\ d.canUserTransfer \in BOOLEAN /\ d.closing \in BOOLEAN
         /\ d.phyRead \in BOOLEAN /\ d.phyWrite \in BOOLEAN /\ d.completedStage \in Nat
         /\ d.pending \in BOOLEAN /\ d.replay \in BOOLEAN /\ d.paused \in BOOLEAN
         /\ d.running \in BOOLEAN /\ d.retryPending \in BOOLEAN /\ d.retryLost \in BOOLEAN
         /\ d.startLost \in BOOLEAN
         /\ d.generation \in {"ax88179", "ax179a"}
         /\ d.transferInProgress = FALSE /\ d.active = FALSE
         /\ d.request \in Requests \cup {NoRequest}
         /\ d.initStage \in Nat /\ d.linkReset \in Nat
         /\ d.timer \in {"none", "advance", "running"} /\ d.pipes \subseteq Pipes
<1>1. /\ d.canUserTransfer \in BOOLEAN /\ d.closing \in BOOLEAN
      /\ d.phyRead \in BOOLEAN /\ d.phyWrite \in BOOLEAN /\ d.completedStage \in Nat
      /\ d.pending \in BOOLEAN /\ d.replay \in BOOLEAN /\ d.paused \in BOOLEAN
      /\ d.running \in BOOLEAN /\ d.retryPending \in BOOLEAN /\ d.retryLost \in BOOLEAN
      /\ d.startLost \in BOOLEAN
  BY SMT, TypesOf DEF Typed
<1>2. /\ d.generation \in {"ax88179", "ax179a"}
      /\ d.request \in Requests \cup {NoRequest}
      /\ d.initStage \in Nat /\ d.linkReset \in Nat
      /\ d.timer \in {"none", "advance", "running"}
  BY SMT, TypesOf DEF Typed
<1>3. d.transferInProgress = FALSE /\ d.active = FALSE /\ d.pipes \subseteq Pipes
  <2>1. /\ d["transferInProgress"] \in Types["transferInProgress"]
        /\ d["active"] \in Types["active"] /\ d["pipes"] \in Types["pipes"]
    BY Zenon, TypesOf DEF Typed
  <2> QED
    BY Zenon, <2>1, TypesOf
<1> QED
  BY <1>1, <1>2, <1>3

(* A field of a typed device.                                                *)
LEMMA FieldTyped ==
  ASSUME NEW d, Typed(d), NEW f \in DOMAIN Types
  PROVE  d[f] \in Types[f]
  BY DEF Typed

-----------------------------------------------------------------------------
(* The tables.                                                               *)

InitKinds ==
  StageOps \cup {"pause", "address", "writeNodeId", "start", "waitPhy", "phyWrite", "readBmcr",
                 "settle", "restart", "complete"}

AfterStart == {"waitPhy", "phyWrite", "readBmcr", "settle", "restart", "complete"}

LEMMA StageTables ==
  /\ Len(Ax88179Init) = 18 /\ DOMAIN Ax88179Init = 1 .. 18
  /\ \A s \in 1 .. 18 : /\ Ax88179Init[s] \in InitKinds
                        /\ Ax88179Init[s] = "complete" <=> s = 18
                        /\ Ax88179Init[s] = "start" <=> s = 9
                        /\ Ax88179Init[s] = "settle" <=> s = 15
                        /\ Ax88179Init[s] \in AfterStart => s > 9
  /\ Len(Ax179AInit) = 22 /\ DOMAIN Ax179AInit = 1 .. 22
  /\ \A s \in 1 .. 22 : /\ Ax179AInit[s] \in InitKinds
                        /\ Ax179AInit[s] = "complete" <=> s = 22
                        /\ Ax179AInit[s] = "start" <=> s = 13
                        /\ Ax179AInit[s] = "settle" <=> s = 19
                        /\ Ax179AInit[s] \in AfterStart => s > 13
  BY DEF Ax88179Init, Ax179AInit, InitKinds, StageOps, AfterStart

(* Where reception starts, where the PHY settles, where init is complete.    *)
LEMMA Table ==
  ASSUME NEW d, d.generation \in {"ax88179", "ax179a"}
  PROVE  /\ Complete(d) \in Nat /\ StageOf(d, "start") \in Nat /\ StageOf(d, "settle") \in Nat
         /\ 0 < StageOf(d, "start") /\ StageOf(d, "start") < StageOf(d, "settle")
         /\ StageOf(d, "settle") < Complete(d)
         /\ DOMAIN Stages(d) = 1 .. Complete(d)
         /\ \A s \in 1 .. Complete(d) :
              /\ Stages(d)[s] \in InitKinds
              /\ Stages(d)[s] = "complete" <=> s = Complete(d)
              /\ Stages(d)[s] = "start" <=> s = StageOf(d, "start")
              /\ Stages(d)[s] = "settle" <=> s = StageOf(d, "settle")
              /\ Stages(d)[s] \in AfterStart => s > StageOf(d, "start")
<1>1. CASE d.generation = "ax88179"
  <2>1. Stages(d) = Ax88179Init
    BY <1>1 DEF Stages
  <2>2. Complete(d) = 18 /\ DOMAIN Stages(d) = 1 .. 18
    BY <2>1, StageTables DEF Complete
  <2>3. StageOf(d, "start") = 9 /\ StageOf(d, "settle") = 15
    BY <2>1, <2>2, StageTables DEF StageOf
  <2> QED
    BY <2>1, <2>2, <2>3, StageTables
<1>2. CASE d.generation = "ax179a"
  <2>1. Stages(d) = Ax179AInit
    BY <1>2 DEF Stages
  <2>2. Complete(d) = 22 /\ DOMAIN Stages(d) = 1 .. 22
    BY <2>1, StageTables DEF Complete
  <2>3. StageOf(d, "start") = 13 /\ StageOf(d, "settle") = 19
    BY <2>1, <2>2, StageTables DEF StageOf
  <2> QED
    BY <2>1, <2>2, <2>3, StageTables
<1> QED
  BY <1>1, <1>2

LEMMA LinkResetTable ==
  ASSUME NEW d, d.generation \in {"ax88179", "ax179a"}
  PROVE  /\ Len(LinkReset(d)) \in {5, 6}
         /\ \A s \in 1 .. Len(LinkReset(d)) :
              LinkReset(d)[s] \in {"stop", "start", "fifo", "mac", "medium"}
  BY DEF LinkReset, Ax88179LinkReset, Ax179ALinkReset

(* Devices of one class have the same tables.                                *)
LEMMA SameTables ==
  ASSUME NEW u, NEW d, u.generation = d.generation
  PROVE  /\ Stages(u) = Stages(d) /\ LinkReset(u) = LinkReset(d)
         /\ Complete(u) = Complete(d)
         /\ StageOf(u, "start") = StageOf(d, "start") /\ StageOf(u, "settle") = StageOf(d, "settle")
         /\ u.initStage = d.initStage => Kind(u) = Kind(d)
         /\ \A s : KindAt(u, s) = KindAt(d, s)
<1>1. Stages(u) = Stages(d) /\ LinkReset(u) = LinkReset(d)
  BY DEF Stages, LinkReset
<1> QED
  BY Zenon, <1>1 DEF Complete, StageOf, Kind, KindAt

(* The stage and its kind.                                                   *)
LEMMA KindOf ==
  ASSUME NEW d, Typed(d)
  PROVE  /\ Kind(d) \in InitKinds \cup {"none"}
         /\ Kind(d) = "complete" <=> d.initStage = Complete(d)
         /\ d.initStage > Complete(d) => Kind(d) = "none"
         /\ Kind(d) \in AfterStart =>
              d.initStage > StageOf(d, "start") /\ d.initStage <= Complete(d)
         /\ Kind(d) = "start" => d.initStage = StageOf(d, "start")
<1>1. d.generation \in {"ax88179", "ax179a"} /\ d.initStage \in Nat
  BY Fields
<1>2. CASE d.initStage \in 1 .. Complete(d)
  <2>1. Kind(d) = Stages(d)[d.initStage]
    BY <1>1, <1>2, Table DEF Kind, KindAt
  <2> QED
    BY <1>1, <1>2, <2>1, Table
<1>3. CASE d.initStage \notin 1 .. Complete(d)
  <2>1. Kind(d) = "none"
    BY <1>1, <1>3, Table DEF Kind, KindAt
  <2> QED
    BY <1>1, <1>3, <2>1, Table DEF AfterStart
<1> QED
  BY <1>2, <1>3

LEMMA StartStage ==
  ASSUME NEW d, Typed(d)
  PROVE  ~(d.initStage < StageOf(d, "start")) <=> d.initStage >= StageOf(d, "start")
<1>1. d.initStage \in Nat /\ d.generation \in {"ax88179", "ax179a"}
  BY Fields
<1>2. StageOf(d, "start") \in Nat
  BY <1>1, Table
<1> QED
  BY <1>1, <1>2

LEMMA LinkResetLength ==
  ASSUME NEW d, Typed(d)
  PROVE  Len(LinkReset(d)) \in {5, 6}
<1>1. d.generation \in {"ax88179", "ax179a"}
  BY Fields
<1> QED
  BY <1>1, LinkResetTable

-----------------------------------------------------------------------------
(* Between two devices.                                                      *)

(* All that the invariant looks at is the same.                              *)
Near(u, d) == Keeps(u, d, DOMAIN Types \ Related)

LEMMA NearFields ==
  ASSUME NEW u, NEW d, Near(u, d)
  PROVE  /\ Typed(u)
         /\ u.closing = d.closing /\ u.generation = d.generation /\ u.initStage = d.initStage
         /\ u.timer = d.timer /\ u.retryPending = d.retryPending /\ u.retryLost = d.retryLost
         /\ u.startLost = d.startLost
         /\ u.pending = d.pending /\ u.replay = d.replay /\ u.paused = d.paused
         /\ u.pipes = d.pipes /\ u.running = d.running
         /\ u.phyRead = d.phyRead /\ u.phyWrite = d.phyWrite
         /\ u.completedStage = d.completedStage /\ u.linkReset = d.linkReset
         /\ u.canUserTransfer = d.canUserTransfer /\ u.request = d.request
<1> DEFINE F == DOMAIN Types \ Related
<1>1. Keeps(u, d, F) /\ Typed(u)
  BY DEF Near, Keeps
<1>2. \A field \in Related : field \notin F
  OBVIOUS
<1> HIDE DEF F
<1>3. /\ u.closing = d.closing /\ u.generation = d.generation /\ u.initStage = d.initStage
      /\ u.timer = d.timer /\ u.retryPending = d.retryPending /\ u.retryLost = d.retryLost
      /\ u.startLost = d.startLost
  BY <1>1, <1>2, KeptPlace DEF Related
<1>4. /\ u.pending = d.pending /\ u.replay = d.replay /\ u.paused = d.paused
      /\ u.pipes = d.pipes /\ u.running = d.running
  BY <1>1, <1>2, KeptRecovery DEF Related
<1>5. /\ u.phyRead = d.phyRead /\ u.phyWrite = d.phyWrite
      /\ u.completedStage = d.completedStage /\ u.linkReset = d.linkReset
      /\ u.canUserTransfer = d.canUserTransfer /\ u.request = d.request
  BY <1>1, <1>2, KeptChannel DEF Related
<1> QED
  BY <1>1, <1>3, <1>4, <1>5

LEMMA NearItself ==
  ASSUME NEW d, Typed(d)
  PROVE  Near(d, d)
  BY KeepsItself DEF Near

LEMMA NearOn ==
  ASSUME NEW u, NEW d, NEW e, Near(u, d), Near(d, e)
  PROVE  Near(u, e)
  BY DEF Near, Keeps

(* Fields that the invariant does not relate to others are set.              *)
LEMMA LooseFields ==
  { "onUsb", "signalled", "rxControl", "linkRetries", "resetLink", "interrupt", "refreshPending",
    "retries", "level", "pipe", "hardPending", "errors", "overdue", "timeouts", "grace", "title",
    "unicast", "alternate", "linkState", "told", "filter", "usbReset", "rxLost", "addressLost",
    "mediumStale" } \subseteq DOMAIN Types \ Related
  BY TypesOf DEF Related

LEMMA KeepsNear ==
  ASSUME NEW u, NEW d, NEW F, Keeps(u, d, F), F \subseteq DOMAIN Types \ Related
  PROVE  Near(u, d)
  BY Zenon, KeepsLess DEF Near

LEMMA NearTyped ==
  ASSUME NEW d, Typed(d), NEW f \in DOMAIN Types \ Related, NEW v \in Types[f]
  PROVE  Near([d EXCEPT ![f] = v], d)
<1> DEFINE u == [d EXCEPT ![f] = v]
<1>1. f \in DOMAIN Types /\ {f} \subseteq DOMAIN Types \ Related
  OBVIOUS
<1>2. Keeps(u, d, {f})
  BY Zenon, <1>1, Put
<1> HIDE DEF u
<1>3. Near(u, d)
  BY Zenon, <1>1, <1>2, KeepsNear
<1> QED
  BY <1>3 DEF u

LEMMA NearTyped2 ==
  ASSUME NEW d, Typed(d), NEW f \in DOMAIN Types \ Related, NEW v \in Types[f],
         NEW g \in DOMAIN Types \ Related, NEW w \in Types[g]
  PROVE  Near([d EXCEPT ![f] = v, ![g] = w], d)
<1> DEFINE u == [d EXCEPT ![f] = v]
<1>1. Near(u, d) /\ Typed(u)
  BY NearTyped DEF Near, Keeps
<1> HIDE DEF u
<1>2. Near([u EXCEPT ![g] = w], u)
  BY <1>1, NearTyped
<1>3. [d EXCEPT ![f] = v, ![g] = w] = [u EXCEPT ![g] = w]
  BY DEF u
<1> QED
  BY Zenon, <1>1, <1>2, <1>3, NearOn

LEMMA NearTyped3 ==
  ASSUME NEW d, Typed(d), NEW f \in DOMAIN Types \ Related, NEW v \in Types[f],
         NEW g \in DOMAIN Types \ Related, NEW w \in Types[g],
         NEW h \in DOMAIN Types \ Related, NEW x \in Types[h]
  PROVE  Near([d EXCEPT ![f] = v, ![g] = w, ![h] = x], d)
<1> DEFINE u == [d EXCEPT ![f] = v, ![g] = w]
<1>1. Near(u, d)
  BY Zenon, NearTyped2
<1>2. Typed(u)
  BY <1>1 DEF Near, Keeps
<1> HIDE DEF u
<1>3. Near([u EXCEPT ![h] = x], u)
  BY Zenon, <1>2, NearTyped
<1>4. [d EXCEPT ![f] = v, ![g] = w, ![h] = x] = [u EXCEPT ![h] = x]
  BY DEF u
<1> QED
  BY Zenon, <1>1, <1>3, <1>4, NearOn

(* Where init is, is the same; so is what it waits for.                      *)
SamePlace(u, d) ==
  /\ u.closing = d.closing /\ u.generation = d.generation /\ u.initStage = d.initStage
  /\ u.timer = d.timer /\ u.retryPending = d.retryPending /\ u.retryLost = d.retryLost
  /\ u.startLost = d.startLost

SameRecovery(u, d) ==
  /\ u.pending = d.pending /\ u.replay = d.replay /\ u.paused = d.paused
  /\ u.pipes = d.pipes /\ u.running = d.running

LEMMA PlaceOf ==
  ASSUME NEW u, NEW d, SamePlace(u, d)
  PROVE  /\ Kind(u) = Kind(d) /\ Complete(u) = Complete(d) /\ LinkReset(u) = LinkReset(d)
         /\ StageOf(u, "start") = StageOf(d, "start")
         /\ Waiting(u) <=> Waiting(d)
<1>1. /\ Kind(u) = Kind(d) /\ Complete(u) = Complete(d) /\ LinkReset(u) = LinkReset(d)
      /\ StageOf(u, "start") = StageOf(d, "start")
  BY SameTables DEF SamePlace
<1> QED
  BY <1>1 DEF SamePlace, Waiting

(* Whether the outstanding request leads on is a matter of these fields.     *)
LEMMA SameLeads ==
  ASSUME NEW u, NEW d, u.generation = d.generation, Kind(u) = Kind(d), Op(u) = Op(d),
         u.request = d.request, u.completedStage = d.completedStage
  PROVE  Leads(u) <=> Leads(d)
<1>1. KindAt(u, u.completedStage) = KindAt(d, d.completedStage)
  BY SameTables
<1> QED
  BY <1>1 DEF Leads

LEMMA NearSteady ==
  ASSUME NEW u, NEW d, Near(u, d)
  PROVE  /\ SamePlace(u, d) /\ SameRecovery(u, d) /\ Op(u) = Op(d)
         /\ Steady(d) => Steady(u)
         /\ Good(d) => Good(u)
<1>1. SamePlace(u, d) /\ SameRecovery(u, d) /\ Op(u) = Op(d) /\ u.request = d.request
  BY NearFields DEF SamePlace, SameRecovery, Op
<1>2. /\ Kind(u) = Kind(d) /\ Complete(u) = Complete(d) /\ LinkReset(u) = LinkReset(d)
      /\ StageOf(u, "start") = StageOf(d, "start")
      /\ Waiting(u) <=> Waiting(d)
  BY <1>1, PlaceOf
<1>3. ASSUME Steady(d) PROVE Steady(u)
  <2>1. Channel(u)
    BY <1>1, <1>3, NearFields DEF Steady, Base, Channel
  <2> QED
    BY <1>1, <1>2, <1>3, <2>1, NearFields DEF Steady, Base, Placed, SamePlace, SameRecovery
<1>4. Leads(u) <=> Leads(d)
  BY <1>1, <1>2, NearFields, SameLeads DEF SamePlace
<1> QED
  BY <1>1, <1>2, <1>3, <1>4 DEF Good, SamePlace

-----------------------------------------------------------------------------
(* Requests.                                                                 *)

ChannelFields == {"canUserTransfer", "request", "onUsb"}

Queued(u, d, request) ==
  Keeps(u, d, ChannelFields) /\ u.canUserTransfer = TRUE /\ u.request = request

Freed(u, d) ==
  Keeps(u, d, ChannelFields) /\ u.canUserTransfer = FALSE /\ u.request = NoRequest

LEMMA QueueFields ==
  ASSUME NEW d, Typed(d), NEW request \in Requests
  PROVE  Queued(QueueControlTransfer(d, request), d, request)
<1> DEFINE u == [d EXCEPT !.canUserTransfer = TRUE, !.request = request, !.onUsb = FALSE]
<1>1. QueueControlTransfer(d, request) = u
  BY Fields DEF QueueControlTransfer, UserWaits
<1>2. ChannelFields \subseteq DOMAIN Types
  BY Zenon, TypesOf DEF ChannelFields
<1>3. TRUE \in Types.canUserTransfer /\ request \in Types.request /\ FALSE \in Types.onUsb
  BY TypesOf
<1>4. Keeps(u, d, ChannelFields)
  BY Zenon, Put3, <1>2, <1>3 DEF ChannelFields
<1>5. u.canUserTransfer = TRUE /\ u.request = request
  BY SMT, TypesOf DEF Typed
<1> HIDE DEF u
<1> QED
  BY <1>1, <1>4, <1>5 DEF Queued

LEMMA CompleteFields ==
  ASSUME NEW d, Typed(d)
  PROVE  Freed(CompleteControlTransfer(d), d)
<1> DEFINE u == [d EXCEPT !.canUserTransfer = FALSE, !.request = NoRequest, !.onUsb = FALSE]
<1>1. CompleteControlTransfer(d) = u
  <2>1. ~UserWaits(d)
    BY Fields DEF UserWaits
  <2> QED
    BY Zenon, <2>1 DEF CompleteControlTransfer
<1>2. ChannelFields \subseteq DOMAIN Types
  BY Zenon, TypesOf DEF ChannelFields
<1>3. FALSE \in Types.canUserTransfer /\ NoRequest \in Types.request /\ FALSE \in Types.onUsb
  BY TypesOf
<1>4. Keeps(u, d, ChannelFields)
  BY Zenon, Put3, <1>2, <1>3 DEF ChannelFields
<1>5. u.canUserTransfer = FALSE /\ u.request = NoRequest
  BY SMT, TypesOf DEF Typed
<1> HIDE DEF u
<1> QED
  BY <1>1, <1>4, <1>5 DEF Freed

LEMMA QueuedSame ==
  ASSUME NEW u, NEW d, NEW request, Queued(u, d, request) \/ Freed(u, d)
  PROVE  /\ Typed(u) /\ SamePlace(u, d) /\ SameRecovery(u, d)
         /\ u.phyRead = d.phyRead /\ u.phyWrite = d.phyWrite
         /\ u.completedStage = d.completedStage /\ u.linkReset = d.linkReset
<1>1. Keeps(u, d, ChannelFields) /\ Typed(u)
  BY DEF Queued, Freed, Keeps
<1>2. SamePlace(u, d)
  BY <1>1, KeptPlace DEF ChannelFields, SamePlace
<1>3. SameRecovery(u, d)
  BY <1>1, KeptRecovery DEF ChannelFields, SameRecovery
<1>4. u.phyRead = d.phyRead /\ u.phyWrite = d.phyWrite
                            /\ u.completedStage = d.completedStage /\ u.linkReset = d.linkReset
  BY <1>1, KeptChannel DEF ChannelFields
<1> QED
  BY <1>1, <1>2, <1>3, <1>4

LEMMA RequestsTyped ==
  /\ \A op \in StageOps \cup {"stopReceiving"} : Request(op, "none") \in Requests
  /\ \A address \in Addresses \cup {NoAddress} : Request("writeNodeId", address) \in Requests
  /\ \A filter \in FilterSet : Request("startReceiving", filter) \in Requests
  /\ \A value \in FilterSet \cup States \cup {"stop", "fifo", "mac"} :
       Request("linkReset", value) \in Requests
  /\ \A op \in {"readPhy", "writePhy"}, register \in Nat :
       [op |-> op, register |-> register] \in Requests
<1>1. /\ \A op \in StageOps \cup {"stopReceiving"} : Request(op, "none") \in Requests
      /\ \A address \in Addresses \cup {NoAddress} : Request("writeNodeId", address) \in Requests
      /\ \A filter \in FilterSet : Request("startReceiving", filter) \in Requests
  BY DEF Request, Requests, FilterSet
<1>2. \A value \in FilterSet \cup States \cup {"stop", "fifo", "mac"} :
        Request("linkReset", value) \in Requests
  BY DEF Request, Requests, FilterSet, States, Links
<1>3. \A op \in {"readPhy", "writePhy"}, register \in Nat :
        [op |-> op, register |-> register] \in Requests
  BY DEF Requests
<1> QED
  BY <1>1, <1>2, <1>3

(* A request is queued where the channel is free; init waits as before.      *)
LEMMA QueuedSteady ==
  ASSUME NEW d, NEW u, NEW op, NEW value, Steady(d), ~d.canUserTransfer,
         Request(op, value) \in Requests, op \notin {"linkReset", "readPhy", "writePhy"},
         d.replay => op # "stopReceiving",
         Queued(u, d, Request(op, value))
  PROVE  Steady(u) /\ Op(u) = op /\ SamePlace(u, d) /\ SameRecovery(u, d)
<1>1. /\ Typed(u) /\ SamePlace(u, d) /\ SameRecovery(u, d)
      /\ u.phyRead = d.phyRead /\ u.phyWrite = d.phyWrite
      /\ u.completedStage = d.completedStage /\ u.linkReset = d.linkReset
  BY QueuedSame
<1>2. Op(u) = op /\ Op(d) = "none" /\ u.request # NoRequest /\ u.canUserTransfer
  BY DEF Queued, Op, Request
<1>3. /\ Complete(u) = Complete(d) /\ LinkReset(u) = LinkReset(d)
      /\ StageOf(u, "start") = StageOf(d, "start")
  BY <1>1, PlaceOf
<1>4. Channel(u)
  <2>1. ~u.phyRead /\ ~u.phyWrite /\ u.completedStage = 0
    BY <1>1, <1>2 DEF Steady, Base, Channel
  <2> QED
    BY <1>2, <2>1 DEF Channel
<1>5. Base(u)
  BY <1>1, <1>2, <1>3, <1>4 DEF Steady, Base, SamePlace, SameRecovery
<1>6. Placed(u)
  BY <1>1, <1>3 DEF Steady, Placed, SamePlace, SameRecovery
<1> QED
  BY <1>1, <1>2, <1>5, <1>6 DEF Steady

(* With the channel free no request leads on.                                *)
LEMMA FreeWaits ==
  ASSUME NEW d, Good(d), ~d.canUserTransfer
  PROVE  Steady(d) /\ (d.closing \/ Waiting(d))
<1>1. Op(d) = "none"
  BY DEF Op
<1> QED
  BY <1>1 DEF Good, Leads, StageOps

LEMMA WaitingGood ==
  ASSUME NEW d, NEW u, Steady(u), SamePlace(u, d), d.closing \/ Waiting(d)
  PROVE  Good(u)
  BY PlaceOf DEF Good, SamePlace

-----------------------------------------------------------------------------
(* A PHY access begins.                                                      *)

Begun(u, d, flag, register) ==
  /\ Steady(u) /\ SamePlace(u, d) /\ SameRecovery(u, d)
  /\ Op(u) = IF flag = "phyRead" THEN "readPhy" ELSE "writePhy"
  /\ u.request.register = register /\ u.completedStage = 0

LEMMA BeginPhyBegun ==
  ASSUME NEW d, Steady(d), NEW flag \in {"phyRead", "phyWrite"}, NEW register \in Nat,
         CanBeginPhy(d)
  PROVE  Begun(BeginPhy(d, flag, register), d, flag, register)
<1> DEFINE request == PhyRequest(flag, register)
           e == [d EXCEPT ![flag] = TRUE]
           u == QueueControlTransfer(e, request)
<1>1. BeginPhy(d, flag, register) = u
  BY DEF BeginPhy
<1>2. /\ request \in Requests /\ request.register = register
      /\ request.op = IF flag = "phyRead" THEN "readPhy" ELSE "writePhy"
  BY RequestsTyped DEF PhyRequest
<1> HIDE DEF request
<1>3. /\ Typed(d) /\ ~d.closing /\ ~d.canUserTransfer /\ ~d.phyRead /\ ~d.phyWrite
      /\ d.completedStage = 0
  BY Fields DEF Steady, Base, Channel, CanBeginPhy, PhyBusy, CanQueueControlTransfer
<1>4. Keeps(e, d, {flag}) /\ e[flag] = TRUE
  <2>1. flag \in DOMAIN Types /\ TRUE \in Types[flag]
    BY TypesOf
  <2> QED
    BY Zenon, <1>3, <2>1, Put
<1> HIDE DEF e
<1>5. /\ e.phyRead = TRUE <=> flag = "phyRead"
      /\ e.phyWrite = TRUE <=> flag = "phyWrite"
      /\ e.linkReset = d.linkReset /\ e.completedStage = 0
  BY <1>3, <1>4, KeptChannel
<1>6. Typed(e) /\ SamePlace(e, d) /\ SameRecovery(e, d)
  BY <1>4, KeptPlace, KeptRecovery DEF Keeps, SamePlace, SameRecovery
<1>7. Queued(u, e, request)
  BY <1>2, <1>6, QueueFields
<1>8. /\ Typed(u) /\ SamePlace(u, e) /\ SameRecovery(u, e)
      /\ u.phyRead = e.phyRead /\ u.phyWrite = e.phyWrite
      /\ u.completedStage = e.completedStage /\ u.linkReset = e.linkReset
  BY <1>7, QueuedSame
<1>9. SamePlace(u, d) /\ SameRecovery(u, d)
  BY <1>6, <1>8 DEF SamePlace, SameRecovery
<1>10. /\ u.canUserTransfer = TRUE /\ u.request = request /\ u.request # NoRequest
       /\ Op(u) = request.op /\ Op(d) = "none"
  BY <1>2, <1>3, <1>7 DEF Queued, Op
<1> HIDE DEF u
<1>11. Channel(u)
  BY <1>2, <1>5, <1>8, <1>10, Fields DEF Channel
<1>12. /\ Complete(u) = Complete(d) /\ LinkReset(u) = LinkReset(d)
       /\ StageOf(u, "start") = StageOf(d, "start")
  BY <1>9, PlaceOf
<1>13. Op(u) \notin {"stopReceiving", "linkReset", "none"}
  BY <1>2, <1>10
<1>14. Base(u)
  BY <1>5, <1>8, <1>9, <1>11, <1>12, <1>13 DEF Steady, Base, SamePlace, SameRecovery
<1>15. Steady(u)
  BY <1>5, <1>8, <1>9, <1>10, <1>12, <1>13, <1>14 DEF Steady, Placed, SamePlace, SameRecovery
<1> QED
  BY <1>1, <1>2, <1>5, <1>8, <1>9, <1>10, <1>15 DEF Begun

(* A request of init that leads on: the PHY identifier, the BMCR.            *)
LEMMA BegunLeads ==
  ASSUME NEW d, NEW u, NEW flag \in {"phyRead", "phyWrite"}, NEW register,
         Begun(u, d, flag, register),
         \/ flag = "phyRead" /\ Kind(d) = "waitPhy" /\ register = PhyIdentifier
         \/ flag = "phyRead" /\ Kind(d) = "readBmcr" /\ register = MiiBmcr
         \/ flag = "phyWrite" /\ Kind(d) \in {"phyWrite", "restart"}
  PROVE  Good(u)
<1>1. Kind(u) = Kind(d)
  BY PlaceOf DEF Begun
<1> QED
  BY <1>1 DEF Begun, Good, Leads, WriteKinds

(* Another one, of a user or about the link, does not.                       *)
LEMMA BeginPhyGood ==
  ASSUME NEW d, Good(d), NEW flag \in {"phyRead", "phyWrite"}, NEW register \in Nat
  PROVE  Good(BeginPhy(d, flag, register)) /\ SamePlace(BeginPhy(d, flag, register), d)
<1>1. CASE CanBeginPhy(d)
  <2>1. ~d.canUserTransfer
    BY <1>1 DEF CanBeginPhy, CanQueueControlTransfer
  <2>2. Steady(d) /\ (d.closing \/ Waiting(d))
    BY <2>1, FreeWaits
  <2>3. Begun(BeginPhy(d, flag, register), d, flag, register)
    BY <1>1, <2>2, BeginPhyBegun
  <2> QED
    BY <2>2, <2>3, WaitingGood DEF Begun
<1>2. CASE ~CanBeginPhy(d)
  BY <1>2 DEF BeginPhy, SamePlace
<1> QED
  BY <1>1, <1>2

-----------------------------------------------------------------------------
(* Reception.                                                                *)

(* A device that receives, or does not.                                      *)
LEMMA StoppedSteady ==
  ASSUME NEW d, Steady(d)
  PROVE  Steady([d EXCEPT !.running = FALSE]) /\ SamePlace([d EXCEPT !.running = FALSE], d)
         /\ Op([d EXCEPT !.running = FALSE]) = Op(d)
         /\ (Good(d) => Good([d EXCEPT !.running = FALSE]))
         /\ [d EXCEPT !.running = FALSE].canUserTransfer = d.canUserTransfer
         /\ [d EXCEPT !.running = FALSE].replay = d.replay
<1> DEFINE u == [d EXCEPT !.running = FALSE]
<1>1. Keeps(u, d, {"running"}) /\ u.running = FALSE
  <2>1. "running" \in DOMAIN Types /\ FALSE \in Types.running /\ Typed(d)
    BY TypesOf DEF Steady, Base
  <2>2. Keeps(u, d, {"running"})
    BY Zenon, <2>1, Put
  <2>3. u.running = FALSE
    BY <2>1, SMT, TypesOf DEF Typed
  <2> QED
    BY <2>2, <2>3
<1> HIDE DEF u
<1>2. SamePlace(u, d) /\ Typed(u)
  BY <1>1, KeptPlace DEF SamePlace, Keeps
<1>3. u.pending = d.pending /\ u.replay = d.replay /\ u.paused = d.paused /\ u.pipes = d.pipes
  BY <1>1, KeptRecovery
<1>4. /\ u.phyRead = d.phyRead /\ u.phyWrite = d.phyWrite
      /\ u.completedStage = d.completedStage /\ u.linkReset = d.linkReset
      /\ u.canUserTransfer = d.canUserTransfer /\ u.request = d.request
  BY <1>1, KeptChannel
<1>5. Op(u) = Op(d)
  BY <1>4 DEF Op
<1>6. /\ Kind(u) = Kind(d) /\ Complete(u) = Complete(d) /\ LinkReset(u) = LinkReset(d)
      /\ StageOf(u, "start") = StageOf(d, "start")
      /\ Waiting(u) <=> Waiting(d)
  BY <1>2, PlaceOf
<1>7. Channel(u)
  BY <1>4, <1>5 DEF Channel, Steady, Base
<1>8. Base(u)
  BY <1>1, <1>2, <1>3, <1>4, <1>5, <1>6, <1>7 DEF Base, Steady, SamePlace
<1>9. Steady(u)
  BY <1>2, <1>3, <1>4, <1>5, <1>6, <1>8 DEF Steady, Placed, SamePlace
<1>10. Leads(u) <=> Leads(d)
  BY <1>2, <1>4, <1>5, <1>6, SameLeads DEF SamePlace
<1>11. Good(d) => Good(u)
  BY <1>2, <1>6, <1>9, <1>10 DEF Good, SamePlace
<1> QED
  BY <1>2, <1>3, <1>4, <1>5, <1>9, <1>11 DEF u

LEMMA RestartReceivingGood ==
  ASSUME NEW d, Good(d), d.replay => d.closing
  PROVE  Good(RestartReceiving(d)) /\ SamePlace(RestartReceiving(d), d)
<1> DEFINE r == [d EXCEPT !.running = FALSE]
           request == Request("stopReceiving", "none")
           u == QueueControlTransfer(r, request)
<1>1. CASE d.running /\ CanQueueControlTransfer(d)
  <2>1. ~d.canUserTransfer /\ ~d.closing
    BY <1>1 DEF CanQueueControlTransfer
  <2>2. Steady(d) /\ Waiting(d)
    BY <2>1, FreeWaits
  <2>3. /\ Steady(r) /\ SamePlace(r, d) /\ r.canUserTransfer = d.canUserTransfer
        /\ r.replay = d.replay
    BY Zenon, <2>2, StoppedSteady
  <2> HIDE DEF r
  <2>4. CanQueueControlTransfer(r)
    BY <2>1, <2>3 DEF CanQueueControlTransfer, SamePlace
  <2>5. request \in Requests
    BY RequestsTyped
  <2>6. Typed(r)
    BY <2>3 DEF Steady, Base
  <2>7. Queued(u, r, request)
    BY Zenon, <2>5, <2>6, QueueFields
  <2> HIDE DEF u
  <2>8. Steady(u) /\ SamePlace(u, r)
    BY <2>1, <2>3, <2>5, <2>7, QueuedSteady
  <2>9. SamePlace(u, d)
    BY <2>3, <2>8 DEF SamePlace
  <2>10. RestartReceiving(d) = u
    BY <1>1, <2>4 DEF RestartReceiving, QueueOrDrop, r, u
  <2> QED
    BY <2>2, <2>8, <2>9, <2>10, WaitingGood
<1>2. CASE ~(d.running /\ CanQueueControlTransfer(d))
  BY <1>2 DEF RestartReceiving, SamePlace
<1> QED
  BY <1>1, <1>2

(* Reception starts: where a replay allows it; the write of RX_CTL may be    *)
(* lost.                                                                     *)
Receiving(u, d) ==
  /\ Steady(u)
  /\ u.closing = d.closing
  /\ (Kind(d) = "start" /\ ~d.closing) \/ Leads(d) \/ Waiting(d) => Leads(u) \/ Waiting(u)

LEMMA StartReceivingSteady ==
  ASSUME NEW d, Steady(d), d.replay => d.initStage >= StageOf(d, "start")
  PROVE  Receiving(StartReceiving(d), d)
<1> DEFINE lost == ~CanQueueControlTransfer(d)
           e == [d EXCEPT !.running = TRUE, !.pipes = @ \cup {"receive"}, !.rxControl = d.filter]
           r == [e EXCEPT !.rxLost = lost, !.startLost = lost]
           request == Request("startReceiving", d.filter)
           u == QueueControlTransfer(r, request)
<1>1. Typed(d)
  BY DEF Steady, Base
<1>2. CASE d.closing
  BY <1>2 DEF StartReceiving, Receiving
<1>3. CASE ~d.closing
  <2>1. lost \in BOOLEAN /\ d.filter \in FilterSet
    <3>1. d["filter"] \in Types["filter"]
      BY Zenon, <1>1, TypesOf, FieldTyped
    <3>2. d.filter \in FilterSet
      BY <3>1, TypesOf
    <3> QED
      BY <3>2 DEF CanQueueControlTransfer
  <2>2. /\ Keeps(e, d, {"running", "pipes", "rxControl"})
        /\ e.running = TRUE /\ e.pipes = d.pipes \cup {"receive"}
    <3>1. {"running", "pipes", "rxControl"} \subseteq DOMAIN Types
      BY Zenon, TypesOf
    <3>2. /\ TRUE \in Types.running /\ d.filter \in Types.rxControl
          /\ d.pipes \cup {"receive"} \in Types.pipes
      <4>1. d.pipes \subseteq Pipes
        BY <1>1, Fields
      <4>2. d.pipes \cup {"receive"} \in SUBSET Pipes
        BY <4>1 DEF Pipes
      <4> QED
        BY <2>1, <4>2, TypesOf
    <3>3. Keeps(e, d, {"running", "pipes", "rxControl"})
      BY Zenon, <1>1, <3>1, <3>2, Put3
    <3>4. e.running = TRUE /\ e.pipes = d.pipes \cup {"receive"}
      BY <1>1, SMT, TypesOf DEF Typed
    <3> QED
      BY <3>3, <3>4
  <2>3. StartReceiving(d) = IF CanQueueControlTransfer(r) THEN u ELSE r
    <3>1. [d EXCEPT !.running = TRUE, !.pipes = @ \cup {"receive"}, !.rxControl = d.filter,
                    !.rxLost = ~CanQueueControlTransfer(d),
                    !.startLost = ~CanQueueControlTransfer(d)] = r
      BY Zenon
    <3> HIDE DEF r
    <3>2. StartReceiving(d) = QueueOrDrop(r, "startReceiving", d.filter)
      BY <1>3, <3>1 DEF StartReceiving
    <3> QED
      BY Zenon, <3>2 DEF QueueOrDrop
  <2> HIDE DEF e
  <2>4. Keeps(r, e, {"rxLost", "startLost"}) /\ r.startLost = lost
    <3>1. {"rxLost", "startLost"} \subseteq DOMAIN Types
      BY Zenon, TypesOf
    <3>2. lost \in Types.rxLost /\ lost \in Types.startLost
      BY <2>1, TypesOf
    <3> HIDE DEF lost
    <3>3. Typed(e)
      BY <2>2 DEF Keeps
    <3>4. Keeps(r, e, {"rxLost", "startLost"})
      BY Zenon, <3>1, <3>2, <3>3, Put2
    <3>5. r.startLost = lost
      BY <3>3, SMT, TypesOf DEF Typed
    <3> QED
      BY <3>4, <3>5
  <2> HIDE DEF r
  <2>5. /\ Typed(r) /\ r.closing = d.closing /\ r.generation = d.generation
        /\ r.initStage = d.initStage /\ r.timer = d.timer /\ r.retryPending = d.retryPending
        /\ r.retryLost = d.retryLost
    BY <2>2, <2>4, KeptPlace DEF Keeps
  <2>6. /\ r.pending = d.pending /\ r.replay = d.replay /\ r.paused = d.paused
        /\ r.pipes = d.pipes \cup {"receive"}
    BY <2>2, <2>4, KeptRecovery
  <2>7. /\ r.phyRead = d.phyRead /\ r.phyWrite = d.phyWrite
        /\ r.completedStage = d.completedStage /\ r.linkReset = d.linkReset
        /\ r.canUserTransfer = d.canUserTransfer /\ r.request = d.request
    BY <2>2, <2>4, KeptChannel
  <2>8. Op(r) = Op(d)
    BY <2>7 DEF Op
  <2>9. /\ Kind(r) = Kind(d) /\ Complete(r) = Complete(d) /\ LinkReset(r) = LinkReset(d)
        /\ StageOf(r, "start") = StageOf(d, "start")
    BY <2>5, SameTables
  <2>10. Channel(r)
    BY <2>7, <2>8 DEF Channel, Steady, Base
  <2>11. Base(r)
    <3>1. r.replay => ~(r.initStage < StageOf(r, "start"))
      BY <1>1, <2>5, <2>6, <2>9, StartStage
    <3> QED
      BY <2>5, <2>6, <2>7, <2>8, <2>9, <2>10, <3>1 DEF Base, Steady
  <2>12. Steady(r)
    BY <2>5, <2>6, <2>7, <2>8, <2>9, <2>11 DEF Steady, Placed
  <2>13. CASE CanQueueControlTransfer(r)
    <3>1. ~d.canUserTransfer /\ ~r.canUserTransfer
      BY <2>7, <2>13 DEF CanQueueControlTransfer
    <3>2. request \in Requests
      BY <2>1, RequestsTyped
    <3>3. Queued(u, r, request)
      BY Zenon, <2>5, <3>2, QueueFields
    <3> HIDE DEF u
    <3>4. Steady(u) /\ Op(u) = "startReceiving" /\ SamePlace(u, r)
      BY <2>12, <3>1, <3>2, <3>3, QueuedSteady
    <3>5. Leads(u) /\ u.closing = d.closing
      BY <2>5, <3>4 DEF Leads, SamePlace
    <3> QED
      BY <2>3, <2>13, <3>4, <3>5 DEF Receiving
  <2>14. CASE ~CanQueueControlTransfer(r)
    <3>1. r.startLost = TRUE
      BY <2>4, <2>5, <2>7, <2>14 DEF CanQueueControlTransfer
    <3>2. Leads(d) => Leads(r)
      BY <2>5, <2>7, <2>8, <2>9, SameLeads
    <3>3. Kind(d) = "start" \/ Waiting(d) => Waiting(r)
      BY <2>5, <2>9, <3>1 DEF Waiting
    <3> QED
      BY <2>3, <2>5, <2>12, <2>14, <3>2, <3>3 DEF Receiving
  <2> QED
    BY <2>13, <2>14
<1> QED
  BY <1>2, <1>3

LEMMA StartReceivingGood ==
  ASSUME NEW d, Good(d), d.replay => d.initStage >= StageOf(d, "start")
  PROVE  Good(StartReceiving(d))
<1>1. Receiving(StartReceiving(d), d)
  BY StartReceivingSteady DEF Good
<1> QED
  BY <1>1 DEF Good, Receiving

LEMMA ReceiveFilterGood ==
  ASSUME NEW d, Good(d)
  PROVE  Good(UpdateReceiveFilter(d))
<1>1. ~(d.initStage < StageOf(d, "start")) => d.initStage >= StageOf(d, "start")
  BY StartStage DEF Good, Steady, Base
<1> QED
  BY <1>1, StartReceivingGood DEF UpdateReceiveFilter

-----------------------------------------------------------------------------
(* The timer.                                                                *)

(* What init waits for may change, and what the invariant does not look at.  *)
Still(u, d) ==
  /\ Steady(u) /\ SameRecovery(u, d) /\ Op(u) = Op(d) /\ Kind(u) = Kind(d)
  /\ u.closing = d.closing /\ u.generation = d.generation /\ u.initStage = d.initStage
  /\ u.canUserTransfer = d.canUserTransfer /\ u.request = d.request
  /\ u.phyRead = d.phyRead /\ u.phyWrite = d.phyWrite /\ u.completedStage = d.completedStage

LEMMA StillSteady ==
  ASSUME NEW d, Steady(d), NEW u, NEW F, Keeps(u, d, F),
         F \subseteq {"timer", "retryPending", "retryLost"} \cup (DOMAIN Types \ Related)
  PROVE  Still(u, d)
<1>1. /\ Typed(u) /\ u.closing = d.closing /\ u.generation = d.generation
      /\ u.initStage = d.initStage
  <2>1. "closing" \notin F /\ "generation" \notin F /\ "initStage" \notin F
    BY DEF Related
  <2> QED
    BY <2>1, KeptPlace DEF Keeps
<1>2. SameRecovery(u, d)
  <2>1. /\ "pending" \notin F /\ "replay" \notin F /\ "paused" \notin F /\ "pipes" \notin F
        /\ "running" \notin F
    BY DEF Related
  <2> QED
    BY <2>1, KeptRecovery DEF SameRecovery
<1>3. /\ u.phyRead = d.phyRead /\ u.phyWrite = d.phyWrite
      /\ u.completedStage = d.completedStage /\ u.linkReset = d.linkReset
      /\ u.canUserTransfer = d.canUserTransfer /\ u.request = d.request
  <2>1. /\ "phyRead" \notin F /\ "phyWrite" \notin F /\ "completedStage" \notin F
        /\ "linkReset" \notin F /\ "canUserTransfer" \notin F /\ "request" \notin F
    BY DEF Related
  <2> QED
    BY <2>1, KeptChannel
<1>4. Op(u) = Op(d)
  BY <1>3 DEF Op
<1>5. /\ Kind(u) = Kind(d) /\ Complete(u) = Complete(d) /\ LinkReset(u) = LinkReset(d)
      /\ StageOf(u, "start") = StageOf(d, "start")
  BY <1>1, SameTables
<1>6. Channel(u)
  BY <1>3, <1>4 DEF Channel, Steady, Base
<1>7. Base(u)
  BY <1>1, <1>2, <1>3, <1>4, <1>5, <1>6 DEF Base, Steady, SameRecovery
<1>8. Steady(u)
  BY <1>1, <1>2, <1>3, <1>4, <1>5, <1>7 DEF Steady, Placed, SameRecovery
<1> QED
  BY <1>1, <1>2, <1>3, <1>4, <1>5, <1>8 DEF Still

Timed(u, d, timer) ==
  /\ Still(u, d) /\ u.timer = timer
  /\ u.retryPending = d.retryPending /\ u.retryLost = d.retryLost /\ u.startLost = d.startLost

LEMMA TimerSet ==
  ASSUME NEW d, Steady(d), NEW timer \in {"none", "advance", "running"}
  PROVE  Timed([d EXCEPT !.timer = timer], d, timer)
<1> DEFINE u == [d EXCEPT !.timer = timer]
<1>1. Keeps(u, d, {"timer"}) /\ u.timer = timer
  <2>1. "timer" \in DOMAIN Types /\ timer \in Types.timer /\ Typed(d)
    BY TypesOf DEF Steady, Base
  <2>2. Keeps(u, d, {"timer"})
    BY Zenon, <2>1, Put
  <2>3. u.timer = timer
    BY <2>1, SMT, TypesOf DEF Typed
  <2> QED
    BY <2>2, <2>3
<1> HIDE DEF u
<1>2. /\ u.retryPending = d.retryPending /\ u.retryLost = d.retryLost
      /\ u.startLost = d.startLost
  BY <1>1, KeptPlace
<1>3. Still(u, d)
  BY <1>1, StillSteady
<1>4. Timed(u, d, timer)
  BY <1>1, <1>2, <1>3 DEF Timed
<1> QED
  BY <1>4 DEF u

(* It is armed where init does not need it.                                  *)
LEMMA TimedGood ==
  ASSUME NEW d, NEW u, NEW timer, Timed(u, d, timer), Good(d),
         \/ Kind(d) \in {"complete", "none"}
         \/ d.timer # "advance" /\ Kind(d) # "waitPhy"
  PROVE  Good(u)
<1>1. Leads(d) => Leads(u)
  BY SameLeads DEF Timed, Still
<1>2. Waiting(d) => Waiting(u)
  BY DEF Waiting, Timed, Still
<1> QED
  BY <1>1, <1>2 DEF Good, Timed, Still

-----------------------------------------------------------------------------
(* The next stage.                                                           *)

(* There is a least element: induction, without an operator parameter.       *)
LEMMA LeastElement ==
  ASSUME NEW S \in SUBSET Nat, S # {}
  PROVE  \E m \in S : \A k \in S : m <= k
<1> DEFINE less == {pair \in Nat \X Nat : pair[1] < pair[2]}
<1>1. IsWellFoundedOn(less, Nat)
  BY NatLessThanWellFounded DEF OpToRel
<1>2. \A d, e \in Nat : <<e, d>> \notin less => d <= e
  OBVIOUS
<1> HIDE DEF less
<1>3. PICK m \in S : \A k \in S : <<k, m>> \notin less
  BY <1>1, WFMin
<1> QED
  BY <1>2, <1>3

(* Where init stays, it can queue its request, if it has one.                *)
LEMMA StaysAt ==
  ASSUME NEW d, NEW s
  PROVE  /\ Stages(d)[s] = "complete" => Stays(d, s)
         /\ Stays(d, s) /\ Stages(d)[s] \in StageOps \cup {"writeNodeId"} =>
              CanQueueControlTransfer(d)
         /\ Stays(d, s) /\ Stages(d)[s] \in PhyKinds => CanBeginPhy(d)
<1> DEFINE kind == Stages(d)[s]
           a == IF d.initStage < StageOf(d, "address") THEN RecoverXboxAddresses(d) ELSE d
           unknown == NodeAddress(a) = NoAddress
           node == NodeAddress(a) # NoAddress /\ CanQueueControlTransfer(d)
           phy == CanBeginPhy(d)
           can == CanQueueControlTransfer(d)
           u == Stays(d, s)
           true == TRUE
<1>1. u = CASE kind \in {"pause", "settle", "start", "complete"} -> true
            [] kind = "address" -> unknown
            [] kind = "writeNodeId" -> node
            [] kind \in PhyKinds -> phy
            [] OTHER -> can
  BY Zenon DEF Stays
<1>2. node => can
  OBVIOUS
<1>3. true = TRUE
  OBVIOUS
<1> HIDE DEF u, kind, unknown, node, phy, can, true
<1>4. kind = "complete" => u = true
  BY <1>1 DEF PhyKinds
<1>5. kind \in StageOps => u = can
  BY <1>1 DEF StageOps, PhyKinds
<1>6. kind = "writeNodeId" => u = node
  BY <1>1 DEF PhyKinds
<1>7. kind \in PhyKinds => u = phy
  BY <1>1 DEF PhyKinds
<1>8. /\ kind = "complete" => u
      /\ u /\ kind \in StageOps \cup {"writeNodeId"} => can
      /\ u /\ kind \in PhyKinds => phy
  BY Zenon, <1>2, <1>3, <1>4, <1>5, <1>6, <1>7
<1> QED
  BY <1>8 DEF u, kind, phy, can

(* Advancing goes forward, to a stage where init stays, and not over the     *)
(* last one unless it is there already.                                      *)
LEMMA NextStageBounds ==
  ASSUME NEW d, Typed(d), d.initStage <= Complete(d) + 1
  PROVE  /\ NextStage(d) \in 1 .. Complete(d) + 1 /\ d.initStage <= NextStage(d)
         /\ NextStage(d) <= Complete(d) => d.initStage < NextStage(d) /\ Stays(d, NextStage(d))
         /\ d.initStage < Complete(d) => NextStage(d) <= Complete(d)
<1> DEFINE n == Complete(d)
           T == {s \in DOMAIN Stages(d) : s > d.initStage /\ Stays(d, s)} \cup {n + 1}
           m == NextStage(d)
<1>1. d.initStage \in Nat /\ d.generation \in {"ax88179", "ax179a"}
  BY Fields
<1>2. n \in Nat \ {0} /\ DOMAIN Stages(d) = 1 .. n /\ Stages(d)[n] = "complete"
  BY <1>1, Table
<1>3. d.initStage < n => n \in T
  BY <1>1, <1>2, StaysAt
<1>4. T \subseteq 1 .. n + 1 /\ n + 1 \in T
  BY <1>2
<1>5. \A s \in T : s = n + 1 \/ (s > d.initStage /\ Stays(d, s))
  OBVIOUS
<1>6. m = Min(T)
  BY DEF NextStage
<1> HIDE DEF T, m, n
<1>7. PICK k \in T : \A s \in T : k <= s
  <2>1. T \subseteq Nat /\ T # {}
    BY <1>2, <1>4
  <2> QED
    BY Zenon, <2>1, LeastElement
<1>8. m \in T /\ \A s \in T : m <= s
  BY Zenon, <1>6, <1>7 DEF Min
<1>9. m \in 1 .. n + 1
  BY <1>4, <1>8
<1>10. m <= n => m > d.initStage /\ Stays(d, m)
  BY <1>2, <1>5, <1>8, <1>9
<1>11. d.initStage <= n + 1
  BY DEF n
<1>12. d.initStage <= m
  BY <1>1, <1>2, <1>9, <1>10, <1>11
<1>13. d.initStage < n => m <= n
  BY <1>3, <1>8
<1> QED
  BY <1>9, <1>10, <1>12, <1>13 DEF m, n

-----------------------------------------------------------------------------
(* Entering a stage.                                                         *)

LEMMA RecoverNear ==
  ASSUME NEW d, Typed(d)
  PROVE  Near(RecoverXboxAddresses(d), d)
<1> DEFINE address == IF d.title # NoAddress THEN d.title ELSE d.unicast
           u == [d EXCEPT !.unicast = address, !.alternate = NoAddress]
<1>1. address \in Types.unicast /\ NoAddress \in Types.alternate
  <2>1. "title" \in DOMAIN Types /\ "unicast" \in DOMAIN Types
    BY TypesOf
  <2>2. d["title"] \in Types["title"] /\ d["unicast"] \in Types["unicast"]
    BY Zenon, <2>1, FieldTyped
  <2> QED
    BY <2>2, TypesOf
<1>2. RecoverXboxAddresses(d) = u
  BY DEF RecoverXboxAddresses
<1> HIDE DEF address
<1>3. {"unicast", "alternate"} \subseteq DOMAIN Types
  BY Zenon, TypesOf
<1>4. Keeps(u, d, {"unicast", "alternate"})
  BY Zenon, <1>1, <1>3, Put2
<1> HIDE DEF u
<1>5. {"unicast", "alternate"} \subseteq DOMAIN Types \ Related
  BY LooseFields
<1> QED
  BY Zenon, <1>2, <1>4, <1>5, KeepsNear

(* Init is at stage s, and has no retry or lost write behind it.             *)
Entering(e, d, s) ==
  /\ Typed(e) /\ SameRecovery(e, d) /\ e.initStage = s
  /\ e.closing = d.closing /\ e.generation = d.generation /\ e.timer = d.timer
  /\ e.phyRead = d.phyRead /\ e.phyWrite = d.phyWrite
  /\ e.completedStage = d.completedStage /\ e.linkReset = d.linkReset
  /\ e.canUserTransfer = d.canUserTransfer /\ e.request = d.request

LEMMA EnteredEnters ==
  ASSUME NEW d, Typed(d), NEW kinds, NEW s \in Nat
  PROVE  Entering([Entered(d, kinds) EXCEPT !.initStage = s], d, s)
<1> DEFINE a == IF "address" \in kinds THEN RecoverXboxAddresses(d) ELSE d
           lost == a.addressLost \/ ("writeNodeId" \in kinds /\ ~CanQueueControlTransfer(d))
           state == IF "medium" \in kinds /\ d.generation = "ax179a" THEN "1000" ELSE a.resetLink
           stale == a.mediumStale \/ ("medium" \in kinds /\ d.generation = "ax88179" /\
                                      d.linkState # "down")
           b == [a EXCEPT !.retries = 0, !.retryPending = FALSE, !.retryLost = FALSE,
                          !.startLost = FALSE]
           c == [b EXCEPT !.addressLost = lost, !.resetLink = state, !.mediumStale = stale,
                          !.initStage = s]
<1>1. [Entered(d, kinds) EXCEPT !.initStage = s] = c
  BY Zenon DEF Entered
<1>2. Near(a, d)
  BY RecoverNear, NearItself
<1>3. Typed(a)
  BY <1>2 DEF Near, Keeps
<1>4. lost \in BOOLEAN /\ state \in States /\ stale \in BOOLEAN
  <2>1. {"addressLost", "resetLink", "mediumStale"} \subseteq DOMAIN Types
    BY Zenon, TypesOf
  <2>2. /\ a["addressLost"] \in Types["addressLost"]
        /\ a["resetLink"] \in Types["resetLink"]
        /\ a["mediumStale"] \in Types["mediumStale"]
    BY Zenon, <1>3, <2>1, FieldTyped
  <2>3. a.addressLost \in BOOLEAN /\ a.resetLink \in States /\ a.mediumStale \in BOOLEAN
    BY <2>2, TypesOf
  <2>4. lost \in BOOLEAN
    OBVIOUS
  <2>5. stale \in BOOLEAN
    OBVIOUS
  <2>6. state \in States
    BY <2>3 DEF States
  <2> QED
    BY <2>4, <2>5, <2>6
<1> HIDE DEF lost, state, stale, a
<1>5. Keeps(b, a, {"retries", "retryPending", "retryLost", "startLost"})
  <2>1. {"retries", "retryPending", "retryLost", "startLost"} \subseteq DOMAIN Types
    BY Zenon, TypesOf
  <2>2. /\ 0 \in Types.retries /\ FALSE \in Types.retryPending /\ FALSE \in Types.retryLost
        /\ FALSE \in Types.startLost
    BY TypesOf
  <2> QED
    BY Zenon, <1>3, <2>1, <2>2, Put4
<1> HIDE DEF b
<1>6. /\ Keeps(c, b, {"addressLost", "resetLink", "mediumStale", "initStage"})
      /\ c.initStage = s
  <2>1. {"addressLost", "resetLink", "mediumStale", "initStage"} \subseteq DOMAIN Types
    BY Zenon, TypesOf
  <2>2. /\ lost \in Types.addressLost /\ state \in Types.resetLink
        /\ stale \in Types.mediumStale /\ s \in Types.initStage
    BY <1>4, TypesOf
  <2>3. Typed(b)
    BY <1>5 DEF Keeps
  <2>4. Keeps(c, b, {"addressLost", "resetLink", "mediumStale", "initStage"})
    BY Zenon, <2>1, <2>2, <2>3, Put4
  <2>5. c.initStage = s
    BY <2>3, SMT, TypesOf DEF Typed
  <2> QED
    BY <2>4, <2>5
<1> HIDE DEF c
<1>7. Typed(c) /\ c.closing = d.closing /\ c.generation = d.generation /\ c.timer = d.timer
  BY <1>2, <1>5, <1>6, KeptPlace, NearFields DEF Keeps
<1>8. SameRecovery(c, d)
  BY <1>2, <1>5, <1>6, KeptRecovery, NearFields DEF SameRecovery
<1>9. /\ c.phyRead = d.phyRead /\ c.phyWrite = d.phyWrite
      /\ c.completedStage = d.completedStage /\ c.linkReset = d.linkReset
      /\ c.canUserTransfer = d.canUserTransfer /\ c.request = d.request
  BY <1>2, <1>5, <1>6, KeptChannel, NearFields
<1> QED
  BY <1>1, <1>6, <1>7, <1>8, <1>9 DEF Entering

(* Forward from a steady device: all is well but the end of a replay.        *)
LEMMA EnteringSteady ==
  ASSUME NEW d, Steady(d), ~d.closing, NEW s, s = NextStage(d), NEW e, Entering(e, d, s)
  PROVE  /\ Base(e) /\ (e.linkReset # 0 <=> Op(e) = "linkReset")
         /\ Op(e) = Op(d) /\ Complete(e) = Complete(d)
         /\ Kind(e) # "complete" => Steady(e)
         /\ Kind(e) = "complete" => ~e.pending /\ s = Complete(d)
         /\ Kind(e) # "none" => s \in DOMAIN Stages(d) /\ Stays(d, s) /\ Kind(e) = Stages(d)[s]
<1>1. /\ Typed(d) /\ d.initStage <= Complete(d) + 1 /\ d.initStage \in Nat
      /\ d.generation \in {"ax88179", "ax179a"}
  BY Fields DEF Steady, Base
<1>2. /\ s \in 1 .. Complete(d) + 1 /\ d.initStage <= s
      /\ s <= Complete(d) => d.initStage < s /\ Stays(d, s)
      /\ d.initStage < Complete(d) => s <= Complete(d)
  BY Zenon, <1>1, NextStageBounds
<1>3. /\ Stages(e) = Stages(d) /\ Complete(e) = Complete(d) /\ LinkReset(e) = LinkReset(d)
      /\ StageOf(e, "start") = StageOf(d, "start")
  BY SameTables DEF Entering
<1>4. /\ Complete(d) \in Nat /\ StageOf(d, "start") \in Nat /\ DOMAIN Stages(d) = 1 .. Complete(d)
      /\ 0 < Complete(d)
  BY <1>1, Table
<1>5. Op(e) = Op(d)
  BY DEF Op, Entering
<1>6. Channel(e)
  BY <1>5 DEF Channel, Entering, Steady, Base
<1>7. s < StageOf(d, "start") => d.initStage < StageOf(d, "start")
  BY <1>1, <1>2, <1>4
<1>8. e.initStage <= Complete(e) + 1
  BY <1>2, <1>3, <1>4 DEF Entering
<1>9. Base(e)
  BY <1>3, <1>5, <1>6, <1>7, <1>8 DEF Base, Steady, Entering, SameRecovery
<1>10. Typed(e) /\ e.initStage = s
  BY DEF Entering
<1>11. /\ Kind(e) = "complete" <=> s = Complete(d)
       /\ s > Complete(d) => Kind(e) = "none"
  BY <1>3, <1>10, KindOf
<1>12. Kind(e) # "complete" => Placed(e)
  <2>1. e.pending = d.pending /\ e.replay = d.replay /\ e.closing = d.closing
    BY DEF Entering, SameRecovery
  <2>2. d.pending => s >= Complete(d)
    BY <1>1, <1>2, <1>4 DEF Steady, Placed
  <2>3. d.replay => s <= Complete(d)
    BY <1>2 DEF Steady, Placed
  <2> QED
    BY <1>2, <1>3, <1>4, <1>10, <1>11, <2>1, <2>2, <2>3 DEF Placed
<1>13. ASSUME Kind(e) = "complete" PROVE ~e.pending
  <2>1. s = Complete(d) /\ s <= Complete(d)
    BY <1>4, <1>11, <1>13
  <2>2. ~(d.initStage >= Complete(d))
    BY <1>1, <1>2, <1>4, <2>1
  <2> QED
    BY <2>2 DEF Steady, Placed, Entering, SameRecovery
<1>14. Kind(e) # "none" =>
         s \in DOMAIN Stages(d) /\ Stays(d, s) /\ Kind(e) = Stages(d)[s]
  <2>1. Kind(e) # "none" => s <= Complete(d)
    BY <1>2, <1>4, <1>11
  <2>2. s \in DOMAIN Stages(d) => Kind(e) = Stages(d)[s]
    BY <1>3, <1>10 DEF Kind, KindAt
  <2> QED
    BY <1>2, <1>4, <2>1, <2>2
<1> QED
  BY <1>3, <1>5, <1>9, <1>11, <1>12, <1>13, <1>14 DEF Steady, Entering

-----------------------------------------------------------------------------
(* Advancing.                                                                *)

(* Init is complete: the device runs, and a replay is over.                  *)
LEMMA CompleteGood ==
  ASSUME NEW d, Base(d), d.linkReset # 0 <=> Op(d) = "linkReset", Kind(d) = "complete",
         ~d.pending
  PROVE  Good([d EXCEPT !.timer = "running", !.replay = FALSE, !.paused = FALSE,
                        !.pipes = @ \cup {"interrupt"},
                        !.errors = IF d.replay THEN ResetFields.errors ELSE @,
                        !.timeouts = IF d.replay THEN 0 ELSE @])
<1> DEFINE errors == IF d.replay THEN ResetFields.errors ELSE d.errors
           timeouts == IF d.replay THEN 0 ELSE d.timeouts
           pipes == d.pipes \cup {"interrupt"}
           b == [d EXCEPT !.timer = "running", !.replay = FALSE, !.paused = FALSE, !.pipes = pipes]
           u == [b EXCEPT !.errors = errors, !.timeouts = timeouts]
<1>1. Typed(d)
  BY DEF Base
<1>2. errors \in Types.errors /\ timeouts \in Types.timeouts
  <2>1. "errors" \in DOMAIN Types /\ "timeouts" \in DOMAIN Types
    BY TypesOf
  <2>2. d["errors"] \in Types["errors"] /\ d["timeouts"] \in Types["timeouts"]
    BY Zenon, <1>1, <2>1, FieldTyped
  <2>3. ResetFields.errors \in [Pipes -> Nat]
    BY DEF ResetFields
  <2> QED
    BY <2>2, <2>3, TypesOf
<1>3. pipes \in Types.pipes
  <2>1. pipes \in SUBSET Pipes
    BY <1>1, Fields DEF Pipes
  <2> QED
    BY <2>1, TypesOf
<1>4. u = [d EXCEPT !.timer = "running", !.replay = FALSE, !.paused = FALSE,
                    !.pipes = @ \cup {"interrupt"},
                    !.errors = IF d.replay THEN ResetFields.errors ELSE @,
                    !.timeouts = IF d.replay THEN 0 ELSE @]
  BY Zenon
<1> HIDE DEF errors, timeouts, pipes
<1>5. Keeps(b, d, {"timer", "replay", "paused", "pipes"})
  <2>1. {"timer", "replay", "paused", "pipes"} \subseteq DOMAIN Types
    BY Zenon, TypesOf
  <2>2. "running" \in Types.timer /\ FALSE \in Types.replay /\ FALSE \in Types.paused
    BY TypesOf
  <2> QED
    BY Zenon, <1>1, <1>3, <2>1, <2>2, Put4
<1>6. b.replay = FALSE /\ b.timer = "running"
  BY <1>1, SMT, TypesOf DEF Typed
<1> HIDE DEF b
<1>7. Keeps(u, b, {"errors", "timeouts"})
  <2>1. {"errors", "timeouts"} \subseteq DOMAIN Types
    BY Zenon, TypesOf
  <2>2. Typed(b)
    BY <1>5 DEF Keeps
  <2> QED
    BY Zenon, <1>2, <2>1, <2>2, Put2
<1> HIDE DEF u
<1>8. /\ Typed(u) /\ u.generation = d.generation /\ u.initStage = d.initStage
  BY <1>5, <1>7, KeptPlace DEF Keeps
<1>9. ~u.replay /\ u.pending = d.pending
  BY <1>5, <1>6, <1>7, KeptRecovery
<1>10. /\ u.phyRead = d.phyRead /\ u.phyWrite = d.phyWrite
       /\ u.completedStage = d.completedStage /\ u.linkReset = d.linkReset
       /\ u.canUserTransfer = d.canUserTransfer /\ u.request = d.request
  BY <1>5, <1>7, KeptChannel
<1>11. Op(u) = Op(d)
  BY <1>10 DEF Op
<1>12. Kind(u) = Kind(d) /\ Complete(u) = Complete(d) /\ LinkReset(u) = LinkReset(d)
  BY <1>8, SameTables
<1>13. Channel(u)
  BY <1>10, <1>11 DEF Channel, Base
<1>14. Steady(u)
  BY <1>8, <1>9, <1>10, <1>11, <1>12, <1>13 DEF Base, Steady, Placed
<1>15. Good(u)
  BY <1>12, <1>14 DEF Good, Waiting
<1> QED
  BY Zenon, <1>4, <1>15

(* A plain request of init is queued.                                        *)
LEMMA QueuedLeads ==
  ASSUME NEW d, Steady(d), ~d.canUserTransfer, NEW op, NEW value, Request(op, value) \in Requests,
         \/ op \in StageOps
         \/ op = "writeNodeId" /\ Kind(d) = "writeNodeId"
  PROVE  Good(QueueControlTransfer(d, Request(op, value)))
<1> DEFINE u == QueueControlTransfer(d, Request(op, value))
<1>1. Queued(u, d, Request(op, value))
  BY QueueFields DEF Steady, Base
<1> HIDE DEF u
<1>2. Steady(u) /\ Op(u) = op /\ SamePlace(u, d)
  BY <1>1, QueuedSteady DEF StageOps
<1>3. Kind(u) = Kind(d)
  BY <1>2, PlaceOf
<1>4. Leads(u)
  BY <1>2, <1>3 DEF Leads
<1> QED
  BY <1>2, <1>4 DEF Good, u

(* The address of the node, if there is one.                                 *)
LEMMA NodeAddressTyped ==
  ASSUME NEW d, Typed(d)
  PROVE  NodeAddress(d) \in Addresses \cup {NoAddress}
<1>1. "unicast" \in DOMAIN Types /\ "alternate" \in DOMAIN Types
  BY TypesOf
<1>2. d["unicast"] \in Types["unicast"] /\ d["alternate"] \in Types["alternate"]
  BY Zenon, <1>1, FieldTyped
<1> QED
  BY <1>2, TypesOf DEF NodeAddress

LEMMA WriteNodeIdQueued ==
  ASSUME NEW d, Steady(d), ~d.canUserTransfer
  PROVE  LET u == QueueControlTransfer([d EXCEPT !.addressLost = FALSE],
                                       Request("writeNodeId", NodeAddress(d)))
         IN  /\ Steady(u) /\ SamePlace(u, d)
             /\ Kind(d) = "writeNodeId" => Good(u)
<1> DEFINE a == [d EXCEPT !.addressLost = FALSE]
           request == Request("writeNodeId", NodeAddress(d))
           u == QueueControlTransfer(a, request)
<1>1. Near(a, d)
  <2>1. "addressLost" \in DOMAIN Types \ Related /\ FALSE \in Types.addressLost /\ Typed(d)
    BY LooseFields, TypesOf DEF Steady, Base
  <2> QED
    BY Zenon, <2>1, NearTyped
<1> HIDE DEF a
<1>2. Steady(a) /\ ~a.canUserTransfer /\ SamePlace(a, d) /\ Typed(a)
  BY <1>1, NearSteady, NearFields
<1>3. request \in Requests
  BY NodeAddressTyped, RequestsTyped DEF Steady, Base
<1>4. Queued(u, a, request)
  BY Zenon, <1>2, <1>3, QueueFields
<1> HIDE DEF u
<1>5. Steady(u) /\ Op(u) = "writeNodeId" /\ SamePlace(u, a)
  BY <1>2, <1>3, <1>4, QueuedSteady
<1>6. SamePlace(u, d)
  BY <1>2, <1>5 DEF SamePlace
<1>7. Kind(d) = "writeNodeId" => Good(u)
  BY <1>5, <1>6, PlaceOf DEF Good, Leads
<1> QED
  BY <1>5, <1>6, <1>7 DEF u, a

(* What init may enter, it begins.                                           *)
Enterable(d) ==
  /\ Base(d) /\ (d.linkReset # 0 <=> Op(d) = "linkReset") /\ ~d.closing
  /\ Kind(d) # "complete" => Steady(d)
  /\ Kind(d) = "complete" => ~d.pending
  /\ Kind(d) \in StageOps \cup {"writeNodeId"} => ~d.canUserTransfer
  /\ Kind(d) \in PhyKinds => CanBeginPhy(d)

LEMMA BeginKinds ==
  ASSUME NEW d, Kind(d) \in InitKinds \cup {"none"}
  PROVE  /\ Kind(d) \in {"pause", "settle"} => Begin(d) = [d EXCEPT !.timer = "advance"]
         /\ Kind(d) \in {"address", "none"} => Begin(d) = d
         /\ Kind(d) = "writeNodeId" =>
              Begin(d) = QueueControlTransfer([d EXCEPT !.addressLost = FALSE],
                                              Request("writeNodeId", NodeAddress(d)))
         /\ Kind(d) = "start" => Begin(d) = StartReceiving(d)
         /\ Kind(d) = "waitPhy" => Begin(d) = BeginReadPhy(d, PhyIdentifier)
         /\ Kind(d) = "readBmcr" => Begin(d) = BeginReadPhy(d, MiiBmcr)
         /\ Kind(d) \in {"phyWrite", "restart"} => Begin(d) = BeginWritePhy(d, MiiBmcr)
         /\ Kind(d) = "complete" =>
              Begin(d) = [d EXCEPT !.timer = "running", !.replay = FALSE, !.paused = FALSE,
                                   !.pipes = @ \cup {"interrupt"},
                                   !.errors = IF d.replay THEN ResetFields.errors ELSE @,
                                   !.timeouts = IF d.replay THEN 0 ELSE @]
         /\ Kind(d) \in StageOps => Begin(d) = QueueControlTransfer(d, Request(Kind(d), "none"))
<1> DEFINE kind == Kind(d)
           pause == [d EXCEPT !.timer = "advance"]
           node == QueueControlTransfer([d EXCEPT !.addressLost = FALSE],
                                        Request("writeNodeId", NodeAddress(d)))
           start == StartReceiving(d)
           ready == BeginReadPhy(d, PhyIdentifier)
           bmcr == BeginReadPhy(d, MiiBmcr)
           write == BeginWritePhy(d, MiiBmcr)
           complete == [d EXCEPT !.timer = "running", !.replay = FALSE, !.paused = FALSE,
                                 !.pipes = @ \cup {"interrupt"},
                                 !.errors = IF d.replay THEN ResetFields.errors ELSE @,
                                 !.timeouts = IF d.replay THEN 0 ELSE @]
           plain == QueueControlTransfer(d, Request(Kind(d), "none"))
           u == Begin(d)
<1>1. u = CASE kind \in {"pause", "settle"} -> pause
            [] kind \in {"address", "none"} -> d
            [] kind = "writeNodeId" -> node
            [] kind = "start"    -> start
            [] kind = "waitPhy"  -> ready
            [] kind = "readBmcr" -> bmcr
            [] kind \in {"phyWrite", "restart"} -> write
            [] kind = "complete" -> complete
            [] OTHER -> plain
  BY Zenon DEF Begin
<1> HIDE DEF u, kind, pause, node, start, ready, bmcr, write, complete, plain
<1>2. /\ kind \in {"pause", "settle"} => u = pause
      /\ kind \in {"address", "none"} => u = d
      /\ kind = "writeNodeId" => u = node
      /\ kind = "start" => u = start
  BY <1>1
<1>3. /\ kind = "waitPhy" => u = ready
      /\ kind = "readBmcr" => u = bmcr
      /\ kind \in {"phyWrite", "restart"} => u = write
      /\ kind = "complete" => u = complete
  BY <1>1
<1>4. kind \in StageOps => u = plain
  BY <1>1 DEF StageOps
<1> QED
  BY Zenon, <1>2, <1>3, <1>4
     DEF u, kind, pause, node, start, ready, bmcr, write, complete, plain

LEMMA BeginGood ==
  ASSUME NEW d, Enterable(d)
  PROVE  Good(Begin(d))
<1>1. Typed(d) /\ ~d.closing
  BY DEF Enterable, Base
<1>2. Kind(d) \in InitKinds \cup {"none"}
  BY <1>1, KindOf
<1>3. Kind(d) # "complete" => Steady(d)
  BY DEF Enterable
<1>4. CASE Kind(d) \in {"pause", "settle"}
  <2>1. Timed([d EXCEPT !.timer = "advance"], d, "advance")
    BY <1>3, <1>4, TimerSet
  <2>2. Begin(d) = [d EXCEPT !.timer = "advance"]
    BY Zenon, <1>2, <1>4, BeginKinds
  <2>3. Timed(Begin(d), d, "advance")
    BY Zenon, <2>1, <2>2
  <2> QED
    BY <2>3 DEF Timed, Still, Good, Waiting
<1>5. CASE Kind(d) \in {"address", "none"}
  <2>1. Begin(d) = d
    BY Zenon, <1>2, <1>5, BeginKinds
  <2> QED
    BY <1>3, <1>5, <2>1 DEF Good, Waiting
<1>6. CASE Kind(d) = "writeNodeId"
  <2>1. Good(QueueControlTransfer([d EXCEPT !.addressLost = FALSE],
                                  Request("writeNodeId", NodeAddress(d))))
    BY <1>3, <1>6, WriteNodeIdQueued DEF Enterable
  <2>2. Begin(d) = QueueControlTransfer([d EXCEPT !.addressLost = FALSE],
                                        Request("writeNodeId", NodeAddress(d)))
    BY Zenon, <1>2, <1>6, BeginKinds
  <2> QED
    BY Zenon, <2>1, <2>2
<1>7. CASE Kind(d) = "start"
  <2>1. d.replay => d.initStage >= StageOf(d, "start")
    <3>1. d.initStage = StageOf(d, "start") /\ d.initStage \in Nat
      BY <1>1, <1>7, KindOf, Fields
    <3> QED
      BY <3>1
  <2>2. Receiving(StartReceiving(d), d)
    BY <1>3, <1>7, <2>1, StartReceivingSteady
  <2>3. Begin(d) = StartReceiving(d)
    BY Zenon, <1>2, <1>7, BeginKinds
  <2> QED
    BY <1>1, <1>7, <2>2, <2>3 DEF Receiving, Good
<1>8. CASE Kind(d) \in {"waitPhy", "readBmcr"}
  <2> DEFINE register == IF Kind(d) = "waitPhy" THEN PhyIdentifier ELSE MiiBmcr
  <2>1. CanBeginPhy(d)
    BY <1>8 DEF Enterable, PhyKinds
  <2>2. register \in Nat
    BY DEF PhyIdentifier, MiiBmcr
  <2>3. Begin(d) = BeginReadPhy(d, register)
    BY Zenon, <1>2, <1>8, BeginKinds
  <2>4. \/ Kind(d) = "waitPhy" /\ register = PhyIdentifier
        \/ Kind(d) = "readBmcr" /\ register = MiiBmcr
    BY <1>8
  <2> HIDE DEF register
  <2>5. Begun(BeginPhy(d, "phyRead", register), d, "phyRead", register)
    BY <1>3, <1>8, <2>1, <2>2, BeginPhyBegun
  <2>6. Good(BeginPhy(d, "phyRead", register))
    BY <2>4, <2>5, BegunLeads
  <2> QED
    BY Zenon, <2>3, <2>6 DEF BeginReadPhy
<1>9. CASE Kind(d) \in {"phyWrite", "restart"}
  <2>1. CanBeginPhy(d)
    BY <1>9 DEF Enterable, PhyKinds
  <2>2. Begin(d) = BeginWritePhy(d, MiiBmcr)
    BY Zenon, <1>2, <1>9, BeginKinds
  <2>3. MiiBmcr \in Nat
    BY DEF MiiBmcr
  <2>4. Begun(BeginPhy(d, "phyWrite", MiiBmcr), d, "phyWrite", MiiBmcr)
    BY <1>3, <1>9, <2>1, <2>3, BeginPhyBegun
  <2>5. Good(BeginPhy(d, "phyWrite", MiiBmcr))
    BY <1>9, <2>4, BegunLeads
  <2> QED
    BY Zenon, <2>2, <2>5 DEF BeginWritePhy
<1>10. CASE Kind(d) = "complete"
  <2> DEFINE u == [d EXCEPT !.timer = "running", !.replay = FALSE, !.paused = FALSE,
                            !.pipes = @ \cup {"interrupt"},
                            !.errors = IF d.replay THEN ResetFields.errors ELSE @,
                            !.timeouts = IF d.replay THEN 0 ELSE @]
  <2>1. Begin(d) = u
    BY Zenon, <1>2, <1>10, BeginKinds
  <2>2. Good(u)
    BY <1>10, CompleteGood DEF Enterable
  <2> QED
    BY Zenon, <2>1, <2>2
<1>11. CASE Kind(d) \in StageOps
  <2>1. Kind(d) # "complete" /\ ~d.canUserTransfer
    BY <1>11 DEF StageOps, Enterable
  <2>2. Request(Kind(d), "none") \in Requests
    BY <1>11, RequestsTyped
  <2>3. Good(QueueControlTransfer(d, Request(Kind(d), "none")))
    BY <1>3, <1>11, <2>1, <2>2, QueuedLeads
  <2> QED
    BY Zenon, <1>2, <1>11, <2>3, BeginKinds
<1> QED
  BY <1>2, <1>4, <1>5, <1>6, <1>7, <1>8, <1>9, <1>10, <1>11 DEF InitKinds

(* Init is moved to another stage.                                           *)
LEMMA MovedSteady ==
  ASSUME NEW d, Steady(d), NEW s \in Nat, s <= Complete(d) + 1,
         d.pending => s >= Complete(d),
         d.replay /\ ~d.closing => s < Complete(d),
         s >= StageOf(d, "start")
  PROVE  Steady([d EXCEPT !.initStage = s]) /\ [d EXCEPT !.initStage = s].closing = d.closing
<1> DEFINE u == [d EXCEPT !.initStage = s]
<1>1. Keeps(u, d, {"initStage"}) /\ u.initStage = s
  <2>1. "initStage" \in DOMAIN Types /\ s \in Types.initStage /\ Typed(d)
    BY TypesOf DEF Steady, Base
  <2>2. Keeps(u, d, {"initStage"})
    BY Zenon, <2>1, Put
  <2>3. u.initStage = s
    BY <2>1, SMT, TypesOf DEF Typed
  <2> QED
    BY <2>2, <2>3
<1> HIDE DEF u
<1>2. Typed(u) /\ u.closing = d.closing /\ u.generation = d.generation
  BY <1>1, KeptPlace DEF Keeps
<1>3. SameRecovery(u, d)
  BY <1>1, KeptRecovery DEF SameRecovery
<1>4. /\ u.phyRead = d.phyRead /\ u.phyWrite = d.phyWrite
      /\ u.completedStage = d.completedStage /\ u.linkReset = d.linkReset
      /\ u.canUserTransfer = d.canUserTransfer /\ u.request = d.request
  BY <1>1, KeptChannel
<1>5. Op(u) = Op(d)
  BY <1>4 DEF Op
<1>6. /\ Complete(u) = Complete(d) /\ LinkReset(u) = LinkReset(d)
      /\ StageOf(u, "start") = StageOf(d, "start")
  BY <1>2, SameTables
<1>7. Channel(u)
  BY <1>4, <1>5 DEF Channel, Steady, Base
<1>8. ~(u.initStage < StageOf(u, "start"))
  BY <1>1, <1>2, <1>6, StartStage
<1>9. Base(u)
  BY <1>1, <1>2, <1>3, <1>4, <1>5, <1>6, <1>7, <1>8 DEF Base, Steady, SameRecovery
<1>10. Steady(u)
  BY <1>1, <1>2, <1>3, <1>4, <1>5, <1>6, <1>9 DEF Steady, Placed, SameRecovery
<1> QED
  BY <1>2, <1>10 DEF u

(* From a steady device init may advance at any time.                        *)
LEMMA AdvanceGood ==
  ASSUME NEW d, Steady(d)
  PROVE  Good(AdvanceInitStage(d))
<1>1. AdvanceInitStage(d) = Advance(d)
  BY DEF Apply, AdvanceInitStage
<1>2. Typed(d) /\ d.generation \in {"ax88179", "ax179a"} /\ d.initStage <= Complete(d) + 1
  BY Fields DEF Steady, Base
<1>3. CASE d.closing
  <2> DEFINE u == [d EXCEPT !.initStage = Complete(d)]
  <2>1. /\ Complete(d) \in Nat /\ Complete(d) <= Complete(d) + 1 /\ Complete(d) >= Complete(d)
        /\ Complete(d) >= StageOf(d, "start")
    BY <1>2, Table
  <2>2. Steady(u) /\ u.closing = d.closing
    BY <1>3, <2>1, MovedSteady
  <2>3. Good(u)
    BY <1>3, <2>2 DEF Good
  <2> QED
    BY <1>1, <1>3, <2>3 DEF Advance
<1>4. CASE ~d.closing
  <2> DEFINE s == NextStage(d)
             kinds == {Stages(d)[t] : t \in d.initStage + 1 .. s \cap DOMAIN Stages(d)}
             e == [Entered(d, kinds) EXCEPT !.initStage = s]
  <2>1. Advance(d) = Begin(e)
    <3>1. Advance(d) = StepTo(d, s)
      BY <1>4 DEF Advance
    <3>2. Apply(Begin, e) = Begin(e)
      BY DEF Apply
    <3> QED
      BY Zenon, <3>1, <3>2 DEF StepTo
  <2>2. s \in Nat
    BY <1>2, Table, NextStageBounds
  <2> HIDE DEF s, kinds
  <2>3. Entering(e, d, s)
    BY <1>2, <2>2, EnteredEnters
  <2> HIDE DEF e
  <2>4. s = NextStage(d)
    BY DEF s
  <2>5. /\ Base(e) /\ (e.linkReset # 0 <=> Op(e) = "linkReset")
        /\ Kind(e) # "complete" => Steady(e)
        /\ Kind(e) = "complete" => ~e.pending
        /\ Kind(e) # "none" => Stays(d, s) /\ Kind(e) = Stages(d)[s]
    BY <1>4, <2>3, <2>4, EnteringSteady
  <2>6. Kind(e) \in StageOps \cup {"writeNodeId"} => ~e.canUserTransfer
    BY <2>3, <2>5, StaysAt DEF StageOps, CanQueueControlTransfer, Entering
  <2>7. Kind(e) \in PhyKinds => CanBeginPhy(e)
    BY <2>3, <2>5, StaysAt
       DEF PhyKinds, CanBeginPhy, PhyBusy, CanQueueControlTransfer, Entering
  <2>8. Enterable(e)
    BY <1>4, <2>3, <2>5, <2>6, <2>7 DEF Enterable, Entering
  <2> QED
    BY Zenon, <1>1, <2>1, <2>8, BeginGood
<1> QED
  BY <1>3, <1>4

LEMMA UnlessCompleteGood ==
  ASSUME NEW d, Steady(d)
  PROVE  Good(AdvanceUnlessComplete(d))
  BY AdvanceGood DEF AdvanceUnlessComplete, IsReady, Good, Waiting

-----------------------------------------------------------------------------
(* Recovery.                                                                 *)

(* A reset device, and a new one.                                            *)
LEMMA ResetTyped ==
  /\ DOMAIN ResetFields =
     { "initStage", "rxControl", "linkReset", "linkRetries", "resetLink", "interrupt",
       "refreshPending", "retries", "retryPending", "level", "pipe", "pending", "replay",
       "hardPending", "errors", "overdue", "timeouts", "grace" }
  /\ \A field \in DOMAIN ResetFields : ResetFields[field] \in Types[field]
  /\ ResetFields.initStage = 0 /\ ResetFields.linkReset = 0 /\ ResetFields.pending = FALSE
  /\ ResetFields.replay = FALSE /\ ResetFields.pipe = "receive"
<1>1. DOMAIN ResetFields =
      { "initStage", "rxControl", "linkReset", "linkRetries", "resetLink", "interrupt",
        "refreshPending", "retries", "retryPending", "level", "pipe", "pending", "replay",
        "hardPending", "errors", "overdue", "timeouts", "grace" }
  BY DEF ResetFields
<1>2. /\ ResetFields.initStage = 0 /\ ResetFields.linkReset = 0
      /\ ResetFields.pending = FALSE /\ ResetFields.replay = FALSE
      /\ ResetFields.pipe = "receive"
  BY DEF ResetFields
<1>3. /\ ResetFields.rxControl \in Types.rxControl /\ ResetFields.linkRetries \in Types.linkRetries
      /\ ResetFields.resetLink \in Types.resetLink /\ ResetFields.interrupt \in Types.interrupt
      /\ ResetFields.refreshPending \in Types.refreshPending
      /\ ResetFields.retries \in Types.retries
      /\ ResetFields.retryPending \in Types.retryPending
  BY TypesOf DEF ResetFields, States, Links
<1>4. /\ ResetFields.level \in Types.level /\ ResetFields.pipe \in Types.pipe
      /\ ResetFields.hardPending \in Types.hardPending
      /\ ResetFields.overdue \in Types.overdue /\ ResetFields.timeouts \in Types.timeouts
      /\ ResetFields.grace \in Types.grace
  BY TypesOf DEF ResetFields, RecoveryIdle, RecoveryResetDevice, Pipes
<1>5. ResetFields.errors \in Types.errors
  <2>1. ResetFields.errors \in [Pipes -> Nat]
    BY DEF ResetFields
  <2> QED
    BY Zenon, <2>1, TypesOf
<1>6. /\ ResetFields.initStage \in Types.initStage /\ ResetFields.linkReset \in Types.linkReset
      /\ ResetFields.pending \in Types.pending /\ ResetFields.replay \in Types.replay
  BY TypesOf DEF ResetFields
<1>7. \A field \in DOMAIN ResetFields : ResetFields[field] \in Types[field]
  BY Zenon, <1>1, <1>3, <1>4, <1>5, <1>6
<1> QED
  BY <1>1, <1>2, <1>7

LEMMA OtherFieldsTyped ==
  /\ DOMAIN ControlFields =
     { "canUserTransfer", "transferInProgress", "active", "closing", "request", "onUsb",
       "signalled", "waiters", "woken" }
  /\ \A field \in DOMAIN ControlFields : ControlFields[field] \in Types[field]
  /\ ControlFields.closing = FALSE /\ ControlFields.canUserTransfer = FALSE
  /\ ControlFields.request = NoRequest
  /\ DOMAIN DeviceFields =
     { "generation", "timer", "title", "unicast", "alternate", "phyRead", "phyWrite",
       "completedStage", "linkState", "told", "filter", "running", "pipes", "paused",
       "usbReset", "rxLost", "startLost", "addressLost", "mediumStale", "retryLost" }
  /\ \A field \in DOMAIN DeviceFields : DeviceFields[field] \in Types[field]
<1>1. DOMAIN ControlFields =
      { "canUserTransfer", "transferInProgress", "active", "closing", "request", "onUsb",
        "signalled", "waiters", "woken" }
  BY DEF ControlFields
<1>2. /\ ControlFields.canUserTransfer \in Types.canUserTransfer
      /\ ControlFields.transferInProgress \in Types.transferInProgress
      /\ ControlFields.active \in Types.active /\ ControlFields.closing \in Types.closing
      /\ ControlFields.request \in Types.request /\ ControlFields.onUsb \in Types.onUsb
      /\ ControlFields.signalled \in Types.signalled
      /\ ControlFields.waiters \in Types.waiters /\ ControlFields.woken \in Types.woken
  BY TypesOf DEF ControlFields
<1>3. \A field \in DOMAIN ControlFields : ControlFields[field] \in Types[field]
  BY Zenon, <1>1, <1>2
<1>4. DOMAIN DeviceFields =
      { "generation", "timer", "title", "unicast", "alternate", "phyRead", "phyWrite",
        "completedStage", "linkState", "told", "filter", "running", "pipes", "paused",
        "usbReset", "rxLost", "startLost", "addressLost", "mediumStale", "retryLost" }
  BY DEF DeviceFields
<1>5. /\ DeviceFields.generation \in Types.generation /\ DeviceFields.timer \in Types.timer
      /\ DeviceFields.title \in Types.title /\ DeviceFields.unicast \in Types.unicast
      /\ DeviceFields.alternate \in Types.alternate
      /\ DeviceFields.phyRead \in Types.phyRead /\ DeviceFields.phyWrite \in Types.phyWrite
      /\ DeviceFields.completedStage \in Types.completedStage
      /\ DeviceFields.linkState \in Types.linkState /\ DeviceFields.told \in Types.told
      /\ DeviceFields.filter \in Types.filter
  BY TypesOf DEF DeviceFields, FilterSet, Links
<1>6. /\ DeviceFields.running \in Types.running /\ DeviceFields.pipes \in Types.pipes
      /\ DeviceFields.paused \in Types.paused /\ DeviceFields.usbReset \in Types.usbReset
      /\ DeviceFields.rxLost \in Types.rxLost /\ DeviceFields.startLost \in Types.startLost
      /\ DeviceFields.addressLost \in Types.addressLost
      /\ DeviceFields.mediumStale \in Types.mediumStale
      /\ DeviceFields.retryLost \in Types.retryLost
  BY TypesOf DEF DeviceFields
<1>7. \A field \in DOMAIN DeviceFields : DeviceFields[field] \in Types[field]
  BY Zenon, <1>4, <1>5, <1>6
<1>8. /\ ControlFields.closing = FALSE /\ ControlFields.canUserTransfer = FALSE
      /\ ControlFields.request = NoRequest
  BY DEF ControlFields
<1> QED
  BY <1>1, <1>3, <1>4, <1>7, <1>8

LEMMA DeviceTyped ==
  /\ Typed(Device)
  /\ Device.initStage = 0 /\ Device.linkReset = 0
  /\ ~Device.pending /\ ~Device.replay /\ ~Device.closing
  /\ ~Device.phyRead /\ ~Device.phyWrite /\ Device.completedStage = 0
  /\ ~Device.canUserTransfer /\ Device.request = NoRequest
<1> DEFINE D == DOMAIN ControlFields \cup DOMAIN ResetFields \cup DOMAIN DeviceFields
           value(field) == CASE field \in DOMAIN ControlFields -> ControlFields[field]
                             [] field \in DOMAIN ResetFields   -> ResetFields[field]
                             [] OTHER                          -> DeviceFields[field]
<1>1. D = DOMAIN Types
  BY ResetTyped, OtherFieldsTyped, TypesOf
<1>2. \A field \in D : value(field) \in Types[field]
  BY ResetTyped, OtherFieldsTyped
<1>3. Device = [field \in D |-> value(field)]
  BY Zenon DEF Device
<1>4. /\ value("initStage") = 0 /\ value("linkReset") = 0
      /\ value("pending") = FALSE /\ value("replay") = FALSE
  BY ResetTyped, OtherFieldsTyped
<1>5. /\ value("closing") = FALSE /\ value("canUserTransfer") = FALSE
      /\ value("request") = NoRequest
  <2>1. {"closing", "canUserTransfer", "request"} \subseteq DOMAIN ControlFields
    BY Zenon, OtherFieldsTyped
  <2>2. /\ value("closing") = ControlFields["closing"]
        /\ value("canUserTransfer") = ControlFields["canUserTransfer"]
        /\ value("request") = ControlFields["request"]
    BY <2>1, ResetTyped
  <2> QED
    BY Zenon, <2>2, OtherFieldsTyped
<1>6. /\ value("phyRead") = FALSE /\ value("phyWrite") = FALSE /\ value("completedStage") = 0
  BY ResetTyped, OtherFieldsTyped DEF DeviceFields
<1> HIDE DEF D, value
<1>7. {"initStage", "linkReset", "pending", "replay", "closing", "canUserTransfer", "request",
       "phyRead", "phyWrite", "completedStage"} \subseteq D
  BY Zenon, <1>1, TypesOf
<1>8. Typed(Device)
  BY <1>1, <1>2, <1>3 DEF Typed
<1>9. /\ Device.initStage = 0 /\ Device.linkReset = 0
      /\ Device.pending = FALSE /\ Device.replay = FALSE /\ Device.closing = FALSE
      /\ Device.phyRead = FALSE /\ Device.phyWrite = FALSE /\ Device.completedStage = 0
      /\ Device.canUserTransfer = FALSE /\ Device.request = NoRequest
  BY <1>3, <1>4, <1>5, <1>6, <1>7
<1> QED
  BY <1>8, <1>9

LEMMA NewSteady ==
  ASSUME NEW u, Keeps(u, Device, {"generation", "title", "usbReset"})
  PROVE  Steady(u) /\ Good(u)
<1>1. /\ Typed(u) /\ ~u.closing /\ u.initStage = 0
  BY DeviceTyped, KeptPlace DEF Keeps
<1>2. ~u.pending /\ ~u.replay
  BY DeviceTyped, KeptRecovery
<1>3. /\ ~u.phyRead /\ ~u.phyWrite /\ u.completedStage = 0 /\ u.linkReset = 0
      /\ ~u.canUserTransfer /\ u.request = NoRequest
  BY DeviceTyped, KeptChannel
<1>4. u.generation \in {"ax88179", "ax179a"}
  BY <1>1, Fields
<1>5. Op(u) = "none"
  BY <1>3 DEF Op
<1>6. u.initStage <= Complete(u) + 1 /\ u.linkReset <= Len(LinkReset(u)) /\ Kind(u) = "none"
  BY <1>1, <1>3, <1>4, Table, LinkResetTable DEF Kind, KindAt
<1> QED
  BY <1>1, <1>2, <1>3, <1>5, <1>6 DEF Steady, Base, Channel, Placed, Good, Waiting

LEMMA ResetUsbGood ==
  ASSUME NEW d, Typed(d)
  PROVE  Good(ResetUsbDevice(d))
<1> DEFINE u == [Device EXCEPT !.generation = d.generation, !.usbReset = TRUE]
<1>1. {"generation", "usbReset"} \subseteq DOMAIN Types
  BY Zenon, TypesOf
<1>2. d.generation \in Types.generation /\ TRUE \in Types.usbReset
  BY Fields, TypesOf
<1>3. Keeps(u, Device, {"generation", "usbReset"})
  BY Zenon, <1>1, <1>2, DeviceTyped, Put2
<1> HIDE DEF u
<1>4. Keeps(u, Device, {"generation", "title", "usbReset"})
  <2>1. {"generation", "usbReset"} \subseteq {"generation", "title", "usbReset"}
    OBVIOUS
  <2> QED
    BY Zenon, <1>3, <2>1, KeepsLess
<1> QED
  BY <1>4, NewSteady DEF ResetUsbDevice, u

(* A drain begins.                                                           *)
LEMMA ReinitializeGood ==
  ASSUME NEW d, Good(d)
  PROVE  Good(RequestFullReinitialize(d))
<1> DEFINE b == [d EXCEPT !.pending = TRUE, !.overdue = FALSE, !.paused = TRUE, !.running = FALSE]
           u == [b EXCEPT !.hardPending = FALSE]
<1>1. CASE MayReinitialize(d)
  <2>1. Typed(d) /\ ~d.replay /\ Kind(d) = "complete"
    BY <1>1 DEF Good, Steady, Base, MayReinitialize, IsReady
  <2>2. RequestFullReinitialize(d) = u
    BY Zenon, <1>1 DEF RequestFullReinitialize
  <2>3. Keeps(b, d, {"pending", "overdue", "paused", "running"})
    <3>1. {"pending", "overdue", "paused", "running"} \subseteq DOMAIN Types
      BY Zenon, TypesOf
    <3>2. /\ TRUE \in Types.pending /\ FALSE \in Types.overdue /\ TRUE \in Types.paused
          /\ FALSE \in Types.running
      BY TypesOf
    <3> QED
      BY Zenon, <2>1, <3>1, <3>2, Put4
  <2>4. b.paused = TRUE
    BY <2>1, SMT, TypesOf DEF Typed
  <2> HIDE DEF b
  <2>5. Near(u, b)
    <3>1. Typed(b) /\ "hardPending" \in DOMAIN Types \ Related /\ FALSE \in Types.hardPending
      BY <2>3, TypesOf, LooseFields DEF Keeps
    <3> QED
      BY Zenon, <3>1, NearTyped
  <2> HIDE DEF u
  <2>6. SamePlace(b, d) /\ Typed(b)
    BY <2>3, KeptPlace DEF SamePlace, Keeps
  <2>7. b.replay = d.replay
    BY <2>3, KeptRecovery
  <2>8. /\ b.phyRead = d.phyRead /\ b.phyWrite = d.phyWrite
        /\ b.completedStage = d.completedStage /\ b.linkReset = d.linkReset
        /\ b.canUserTransfer = d.canUserTransfer /\ b.request = d.request
    BY <2>3, KeptChannel
  <2>9. Op(b) = Op(d)
    BY <2>8 DEF Op
  <2>10. Kind(b) = "complete" /\ Complete(b) = Complete(d) /\ LinkReset(b) = LinkReset(d)
    BY <2>1, <2>6, PlaceOf
  <2>11. b.initStage >= Complete(b)
    <3>1. b.initStage = Complete(b) /\ b.initStage \in Nat
      BY <2>6, <2>10, KindOf, Fields
    <3> QED
      BY <3>1
  <2>12. Channel(b)
    BY <2>8, <2>9 DEF Channel, Good, Steady, Base
  <2>13. Steady(b)
    BY <2>1, <2>4, <2>6, <2>7, <2>8, <2>9, <2>10, <2>11, <2>12
       DEF Good, Steady, Base, Placed, SamePlace
  <2>14. Good(b)
    BY <2>10, <2>13 DEF Good, Waiting
  <2> QED
    BY <2>2, <2>5, <2>14, NearSteady
<1>2. CASE ~MayReinitialize(d)
  BY <1>2 DEF RequestFullReinitialize
<1> QED
  BY <1>1, <1>2

LEMMA HardRecoveryGood ==
  ASSUME NEW d, Good(d)
  PROVE  Good(RequestHardReceiveRecovery(d))
<1> DEFINE a == [d EXCEPT !.hardPending = TRUE]
           u == [a EXCEPT !.running = FALSE]
           h == RequestHardReceiveRecovery(d)
           full == RequestFullReinitialize(d)
           off == d.pending \/ d.replay \/ d.closing
           may == MayReinitialize(d)
<1>1. h = CASE off -> d [] may -> full [] OTHER -> u
  BY Zenon DEF RequestHardReceiveRecovery
<1>2. Near(a, d)
  <2>1. Typed(d) /\ "hardPending" \in DOMAIN Types \ Related /\ TRUE \in Types.hardPending
    BY TypesOf, LooseFields DEF Good, Steady, Base
  <2> QED
    BY Zenon, <2>1, NearTyped
<1> HIDE DEF a
<1>3. Good(a) /\ Steady(a)
  BY <1>2, NearSteady DEF Good
<1>4. Good(u)
  BY Zenon, <1>3, StoppedSteady
<1>5. Good(full)
  BY ReinitializeGood
<1> HIDE DEF u, h, full, off, may
<1>6. h = d \/ h = full \/ h = u
  BY <1>1
<1>7. Good(h)
  BY Zenon, <1>4, <1>5, <1>6
<1> QED
  BY <1>7 DEF h

LEMMA RetryHardGood ==
  ASSUME NEW d, Good(d)
  PROVE  Good(RetryHardRecovery(d))
<1> DEFINE a == [d EXCEPT !.hardPending = FALSE]
<1>1. Near(a, d)
  <2>1. Typed(d) /\ "hardPending" \in DOMAIN Types \ Related /\ FALSE \in Types.hardPending
    BY TypesOf, LooseFields DEF Good, Steady, Base
  <2> QED
    BY Zenon, <2>1, NearTyped
<1>2. Good(RequestHardReceiveRecovery(a))
  BY Zenon, <1>1, NearSteady, HardRecoveryGood
<1> QED
  BY <1>2 DEF RetryHardRecovery

LEMMA ActOnLevelGood ==
  ASSUME NEW d, Good(d)
  PROVE  Good(ActOnLevel(d))
<1> DEFINE i == [d EXCEPT !.level = RecoveryIdle, !.pipe = ResetFields.pipe]
           restart == IF d.pipe = "receive" THEN RestartReceiving(i) ELSE i
           full == RequestFullReinitialize(i)
           reset == ResetUsbDevice(d)
           busy == d.level = RecoveryIdle \/ d.pending \/ d.replay \/ d.hardPending
           u == ActOnLevel(d)
<1>1. Typed(d)
  BY DEF Good, Steady, Base
<1>2. u = IF busy THEN d
          ELSE CASE d.level = RecoveryResetPipe -> restart
                 [] d.level = RecoveryReinitialize -> full
                 [] OTHER -> reset
  BY Zenon DEF ActOnLevel
<1>3. Near(i, d)
  <2>1. {"level", "pipe"} \subseteq DOMAIN Types \ Related
    BY LooseFields
  <2>2. RecoveryIdle \in Types.level /\ ResetFields.pipe \in Types.pipe
    BY TypesOf DEF RecoveryIdle, RecoveryResetDevice, ResetFields, Pipes
  <2> QED
    BY Zenon, <1>1, <2>1, <2>2, NearTyped2
<1> HIDE DEF i
<1>4. Good(i) /\ i.replay = d.replay
  BY <1>3, NearSteady, NearFields
<1>5. ~busy => ~d.replay
  OBVIOUS
<1>6. ~busy => Good(restart)
  BY <1>4, <1>5, RestartReceivingGood
<1>7. Good(full) /\ Good(reset)
  BY <1>1, <1>4, ReinitializeGood, ResetUsbGood
<1> HIDE DEF u, restart, full, reset, busy
<1>8. \/ u = d
      \/ ~busy /\ u = restart
      \/ u = full
      \/ u = reset
  BY <1>2 DEF RecoveryResetPipe, RecoveryReinitialize
<1>9. Good(u)
  BY Zenon, <1>6, <1>7, <1>8
<1> QED
  BY <1>9 DEF u

(* The drain is over: the state is reset, and init begins anew.              *)
LEMMA ReplayGood ==
  ASSUME NEW d, Good(d), d.pending, ~DrainBlocked(d)
  PROVE  Good(Replay(d))
<1> DEFINE value(field) ==
             CASE field = "replay"      -> TRUE
               [] field = "grace"       -> TRUE
               [] field = "running"     -> FALSE
               [] field \in DOMAIN ResetFields \ {"replay", "grace"} -> ResetFields[field]
               [] OTHER -> d[field]
           r == [field \in DOMAIN d |-> value(field)]
<1>1. /\ Typed(d) /\ Channel(d) /\ d.paused
      /\ d.pipes = {} /\ ~d.canUserTransfer /\ ~d.phyRead /\ ~d.phyWrite
      /\ d.completedStage = 0
  BY DEF Channel, Good, Steady, Base, DrainBlocked, Outstanding, PhyBusy
<1>2. DOMAIN d = DOMAIN Types
  <2>1. d = [field \in DOMAIN Types |-> d[field]]
    BY <1>1 DEF Typed
  <2> QED
    BY <2>1
<1>3. /\ \A field \in DOMAIN ResetFields \ {"replay", "grace", "running"} :
           value(field) = ResetFields[field]
      /\ \A field \in DOMAIN Types \ (DOMAIN ResetFields \cup {"replay", "grace", "running"}) :
           value(field) = d[field]
  OBVIOUS
<1>4. value("replay") = TRUE /\ value("grace") = TRUE /\ value("running") = FALSE
  BY ResetTyped
<1> HIDE DEF value
<1>5. \A field \in DOMAIN Types : value(field) \in Types[field]
  <2>1. /\ value("replay") \in Types["replay"] /\ value("grace") \in Types["grace"]
        /\ value("running") \in Types["running"]
    BY <1>4, TypesOf
  <2>2. \A field \in DOMAIN Types : d[field] \in Types[field]
    BY <1>1 DEF Typed
  <2> QED
    BY <1>3, <2>1, <2>2, ResetTyped
<1>6. Typed(r)
  BY <1>2, <1>5 DEF Typed
<1>7. /\ r.replay = TRUE /\ r.running = FALSE /\ r.initStage = 0 /\ r.linkReset = 0
      /\ r.pending = FALSE
  <2>1. {"replay", "running", "initStage", "linkReset", "pending"} \subseteq DOMAIN Types
    BY Zenon, TypesOf
  <2>2. {"initStage", "linkReset", "pending"} \subseteq
          DOMAIN ResetFields \ {"replay", "grace", "running"}
    BY ResetTyped
  <2>3. /\ value("initStage") = ResetFields["initStage"]
        /\ value("linkReset") = ResetFields["linkReset"]
        /\ value("pending") = ResetFields["pending"]
    BY <1>3, <2>2
  <2>4. /\ r.replay = value("replay") /\ r.running = value("running")
        /\ r.initStage = value("initStage") /\ r.linkReset = value("linkReset")
        /\ r.pending = value("pending")
    BY <1>2, <2>1
  <2> QED
    BY Zenon, <1>4, <2>3, <2>4, ResetTyped
<1>8. /\ r.paused = d.paused /\ r.pipes = d.pipes
      /\ r.generation = d.generation /\ r.phyRead = d.phyRead /\ r.phyWrite = d.phyWrite
      /\ r.completedStage = d.completedStage
      /\ r.canUserTransfer = d.canUserTransfer /\ r.request = d.request
  <2>1. {"paused", "pipes", "generation", "phyRead", "phyWrite", "completedStage",
        "canUserTransfer", "request"} \subseteq
          DOMAIN Types \ (DOMAIN ResetFields \cup {"replay", "grace", "running"})
    BY ResetTyped, TypesOf
  <2> QED
    BY <1>2, <1>3, <2>1
<1>9. Replay(d) = AdvanceInitStage(r)
  BY Zenon DEF Replay, value
<1> HIDE DEF r
<1>10. Op(r) = "none" /\ Channel(r)
  BY <1>1, <1>8 DEF Op, Channel
<1>11. /\ r.initStage <= Complete(r) + 1 /\ r.initStage < Complete(r)
       /\ r.linkReset <= Len(LinkReset(r))
  <2>1. r.generation \in {"ax88179", "ax179a"}
    BY <1>6, Fields
  <2>2. Complete(r) \in Nat /\ 0 < Complete(r)
    BY <2>1, Table
  <2>3. Len(LinkReset(r)) \in Nat
    BY <2>1, LinkResetTable
  <2> QED
    BY <1>7, <2>2, <2>3
<1>12. Steady(r)
  BY <1>1, <1>6, <1>7, <1>8, <1>10, <1>11 DEF Steady, Base, Placed
<1> QED
  BY Zenon, <1>9, <1>12, AdvanceGood

LEMMA ContinueGood ==
  ASSUME NEW d, Good(d)
  PROVE  Good(ContinueReinitialize(d))
<1> DEFINE go == d.pending /\ ~DrainBlocked(d)
           replay == Replay(d)
           late == IF d.overdue THEN ResetUsbDevice(d) ELSE d
           u == ContinueReinitialize(d)
<1>1. u = CASE ~d.pending -> d [] go -> replay [] OTHER -> late
  BY Zenon DEF ContinueReinitialize
<1>2. go => Good(replay)
  BY ReplayGood
<1>3. Good(late)
  BY ResetUsbGood DEF Good, Steady, Base
<1>4. go => d.pending
  OBVIOUS
<1> HIDE DEF u, go, replay, late
<1>5. u = d \/ (go /\ u = replay) \/ u = late
  BY <1>1, <1>4
<1>6. Good(u)
  BY Zenon, <1>2, <1>3, <1>5
<1> QED
  BY <1>6 DEF u

LEMMA ProcessRecoveryGood ==
  ASSUME NEW d, Good(d)
  PROVE  Good(ProcessRecovery(d))
<1> DEFINE a == ActOnLevel(d)
           b == RetryHardRecovery(a)
           c == ContinueReinitialize(b)
<1>1. Apply(ActOnLevel, d) = a /\ Apply(RetryHardRecovery, a) = b
      /\ Apply(ContinueReinitialize, b) = c
  BY DEF Apply
<1>2. Good(a)
  BY ActOnLevelGood
<1>3. Good(b)
  BY Zenon, <1>2, RetryHardGood
<1>4. Good(c)
  BY Zenon, <1>3, ContinueGood
<1> QED
  BY Zenon, <1>1, <1>4 DEF ProcessRecovery

-----------------------------------------------------------------------------
(* Transport errors.                                                         *)

LEMMA LevelTyped ==
  ASSUME NEW errors \in Nat
  PROVE  Level(errors) \in 0 .. 3
  BY DEF Level, RecoveryResetDevice, RecoveryReinitialize, RecoveryResetPipe

LEMMA ErrorNear ==
  ASSUME NEW d, Typed(d), NEW pipe \in Pipes, NEW count \in Nat, NEW late \in BOOLEAN
  PROVE  Near(HandleTransportCompletion(d, pipe, count, late), d)
<1> DEFINE errors == [d.errors EXCEPT ![pipe] = (IF late THEN 0 ELSE d.errors[pipe]) + count]
           e == [d EXCEPT !.errors = errors]
           level == Level(e.errors[pipe])
           r == [e EXCEPT !.level = level, !.pipe = pipe, !.overdue = FALSE]
<1>1. HandleTransportCompletion(d, pipe, count, late) = IF level > d.level THEN r ELSE e
  BY DEF HandleTransportCompletion
<1>2. errors \in [Pipes -> Nat]
  <2>1. "errors" \in DOMAIN Types
    BY TypesOf
  <2>2. d["errors"] \in Types["errors"]
    BY Zenon, <2>1, FieldTyped
  <2>3. d.errors \in [Pipes -> Nat]
    BY Zenon, <2>2, TypesOf
  <2> QED
    BY <2>3
<1> HIDE DEF errors
<1>3. Near(e, d) /\ e.errors = errors
  <2>1. "errors" \in DOMAIN Types \ Related /\ errors \in Types.errors
    BY Zenon, <1>2, LooseFields, TypesOf
  <2>2. Near(e, d)
    BY Zenon, <2>1, NearTyped
  <2>3. e.errors = errors
    BY SMT, TypesOf DEF Typed
  <2> QED
    BY <2>2, <2>3
<1> HIDE DEF e
<1>4. level \in 0 .. 3
  <2>1. e.errors[pipe] \in Nat
    BY <1>2, <1>3
  <2> QED
    BY Zenon, <2>1, LevelTyped
<1> HIDE DEF level
<1>5. Near(r, e)
  <2>1. {"level", "pipe", "overdue"} \subseteq DOMAIN Types \ Related
    BY LooseFields
  <2>2. level \in Types.level /\ pipe \in Types.pipe /\ FALSE \in Types.overdue
    BY <1>4, TypesOf DEF RecoveryIdle, RecoveryResetDevice
  <2>3. Typed(e)
    BY <1>3 DEF Near, Keeps
  <2> QED
    BY Zenon, <2>1, <2>2, <2>3, NearTyped3
<1> HIDE DEF r
<1>6. Near(r, d)
  BY <1>3, <1>5, NearOn
<1> QED
  BY <1>1, <1>3, <1>6

LEMMA TransmitTimeoutGood ==
  ASSUME NEW d, Good(d)
  PROVE  Good(TransmitTimeout(d)) /\ TransmitTimeout(d).timer = d.timer
<1> DEFINE n == d.timeouts + 1
           level == Level(n)
           pipe == "transmit"
           a == [d EXCEPT !.timeouts = n]
           u == [a EXCEPT !.level = level, !.pipe = pipe, !.overdue = FALSE]
<1>1. Typed(d)
  BY DEF Good, Steady, Base
<1>2. TransmitTimeout(d) = u \/ TransmitTimeout(d) = d
  BY Zenon DEF TransmitTimeout
<1>3. n \in Nat
  <2>1. "timeouts" \in DOMAIN Types
    BY TypesOf
  <2>2. d["timeouts"] \in Types["timeouts"]
    BY Zenon, <1>1, <2>1, FieldTyped
  <2> QED
    BY <2>2, TypesOf
<1>4. level \in 0 .. 3 /\ pipe \in Pipes
  BY <1>3, LevelTyped DEF Pipes
<1> HIDE DEF n, level, pipe
<1>5. Near(a, d)
  <2>1. "timeouts" \in DOMAIN Types \ Related /\ n \in Types.timeouts
    BY <1>3, LooseFields, TypesOf
  <2> QED
    BY Zenon, <1>1, <2>1, NearTyped
<1> HIDE DEF a
<1>6. Near(u, a)
  <2>1. {"level", "pipe", "overdue"} \subseteq DOMAIN Types \ Related
    BY LooseFields
  <2>2. level \in Types.level /\ pipe \in Types.pipe /\ FALSE \in Types.overdue
    BY <1>4, TypesOf DEF RecoveryIdle, RecoveryResetDevice
  <2>3. Typed(a)
    BY <1>5 DEF Near, Keeps
  <2> QED
    BY Zenon, <2>1, <2>2, <2>3, NearTyped3
<1> HIDE DEF u
<1>7. Near(u, d)
  BY <1>5, <1>6, NearOn
<1> QED
  BY <1>2, <1>7, NearSteady, NearFields

-----------------------------------------------------------------------------
(* A request is over.                                                        *)

Released(c, d) ==
  /\ Steady(c) /\ SamePlace(c, d) /\ SameRecovery(c, d)
  /\ c.canUserTransfer = FALSE /\ c.request = NoRequest

LEMMA CompleteBase ==
  ASSUME NEW d, Steady(d), NEW e, Typed(e), SamePlace(e, d),
         SameRecovery(e, d), e.linkReset = d.linkReset, ~e.phyRead, ~e.phyWrite,
         e.completedStage = 0
  PROVE  LET c == CompleteControlTransfer(e)
         IN  /\ Base(c) /\ Placed(c) /\ SamePlace(c, d) /\ SameRecovery(c, d) /\ Op(c) = "none"
             /\ c.linkReset = d.linkReset /\ c.canUserTransfer = FALSE /\ c.request = NoRequest
<1> DEFINE c == CompleteControlTransfer(e)
<1>1. Freed(c, e)
  BY CompleteFields
<1> HIDE DEF c
<1>2. /\ Typed(c) /\ SamePlace(c, e) /\ SameRecovery(c, e)
      /\ c.phyRead = e.phyRead /\ c.phyWrite = e.phyWrite
      /\ c.completedStage = e.completedStage /\ c.linkReset = e.linkReset
      /\ c.canUserTransfer = FALSE /\ c.request = NoRequest
  BY <1>1, QueuedSame DEF Freed
<1>3. SamePlace(c, d) /\ SameRecovery(c, d)
  BY <1>2 DEF SamePlace, SameRecovery
<1>4. Op(c) = "none" /\ Channel(c)
  BY <1>2 DEF Op, Channel
<1>5. /\ Complete(c) = Complete(d) /\ LinkReset(c) = LinkReset(d)
      /\ StageOf(c, "start") = StageOf(d, "start")
  BY <1>3, PlaceOf
<1>6. Base(c)
  BY <1>2, <1>3, <1>4, <1>5 DEF Steady, Base, SamePlace, SameRecovery
<1>7. Placed(c)
  BY <1>3, <1>5 DEF Steady, Placed, SamePlace, SameRecovery
<1> QED
  BY <1>2, <1>3, <1>4, <1>6, <1>7 DEF c

LEMMA CompleteReleased ==
  ASSUME NEW d, Steady(d), Op(d) # "linkReset", NEW e, Typed(e), SamePlace(e, d),
         SameRecovery(e, d), e.linkReset = d.linkReset, ~e.phyRead, ~e.phyWrite,
         e.completedStage = 0
  PROVE  Released(CompleteControlTransfer(e), d)
<1> DEFINE c == CompleteControlTransfer(e)
<1>1. /\ Base(c) /\ Placed(c) /\ SamePlace(c, d) /\ SameRecovery(c, d) /\ Op(c) = "none"
      /\ c.linkReset = d.linkReset /\ c.canUserTransfer = FALSE /\ c.request = NoRequest
  BY CompleteBase
<1> HIDE DEF c
<1>2. Steady(c)
  BY <1>1 DEF Steady
<1> QED
  BY <1>1, <1>2 DEF Released, c

(* A request that is neither of the PHY nor of a link reset.                 *)
LEMMA CompleteOther ==
  ASSUME NEW d, Steady(d), Op(d) \notin {"linkReset", "readPhy", "writePhy"}, NEW e, Near(e, d)
  PROVE  Released(CompleteControlTransfer(e), d)
<1>1. Typed(e) /\ SamePlace(e, d) /\ SameRecovery(e, d) /\ e.linkReset = d.linkReset
  BY NearSteady, NearFields
<1>2. ~e.phyRead /\ ~e.phyWrite /\ e.completedStage = 0
  BY NearFields DEF Steady, Base, Channel
<1> QED
  BY <1>1, <1>2, CompleteReleased

(* A PHY access is over.                                                     *)
LEMMA CompletePhyRead ==
  ASSUME NEW d, Steady(d), Op(d) = "readPhy"
  PROVE  Released(CompleteControlTransfer([d EXCEPT !.phyRead = FALSE]), d)
<1> DEFINE e == [d EXCEPT !.phyRead = FALSE]
<1>1. Typed(d) /\ ~d.phyWrite /\ d.completedStage = 0
  BY DEF Steady, Base, Channel
<1>2. Keeps(e, d, {"phyRead"})
  <2>1. "phyRead" \in DOMAIN Types /\ FALSE \in Types.phyRead
    BY TypesOf
  <2> QED
    BY Zenon, <1>1, <2>1, Put
<1>3. e.phyRead = FALSE
  BY <1>1, SMT, TypesOf DEF Typed
<1> HIDE DEF e
<1>4. Typed(e) /\ SamePlace(e, d) /\ SameRecovery(e, d) /\ e.linkReset = d.linkReset
  BY <1>2, KeptPlace, KeptRecovery, KeptChannel DEF SamePlace, SameRecovery, Keeps
<1>5. ~e.phyRead /\ ~e.phyWrite /\ e.completedStage = 0
  BY <1>1, <1>2, <1>3, KeptChannel
<1>6. Released(CompleteControlTransfer(e), d)
  BY <1>4, <1>5, CompleteReleased
<1> QED
  BY <1>6 DEF e

LEMMA CompletePhyWrite ==
  ASSUME NEW d, Steady(d), Op(d) = "writePhy"
  PROVE  Released(CompleteControlTransfer(
                    [d EXCEPT !.phyWrite = FALSE, !.completedStage = 0]), d)
<1> DEFINE e == [d EXCEPT !.phyWrite = FALSE, !.completedStage = 0]
<1>1. Typed(d) /\ ~d.phyRead
  BY DEF Steady, Base, Channel
<1>2. Keeps(e, d, {"phyWrite", "completedStage"})
  <2>1. {"phyWrite", "completedStage"} \subseteq DOMAIN Types
    BY Zenon, TypesOf
  <2>2. FALSE \in Types.phyWrite /\ 0 \in Types.completedStage
    BY TypesOf
  <2> QED
    BY Zenon, <1>1, <2>1, <2>2, Put2
<1>3. e.phyWrite = FALSE /\ e.completedStage = 0
  BY <1>1, SMT, TypesOf DEF Typed
<1> HIDE DEF e
<1>4. Typed(e) /\ SamePlace(e, d) /\ SameRecovery(e, d) /\ e.linkReset = d.linkReset
  BY <1>2, KeptPlace, KeptRecovery, KeptChannel DEF SamePlace, SameRecovery, Keeps
<1>5. ~e.phyRead /\ ~e.phyWrite
  BY <1>1, <1>2, <1>3, KeptChannel
<1>6. Released(CompleteControlTransfer(e), d)
  BY <1>3, <1>4, <1>5, CompleteReleased
<1> QED
  BY <1>6 DEF e

(* Init goes on waiting if it was not led on.                                *)
LEMMA ReleasedGood ==
  ASSUME NEW d, NEW c, Released(c, d), Good(d), ~Leads(d)
  PROVE  Good(c)
  BY WaitingGood DEF Good, Released

-----------------------------------------------------------------------------
(* The address.                                                              *)

LEMMA WriteNodeIdGood ==
  ASSUME NEW d, Good(d)
  PROVE  Good(WriteNodeId(d))
<1> DEFINE l == [d EXCEPT !.addressLost = TRUE]
           none == NodeAddress(d) = NoAddress
           can == NodeAddress(d) # NoAddress /\ CanQueueControlTransfer(d)
           on == AdvanceUnlessComplete(d)
           node == QueueControlTransfer([d EXCEPT !.addressLost = FALSE],
                                        Request("writeNodeId", NodeAddress(d)))
           other == IF d.generation = "ax88179" \/ Kind(d) = "writeNodeId"
                    THEN AdvanceUnlessComplete(l) ELSE l
           u == WriteNodeId(d)
<1>1. u = CASE none -> on [] can -> node [] OTHER -> other
  BY Zenon DEF WriteNodeId
<1>2. Good(on)
  BY UnlessCompleteGood DEF Good
<1>3. can => Good(node)
  <2>1. ASSUME can PROVE Good(node)
    <3>1. ~d.canUserTransfer
      BY <2>1 DEF CanQueueControlTransfer
    <3>2. Steady(d) /\ (d.closing \/ Waiting(d))
      BY <3>1, FreeWaits
    <3>3. Steady(node) /\ SamePlace(node, d)
      BY <3>1, <3>2, WriteNodeIdQueued
    <3> QED
      BY Zenon, <3>2, <3>3, WaitingGood
  <2> QED
    BY <2>1
<1>4. Near(l, d)
  <2>1. Typed(d) /\ "addressLost" \in DOMAIN Types \ Related /\ TRUE \in Types.addressLost
    BY TypesOf, LooseFields DEF Good, Steady, Base
  <2> QED
    BY Zenon, <2>1, NearTyped
<1>5. Good(other)
  <2> HIDE DEF l
  <2>1. Good(l) /\ Steady(l)
    BY <1>4, NearSteady DEF Good
  <2> QED
    BY <2>1, UnlessCompleteGood
<1> HIDE DEF l, none, can, on, node, other, u
<1>6. u = on \/ (can /\ u = node) \/ u = other
  BY <1>1
<1>7. Good(u)
  BY Zenon, <1>2, <1>3, <1>5, <1>6
<1> QED
  BY <1>7 DEF u

LEMMA AddressChangedGood ==
  ASSUME NEW d, Good(d)
  PROVE  Good(OnUnicastAddressChanged(d))
<1> DEFINE at == Kind(d) = "address"
           later == d.initStage \in StageOf(d, "writeNodeId") .. Complete(d)
           on == AdvanceInitStage(d)
           write == WriteNodeId(d)
           u == OnUnicastAddressChanged(d)
<1>1. u = CASE at -> on [] later -> write [] OTHER -> d
  BY Zenon DEF OnUnicastAddressChanged
<1>2. Good(on) /\ Good(write)
  BY AdvanceGood, WriteNodeIdGood DEF Good
<1> HIDE DEF at, later, on, write, u
<1>3. u = on \/ u = write \/ u = d
  BY <1>1
<1>4. Good(u)
  BY Zenon, <1>2, <1>3
<1> QED
  BY <1>4 DEF u

-----------------------------------------------------------------------------
(* The link.                                                                 *)

(* A link reset is under way, its channel free: the next request of it.      *)
LEMMA QueueLinkResetSteady ==
  ASSUME NEW d, Base(d), Placed(d), ~d.canUserTransfer, d.linkReset # 0
  PROVE  Steady(QueueLinkReset(d)) /\ SamePlace(QueueLinkReset(d), d)
<1> DEFINE kind == LinkReset(d)[d.linkReset]
           value == CASE kind = "start"  -> d.rxControl
                      [] kind = "medium" -> d.resetLink
                      [] OTHER           -> kind
           request == Request("linkReset", value)
           u == QueueControlTransfer(d, request)
<1>1. Typed(d) /\ d.generation \in {"ax88179", "ax179a"} /\ d.linkReset \in Nat
  BY Fields DEF Base
<1>2. kind \in {"stop", "start", "fifo", "mac", "medium"}
  <2>1. Len(LinkReset(d)) \in {5, 6} /\ d.linkReset <= Len(LinkReset(d))
    BY <1>1, LinkResetTable DEF Base
  <2>2. d.linkReset \in 1 .. Len(LinkReset(d))
    BY <1>1, <2>1
  <2> QED
    BY <1>1, <2>2, LinkResetTable
<1>3. d.rxControl \in FilterSet \cup {"stop"} /\ d.resetLink \in States
  <2>1. "rxControl" \in DOMAIN Types /\ "resetLink" \in DOMAIN Types
    BY TypesOf
  <2>2. d["rxControl"] \in Types["rxControl"] /\ d["resetLink"] \in Types["resetLink"]
    BY Zenon, <1>1, <2>1, FieldTyped
  <2> QED
    BY Zenon, <2>2, TypesOf
<1>4. QueueLinkReset(d) = u
  BY Zenon DEF QueueLinkReset
<1> HIDE DEF kind
<1>5. value \in FilterSet \cup States \cup {"stop", "fifo", "mac"}
  BY <1>2, <1>3
<1> HIDE DEF value
<1>6. request \in Requests
  BY <1>5, RequestsTyped
<1>7. Queued(u, d, request)
  BY Zenon, <1>1, <1>6, QueueFields
<1> HIDE DEF u
<1>8. /\ Typed(u) /\ SamePlace(u, d) /\ SameRecovery(u, d)
      /\ u.phyRead = d.phyRead /\ u.phyWrite = d.phyWrite
      /\ u.completedStage = d.completedStage /\ u.linkReset = d.linkReset
  BY <1>7, QueuedSame
<1>9. Op(u) = "linkReset" /\ Op(d) = "none" /\ u.request # NoRequest /\ u.canUserTransfer
  BY <1>6, <1>7 DEF Queued, Op, Request
<1>10. /\ Complete(u) = Complete(d) /\ LinkReset(u) = LinkReset(d)
       /\ StageOf(u, "start") = StageOf(d, "start")
  BY <1>8, PlaceOf
<1>11. Channel(u)
  <2>1. ~u.phyRead /\ ~u.phyWrite /\ u.completedStage = 0
    BY <1>8, <1>9 DEF Base, Channel
  <2> QED
    BY <1>9, <2>1 DEF Channel
<1>12. Base(u)
  BY <1>8, <1>9, <1>10, <1>11 DEF Base, SamePlace, SameRecovery
<1>13. Steady(u)
  BY <1>8, <1>9, <1>10, <1>12 DEF Steady, Placed, SamePlace, SameRecovery
<1> QED
  BY <1>4, <1>8, <1>13

(* Another stage of a link reset; 0 is none.                                 *)
AtLinkReset(u, d, stage) ==
  /\ Base(u) /\ Placed(u) /\ SamePlace(u, d) /\ SameRecovery(u, d) /\ Op(u) = Op(d)
  /\ u.linkReset = stage /\ u.canUserTransfer = d.canUserTransfer

LEMMA LinkResetMoved ==
  ASSUME NEW d, Base(d), Placed(d), NEW stage \in Nat, stage <= Len(LinkReset(d)), NEW F,
         F \subseteq {"linkReset"} \cup (DOMAIN Types \ Related),
         NEW u, Keeps(u, d, F), u.linkReset = stage
  PROVE  AtLinkReset(u, d, stage)
<1>1. Typed(u) /\ SamePlace(u, d)
  <2>1. /\ "closing" \notin F /\ "generation" \notin F /\ "initStage" \notin F
        /\ "timer" \notin F /\ "retryPending" \notin F /\ "retryLost" \notin F
        /\ "startLost" \notin F
    BY DEF Related
  <2> QED
    BY <2>1, KeptPlace DEF SamePlace, Keeps
<1>2. SameRecovery(u, d)
  <2>1. /\ "pending" \notin F /\ "replay" \notin F /\ "paused" \notin F /\ "pipes" \notin F
        /\ "running" \notin F
    BY DEF Related
  <2> QED
    BY <2>1, KeptRecovery DEF SameRecovery
<1>3. /\ u.phyRead = d.phyRead /\ u.phyWrite = d.phyWrite /\ u.completedStage = d.completedStage
      /\ u.canUserTransfer = d.canUserTransfer /\ u.request = d.request
  <2>1. /\ "phyRead" \notin F /\ "phyWrite" \notin F /\ "completedStage" \notin F
        /\ "canUserTransfer" \notin F /\ "request" \notin F
    BY DEF Related
  <2> QED
    BY <2>1, KeptChannel
<1>4. Op(u) = Op(d)
  BY <1>3 DEF Op
<1>5. /\ Complete(u) = Complete(d) /\ LinkReset(u) = LinkReset(d)
      /\ StageOf(u, "start") = StageOf(d, "start")
  BY <1>1, PlaceOf
<1>6. Channel(u)
  BY <1>3, <1>4 DEF Channel, Base
<1>7. Base(u)
  BY <1>1, <1>2, <1>4, <1>5, <1>6 DEF Base, SamePlace, SameRecovery
<1>8. Placed(u)
  BY <1>1, <1>2, <1>5 DEF Placed, SamePlace, SameRecovery
<1> QED
  BY <1>1, <1>2, <1>3, <1>4, <1>7, <1>8 DEF AtLinkReset

LEMMA StartLinkResetGood ==
  ASSUME NEW d, Good(d)
  PROVE  Good(StartLinkReset(d))
<1> DEFINE n == [d EXCEPT !.linkReset = 1, !.resetLink = d.linkState]
           q == QueueLinkReset(n)
           t == [d EXCEPT !.told = d.linkState]
           on == d.linkReset # 0
           can == d.linkReset = 0 /\ CanQueueControlTransfer(d)
           u == StartLinkReset(d)
<1>1. u = CASE on -> d [] can -> q [] OTHER -> t
  BY Zenon DEF StartLinkReset
<1>2. Typed(d) /\ Base(d) /\ Placed(d)
  BY DEF Good, Steady, Base
<1>3. d.linkState \in Types.told /\ d.linkState \in Types.resetLink
  <2>1. "linkState" \in DOMAIN Types
    BY TypesOf
  <2>2. d["linkState"] \in Types["linkState"]
    BY Zenon, <1>2, <2>1, FieldTyped
  <2> QED
    BY <2>2, TypesOf DEF States
<1>4. Good(t)
  <2>1. "told" \in DOMAIN Types \ Related
    BY LooseFields
  <2>2. Near(t, d)
    BY Zenon, <1>2, <1>3, <2>1, NearTyped
  <2> QED
    BY Zenon, <2>2, NearSteady
<1>5. ASSUME can PROVE Good(q)
  <2>1. ~d.canUserTransfer
    BY <1>5 DEF CanQueueControlTransfer
  <2>2. d.closing \/ Waiting(d)
    BY <2>1, FreeWaits
  <2>3. Keeps(n, d, {"linkReset", "resetLink"}) /\ n.linkReset = 1
    <3>1. {"linkReset", "resetLink"} \subseteq DOMAIN Types
      BY Zenon, TypesOf
    <3>2. 1 \in Types.linkReset
      BY TypesOf
    <3>3. Keeps(n, d, {"linkReset", "resetLink"})
      BY Zenon, <1>2, <1>3, <3>1, <3>2, Put2
    <3>4. n.linkReset = 1
      BY <1>2, SMT, TypesOf DEF Typed
    <3> QED
      BY <3>3, <3>4
  <2> HIDE DEF n
  <2>4. {"linkReset", "resetLink"} \subseteq {"linkReset"} \cup (DOMAIN Types \ Related)
    BY LooseFields
  <2>5. 1 \in Nat /\ 1 <= Len(LinkReset(d))
    <3>1. Len(LinkReset(d)) \in {5, 6}
      BY <1>2, LinkResetLength
    <3> QED
      BY <3>1
  <2>6. AtLinkReset(n, d, 1)
    BY <1>2, <2>3, <2>4, <2>5, LinkResetMoved
  <2>7. Steady(q) /\ SamePlace(q, n)
    BY <2>1, <2>6, QueueLinkResetSteady DEF AtLinkReset
  <2>8. SamePlace(q, d)
    BY <2>6, <2>7 DEF SamePlace, AtLinkReset
  <2> QED
    BY Zenon, <2>2, <2>7, <2>8, WaitingGood
<1> HIDE DEF n, q, t, on, can, u
<1>6. u = d \/ (can /\ u = q) \/ u = t
  BY <1>1
<1>7. Good(u)
  BY Zenon, <1>4, <1>5, <1>6
<1> QED
  BY <1>7 DEF u

(* The next stage of a link reset, or the end of it.                         *)
LEMMA NextLinkResetGood ==
  ASSUME NEW d, Base(d), Placed(d), ~d.canUserTransfer, d.closing \/ Waiting(d)
  PROVE  Good(NextLinkReset(d))
<1> DEFINE u == [d EXCEPT !.linkReset = 0, !.linkRetries = 0, !.told = d.linkState]
<1>1. CASE d.linkReset # 0 /\ CanQueueControlTransfer(d)
  <2>1. Steady(QueueLinkReset(d)) /\ SamePlace(QueueLinkReset(d), d)
    BY <1>1, QueueLinkResetSteady
  <2> QED
    BY <1>1, <2>1, WaitingGood DEF NextLinkReset
<1>2. CASE ~(d.linkReset # 0 /\ CanQueueControlTransfer(d))
  <2>1. NextLinkReset(d) = u
    BY Zenon, <1>2 DEF NextLinkReset
  <2>2. Typed(d)
    BY DEF Base
  <2>3. {"linkReset", "linkRetries", "told"} \subseteq DOMAIN Types
    BY Zenon, TypesOf
  <2>4. 0 \in Types.linkReset /\ 0 \in Types.linkRetries /\ d.linkState \in Types.told
    <3>1. "linkState" \in DOMAIN Types
      BY TypesOf
    <3>2. d["linkState"] \in Types["linkState"]
      BY Zenon, <2>2, <3>1, FieldTyped
    <3> QED
      BY <3>2, TypesOf
  <2>5. Keeps(u, d, {"linkReset", "linkRetries", "told"})
    BY Zenon, <2>2, <2>3, <2>4, Put3
  <2>6. u.linkReset = 0
    BY <2>2, SMT, TypesOf DEF Typed
  <2> HIDE DEF u
  <2>7. {"linkReset", "linkRetries", "told"} \subseteq {"linkReset"} \cup (DOMAIN Types \ Related)
    BY LooseFields
  <2>8. 0 \in Nat /\ 0 <= Len(LinkReset(d))
    <3>1. Len(LinkReset(d)) \in {5, 6}
      BY <2>2, LinkResetLength
    <3> QED
      BY <3>1
  <2>9. AtLinkReset(u, d, 0)
    BY <2>5, <2>6, <2>7, <2>8, LinkResetMoved
  <2>10. Op(u) = "none"
    BY <2>9 DEF AtLinkReset, Op
  <2>11. Steady(u) /\ SamePlace(u, d)
    BY <2>9, <2>10 DEF AtLinkReset, Steady
  <2> QED
    BY <2>1, <2>11, WaitingGood
<1> QED
  BY <1>1, <1>2

LEMMA CompleteLinkResetGood ==
  ASSUME NEW d, Good(d), Op(d) = "linkReset", NEW ok \in BOOLEAN, NEW busy \in BOOLEAN
  PROVE  Good(CompleteLinkResetTransfer(d, ok, busy))
<1> DEFINE kind == LinkReset(d)[d.linkReset]
           again == kind = "fifo" /\ busy /\ d.linkRetries < MaximumLinkResetRetries
           lost == IF kind = "start" THEN ~ok \/ d.request.value # d.rxControl ELSE d.rxLost
           stale == IF kind = "medium" THEN ~ok ELSE d.mediumStale
           w == [d EXCEPT !.rxLost = lost, !.mediumStale = stale]
           c == CompleteControlTransfer(w)
           retries == c.linkRetries + 1
           next == (c.linkReset + 1) % (Len(LinkReset(d)) + 1)
           r == [c EXCEPT !.linkReset = 1, !.linkRetries = retries]
           o == [c EXCEPT !.linkReset = next]
           n == IF again THEN r ELSE o
<1>1. CompleteLinkResetTransfer(d, ok, busy) = NextLinkReset(n)
  <2>1. Apply(NextLinkReset, n) = NextLinkReset(n)
    BY DEF Apply
  <2>2. CompleteLinkResetTransfer(d, ok, busy) = Apply(NextLinkReset, n)
    BY Zenon DEF CompleteLinkResetTransfer
  <2> QED
    BY Zenon, <2>1, <2>2
<1>2. Typed(d) /\ Steady(d) /\ ~Leads(d)
  BY DEF Good, Steady, Base, Leads, StageOps
<1>3. lost \in BOOLEAN /\ stale \in BOOLEAN
  <2>1. {"rxLost", "mediumStale"} \subseteq DOMAIN Types
    BY Zenon, TypesOf
  <2>2. d["rxLost"] \in Types["rxLost"] /\ d["mediumStale"] \in Types["mediumStale"]
    BY Zenon, <1>2, <2>1, FieldTyped
  <2>3. d.rxLost \in BOOLEAN /\ d.mediumStale \in BOOLEAN
    BY <2>2, TypesOf
  <2> QED
    BY <2>3
<1> HIDE DEF lost, stale
<1>4. Near(w, d)
  <2>1. {"rxLost", "mediumStale"} \subseteq DOMAIN Types \ Related
    BY LooseFields
  <2>2. lost \in Types.rxLost /\ stale \in Types.mediumStale
    BY <1>3, TypesOf
  <2> QED
    BY Zenon, <1>2, <2>1, <2>2, NearTyped2
<1>5. w.linkRetries = d.linkRetries
  BY <1>2, SMT, TypesOf DEF Typed
<1> HIDE DEF w
<1>6. /\ Typed(w) /\ SamePlace(w, d) /\ SameRecovery(w, d) /\ w.linkReset = d.linkReset
      /\ ~w.phyRead /\ ~w.phyWrite /\ w.completedStage = 0
  BY <1>2, <1>4, NearSteady, NearFields DEF Steady, Base, Channel
<1>7. /\ Base(c) /\ Placed(c) /\ SamePlace(c, d) /\ c.canUserTransfer = FALSE
      /\ c.linkReset = d.linkReset
  BY <1>2, <1>6, CompleteBase
<1>8. c.linkRetries = d.linkRetries
  <2>1. Freed(c, w)
    BY <1>6, CompleteFields
  <2>2. "linkRetries" \in DOMAIN Types \ ChannelFields
    BY TypesOf DEF ChannelFields
  <2> QED
    BY <1>5, <2>1, <2>2 DEF Freed, Keeps
<1> HIDE DEF c
<1>9. Typed(c) /\ LinkReset(c) = LinkReset(d) /\ Len(LinkReset(d)) \in {5, 6}
  BY <1>2, <1>7, PlaceOf, LinkResetLength DEF Base
<1>10. d.linkReset \in Nat /\ d.linkReset <= Len(LinkReset(d))
  BY <1>2, Fields DEF Steady, Base
<1>11. next \in Nat /\ next <= Len(LinkReset(d))
  <2>1. c.linkReset + 1 \in Nat
    BY <1>7, <1>10
  <2> DEFINE x == c.linkReset + 1
  <2> HIDE DEF x
  <2>2. x % 6 \in 0 .. 5 /\ x % 7 \in 0 .. 6
    BY <2>1 DEF x
  <2>3. next = x % (Len(LinkReset(d)) + 1)
    BY DEF x
  <2>4. CASE Len(LinkReset(d)) = 5
    BY <2>2, <2>3, <2>4
  <2>5. CASE Len(LinkReset(d)) = 6
    BY <2>2, <2>3, <2>5
  <2> QED
    BY <1>9, <2>4, <2>5
<1>12. again => retries \in 0 .. MaximumLinkResetRetries
  <2>1. "linkRetries" \in DOMAIN Types
    BY TypesOf
  <2>2. d["linkRetries"] \in Types["linkRetries"]
    BY Zenon, <1>2, <2>1, FieldTyped
  <2>3. d.linkRetries \in 0 .. MaximumLinkResetRetries
    BY Zenon, <2>2, TypesOf
  <2> QED
    BY <1>8, <2>3
<1> HIDE DEF again, retries, next
<1>13. ASSUME again PROVE AtLinkReset(r, c, 1)
  <2>1. {"linkReset", "linkRetries"} \subseteq DOMAIN Types
    BY Zenon, TypesOf
  <2>2. 1 \in Types.linkReset /\ retries \in Types.linkRetries
    BY <1>12, <1>13, TypesOf
  <2>3. Keeps(r, c, {"linkReset", "linkRetries"})
    BY Zenon, <1>9, <2>1, <2>2, Put2
  <2>4. r.linkReset = 1
    BY <1>9, SMT, TypesOf DEF Typed
  <2> HIDE DEF r
  <2>5. {"linkReset", "linkRetries"} \subseteq {"linkReset"} \cup (DOMAIN Types \ Related)
    BY LooseFields
  <2>6. 1 \in Nat /\ 1 <= Len(LinkReset(c))
    BY <1>9
  <2> QED
    BY <1>7, <2>3, <2>4, <2>5, <2>6, LinkResetMoved
<1>14. AtLinkReset(o, c, next)
  <2>1. "linkReset" \in DOMAIN Types /\ next \in Types.linkReset
    BY <1>11, TypesOf
  <2>2. Keeps(o, c, {"linkReset"})
    BY Zenon, <1>9, <2>1, Put
  <2>3. o.linkReset = next
    BY <1>9, SMT, TypesOf DEF Typed
  <2> HIDE DEF o
  <2>4. {"linkReset"} \subseteq {"linkReset"} \cup (DOMAIN Types \ Related)
    OBVIOUS
  <2> QED
    BY <1>7, <1>9, <1>11, <2>2, <2>3, <2>4, LinkResetMoved
<1> HIDE DEF r, o
<1>15. Base(n) /\ Placed(n) /\ SamePlace(n, c) /\ n.canUserTransfer = FALSE
  BY <1>7, <1>13, <1>14 DEF AtLinkReset
<1> HIDE DEF n
<1>16. SamePlace(n, d)
  BY <1>7, <1>15 DEF SamePlace
<1>17. n.closing \/ Waiting(n)
  BY <1>2, <1>16, PlaceOf DEF Good, SamePlace
<1>18. Good(NextLinkReset(n))
  BY <1>15, <1>17, NextLinkResetGood
<1> QED
  BY Zenon, <1>1, <1>18

LEMMA LinkStateTyped ==
  ASSUME NEW d, NEW phy \in Links
  PROVE  NewLinkState(d, phy) \in Links \cup {"10"}
<1> DEFINE i == d.interrupt
           u == NewLinkState(d, phy)
           quiet == d.generation = "ax88179" \/ d.interrupt = "none"
           other == CASE i = "down" -> "down" [] i # "down" /\ phy = "down" -> "10" [] OTHER -> phy
<1>1. u = IF quiet THEN phy ELSE other
  BY Zenon DEF NewLinkState
<1>2. other = "down" \/ other = "10" \/ other = phy
  OBVIOUS
<1> HIDE DEF other, u, quiet
<1> QED
  BY <1>1, <1>2 DEF u, Links

LEMMA UpdateLinkStateGood ==
  ASSUME NEW d, Good(d), NEW phy \in Links
  PROVE  Good(UpdateLinkState(d, phy))
<1> DEFINE state == NewLinkState(d, phy)
           g == [d EXCEPT !.grace = FALSE]
           w == [g EXCEPT !.linkState = state,
                          !.resetLink = IF d.generation = "ax179a" THEN state ELSE @]
           secret == state = "down" /\ d.grace
           same == LinkUnchanged(d, state) /\ ~(state = "down" /\ d.grace)
           down == state = "down" /\ ~d.grace /\ ~LinkUnchanged(d, state)
           up == state # "down" /\ ~LinkUnchanged(d, state)
           t == [w EXCEPT !.told = "down"]
           s == StartLinkReset(w)
           u == UpdateLinkState(d, phy)
<1>1. u = CASE secret -> d [] same -> g [] down -> t [] up -> Apply(StartLinkReset, w)
  BY Zenon DEF UpdateLinkState
<1>2. Apply(StartLinkReset, w) = s
  BY DEF Apply
<1>3. secret \/ same \/ down \/ up
  <2>1. d["grace"] \in Types["grace"]
    BY Zenon, FieldTyped, TypesOf DEF Good, Steady, Base
  <2>2. d.grace \in BOOLEAN
    BY <2>1, TypesOf
  <2> QED
    BY <2>2
<1>4. state \in Links \cup {"10"}
  BY LinkStateTyped
<1>5. Typed(d)
  BY DEF Good, Steady, Base
<1> HIDE DEF state
<1>6. Near(g, d)
  <2>1. "grace" \in DOMAIN Types \ Related /\ FALSE \in Types.grace
    BY LooseFields, TypesOf
  <2> QED
    BY Zenon, <1>5, <2>1, NearTyped
<1> HIDE DEF g
<1>7. Typed(g)
  BY <1>6 DEF Near, Keeps
<1>8. Near(w, g)
  <2> DEFINE link == IF d.generation = "ax179a" THEN state ELSE g.resetLink
  <2>1. link \in Types.resetLink /\ state \in Types.linkState
    <3>1. "resetLink" \in DOMAIN Types
      BY TypesOf
    <3>2. g["resetLink"] \in Types["resetLink"]
      BY Zenon, <1>7, <3>1, FieldTyped
    <3> QED
      BY <1>4, <3>2, TypesOf DEF States
  <2>2. {"linkState", "resetLink"} \subseteq DOMAIN Types \ Related
    BY LooseFields
  <2>3. w = [g EXCEPT !.linkState = state, !.resetLink = link]
    BY Zenon
  <2> HIDE DEF link
  <2>4. Near([g EXCEPT !.linkState = state, !.resetLink = link], g)
    BY Zenon, <1>7, <2>1, <2>2, NearTyped2
  <2> QED
    BY Zenon, <2>3, <2>4
<1> HIDE DEF w
<1>9. Near(t, w)
  <2>1. "told" \in DOMAIN Types \ Related /\ "down" \in Types.told /\ Typed(w)
    BY <1>8, LooseFields, TypesOf DEF Near, Keeps, Links
  <2> QED
    BY Zenon, <2>1, NearTyped
<1> HIDE DEF t
<1>10. Good(g) /\ Good(w) /\ Good(t)
  BY <1>6, <1>8, <1>9, NearSteady
<1>11. Good(s)
  BY <1>10, StartLinkResetGood
<1> HIDE DEF secret, same, down, up, s, u
<1>12. u = d \/ u = g \/ u = t \/ u = s
  BY <1>1, <1>2, <1>3
<1>13. Good(u)
  BY Zenon, <1>10, <1>11, <1>12
<1> QED
  BY <1>13 DEF u

-----------------------------------------------------------------------------
(* Completion routines.                                                      *)

(* The PHY is not ready yet: the timer will ask again, or init goes on.      *)
LEMMA RetryPhyGood ==
  ASSUME NEW d, Steady(d), Kind(d) = "waitPhy"
  PROVE  Good(RetryPhyReady(d))
<1> DEFINE n == d.retries + 1
           u == [d EXCEPT !.retries = n, !.retryPending = TRUE, !.timer = "running",
                          !.retryLost = FALSE]
<1>1. RetryPhyReady(d) = IF d.retries < PhyReadyMaximumRetries THEN u ELSE AdvanceInitStage(d)
  BY Zenon DEF RetryPhyReady
<1>2. CASE d.retries < PhyReadyMaximumRetries
  <2>1. Typed(d)
    BY DEF Steady, Base
  <2>2. n \in 0 .. PhyReadyMaximumRetries
    <3>1. "retries" \in DOMAIN Types
      BY TypesOf
    <3>2. d["retries"] \in Types["retries"]
      BY Zenon, <2>1, <3>1, FieldTyped
    <3>3. d.retries \in 0 .. PhyReadyMaximumRetries
      BY Zenon, <3>2, TypesOf
    <3> QED
      BY <1>2, <3>3
  <2> HIDE DEF n
  <2>3. Keeps(u, d, {"retries", "retryPending", "timer", "retryLost"})
    <3>1. {"retries", "retryPending", "timer", "retryLost"} \subseteq DOMAIN Types
      BY Zenon, TypesOf
    <3>2. /\ n \in Types.retries /\ TRUE \in Types.retryPending
          /\ "running" \in Types.timer /\ FALSE \in Types.retryLost
      BY <2>2, TypesOf
    <3> QED
      BY Zenon, <2>1, <3>1, <3>2, Put4
  <2>4. u.retryPending = TRUE /\ u.timer = "running"
    BY <2>1, SMT, TypesOf DEF Typed
  <2> HIDE DEF u
  <2>5. {"retries", "retryPending", "timer", "retryLost"} \subseteq
          {"timer", "retryPending", "retryLost"} \cup (DOMAIN Types \ Related)
    BY LooseFields
  <2>6. Still(u, d)
    BY <2>3, <2>5, StillSteady
  <2>7. Good(u)
    BY <2>4, <2>6 DEF Good, Waiting, Still
  <2> QED
    BY <1>1, <1>2, <2>7
<1>3. CASE ~(d.retries < PhyReadyMaximumRetries)
  <2>1. Good(AdvanceInitStage(d))
    BY AdvanceGood
  <2> QED
    BY Zenon, <1>1, <1>3, <2>1
<1> QED
  BY <1>2, <1>3

(* The BMCR is known: the PHY need not settle if nothing is written.         *)
LEMMA AfterBmcrGood ==
  ASSUME NEW d, Steady(d), Kind(d) = "readBmcr", NEW clear
  PROVE  Good(AfterBmcr(d, clear))
<1> DEFINE s == StageOf(d, "settle")
           u == [d EXCEPT !.initStage = s]
<1>1. AfterBmcr(d, clear) = AdvanceInitStage(d) \/ AfterBmcr(d, clear) = AdvanceInitStage(u)
  BY Zenon DEF AfterBmcr
<1>2. Typed(d) /\ d.generation \in {"ax88179", "ax179a"} /\ d.initStage \in Nat
  BY Fields DEF Steady, Base
<1>3. d.initStage <= Complete(d) /\ d.initStage # Complete(d)
  BY <1>2, KindOf DEF AfterStart
<1>4. /\ s \in Nat /\ s <= Complete(d) + 1 /\ s < Complete(d) /\ s >= StageOf(d, "start")
      /\ Complete(d) \in Nat
  BY <1>2, Table
<1>5. ~d.pending
  BY <1>2, <1>3, <1>4 DEF Steady, Placed
<1> HIDE DEF s
<1>6. Steady(u)
  BY <1>4, <1>5, MovedSteady
<1> HIDE DEF u
<1>7. Good(AdvanceInitStage(d)) /\ Good(AdvanceInitStage(u))
  BY <1>6, AdvanceGood
<1> QED
  BY Zenon, <1>1, <1>7

LEMMA CompleteReadPhyGood ==
  ASSUME NEW d, Good(d), Op(d) = "readPhy", NEW ok \in BOOLEAN, NEW bit \in BOOLEAN,
         NEW link \in Links
  PROVE  Good(CompleteReadPhy(d, ok, bit, link))
<1> DEFINE register == d.request.register
           Completed(c) ==
             CASE Kind(c) = "waitPhy" /\ ok /\ register = PhyIdentifier ->
                    IF bit THEN AdvanceInitStage(c) ELSE RetryPhyReady(c)
               [] Kind(c) = "readBmcr" /\ ok /\ register = MiiBmcr -> AfterBmcr(c, bit)
               [] ok /\ register = PhyPhysicalStatus ->
                    UpdateLinkState([c EXCEPT !.refreshPending = FALSE], link)
               [] Kind(c) = "waitPhy"  /\ ~ok -> RetryPhyReady(c)
               [] Kind(c) = "readBmcr" /\ ~ok -> AfterBmcr(c, FALSE)
               [] OTHER -> c
           b == CompleteControlTransfer([d EXCEPT !.phyRead = FALSE])
<1>1. CompleteReadPhy(d, ok, bit, link) = Completed(b)
  <2>1. Apply(Completed, b) = Completed(b)
    BY DEF Apply
  <2>2. CompleteReadPhy(d, ok, bit, link) = Apply(Completed, b)
    BY Zenon DEF CompleteReadPhy
  <2> QED
    BY Zenon, <2>1, <2>2
<1>2. Steady(d)
  BY DEF Good
<1>3. Released(b, d)
  BY <1>2, CompletePhyRead
<1> HIDE DEF b
<1>4. Steady(b) /\ Kind(b) = Kind(d)
  BY <1>3, PlaceOf DEF Released
<1> DEFINE identified == Kind(b) = "waitPhy" /\ ok /\ register = PhyIdentifier
           control == Kind(b) = "readBmcr" /\ ok /\ register = MiiBmcr
           status == ok /\ register = PhyPhysicalStatus
           noId == Kind(b) = "waitPhy"  /\ ~ok
           noControl == Kind(b) = "readBmcr" /\ ~ok
           r1 == IF bit THEN AdvanceInitStage(b) ELSE RetryPhyReady(b)
           r2 == AfterBmcr(b, bit)
           e == [b EXCEPT !.refreshPending = FALSE]
           r3 == UpdateLinkState(e, link)
           r4 == RetryPhyReady(b)
           r5 == AfterBmcr(b, FALSE)
           u == Completed(b)
<1>5. u = CASE identified -> r1 [] control -> r2 [] status -> r3 [] noId -> r4
            [] noControl -> r5 [] OTHER -> b
  BY Zenon
<1>6. identified => Good(r1)
  BY <1>4, AdvanceGood, RetryPhyGood
<1>7. control => Good(r2)
  BY <1>4, AfterBmcrGood
<1>8. status => Good(r3)
  <2>1. ASSUME status PROVE Good(r3)
    <3>1. ~Leads(d)
      BY <2>1 DEF Leads, StageOps, PhyIdentifier, MiiBmcr, PhyPhysicalStatus
    <3>2. Good(b)
      BY <1>3, <3>1, ReleasedGood
    <3>3. Near(e, b)
      <4>1. Typed(b) /\ "refreshPending" \in DOMAIN Types \ Related
            /\ FALSE \in Types.refreshPending
        BY <1>4, LooseFields, TypesOf DEF Steady, Base
      <4> QED
        BY Zenon, <4>1, NearTyped
    <3> HIDE DEF e
    <3>4. Good(e)
      BY <3>2, <3>3, NearSteady
    <3> QED
      BY <3>4, UpdateLinkStateGood
  <2> QED
    BY <2>1
<1>9. noId => Good(r4)
  BY <1>4, RetryPhyGood
<1>10. noControl => Good(r5)
  BY <1>4, AfterBmcrGood
<1>11. identified \/ control \/ status \/ noId \/ noControl \/ Good(b)
  <2>1. ASSUME ~identified, ~control, ~noId, ~noControl PROVE Good(b)
    <3>1. ~Leads(d)
      BY <1>4, <2>1 DEF Leads, StageOps
    <3> QED
      BY <1>3, <3>1, ReleasedGood
  <2> QED
    BY <2>1
<1>12. /\ ~(identified /\ control) /\ ~(identified /\ status) /\ ~(control /\ status)
       /\ identified \/ control \/ status => ~noId /\ ~noControl
       /\ ~(noId /\ noControl)
  BY DEF PhyIdentifier, MiiBmcr, PhyPhysicalStatus
<1> HIDE DEF identified, control, status, noId, noControl, r1, r2, r3, r4, r5, u
<1>13. \/ identified /\ u = r1
       \/ control /\ u = r2
       \/ status /\ u = r3
       \/ noId /\ u = r4
       \/ noControl /\ u = r5
       \/ ~identified /\ ~control /\ ~status /\ ~noId /\ ~noControl /\ u = b
  BY <1>5
<1>14. Good(u)
  BY Zenon, <1>6, <1>7, <1>8, <1>9, <1>10, <1>11, <1>13
<1> QED
  BY <1>1, <1>14 DEF u

(* The AX179A has read the stage that the write completes.                   *)
LEMMA CompleteWritePhyGood ==
  ASSUME NEW d, Good(d), Op(d) = "writePhy", d.generation = "ax179a" => d.completedStage # 0
  PROVE  Good(CompleteWritePhy(d))
<1> DEFINE stage == IF d.generation = "ax179a" THEN d.completedStage ELSE d.initStage
           c == CompleteControlTransfer([d EXCEPT !.phyWrite = FALSE, !.completedStage = 0])
           on == KindAt(d, stage) \in WriteKinds
<1>1. CompleteWritePhy(d) = IF on THEN AdvanceInitStage(c) ELSE c
  BY Zenon DEF CompleteWritePhy
<1>2. Released(c, d)
  BY CompletePhyWrite DEF Good
<1> HIDE DEF c
<1>3. Good(AdvanceInitStage(c))
  BY <1>2, AdvanceGood DEF Released
<1>4. ASSUME ~on PROVE Good(c)
  <2>1. ~Leads(d)
    <3>1. CASE d.generation = "ax179a"
      BY <1>4, <3>1 DEF Leads, StageOps
    <3>2. CASE d.generation # "ax179a"
      BY <1>4, <3>2 DEF Leads, StageOps, Kind
    <3> QED
      BY <3>1, <3>2
  <2> QED
    BY <1>2, <2>1, ReleasedGood
<1> QED
  BY <1>1, <1>3, <1>4

LEMMA CompleteWriteNodeIdGood ==
  ASSUME NEW d, Good(d), Op(d) = "writeNodeId", NEW ok \in BOOLEAN
  PROVE  Good(CompleteWriteNodeId(d, ok))
<1> DEFINE lost == d.addressLost \/ ~ok
           e == [d EXCEPT !.addressLost = lost]
           c == CompleteControlTransfer(e)
           other == d.generation = "ax179a"
           back == d.generation = "ax88179" /\ ok /\ Kind(c) = "writeNodeId" /\ ~c.closing
           r1 == IF Kind(c) = "writeNodeId" THEN AdvanceInitStage(c) ELSE c
           r2 == QueueControlTransfer(c, Request("readNodeId", "none"))
           r3 == AdvanceUnlessComplete(c)
           u == CompleteWriteNodeId(d, ok)
<1>1. u = CASE other -> r1 [] back -> r2 [] OTHER -> r3
  BY Zenon DEF CompleteWriteNodeId
<1>2. Typed(d) /\ Steady(d)
  BY DEF Good, Steady, Base
<1>3. Near(e, d)
  <2>1. "addressLost" \in DOMAIN Types \ Related
    BY LooseFields
  <2>2. d["addressLost"] \in Types["addressLost"]
    BY Zenon, <1>2, <2>1, FieldTyped
  <2>3. lost \in Types.addressLost
    BY <2>2, TypesOf
  <2> HIDE DEF lost
  <2> QED
    BY Zenon, <1>2, <2>1, <2>3, NearTyped
<1> HIDE DEF e
<1>4. Released(c, d)
  BY <1>2, <1>3, CompleteOther
<1> HIDE DEF c
<1>5. Steady(c) /\ Kind(c) = Kind(d) /\ ~c.canUserTransfer
  BY <1>4, PlaceOf DEF Released
<1>6. other => Good(r1)
  <2>1. Good(AdvanceInitStage(c))
    BY <1>5, AdvanceGood
  <2>2. other /\ Kind(c) # "writeNodeId" => ~Leads(d)
    BY <1>5 DEF Leads, StageOps
  <2>3. other /\ Kind(c) # "writeNodeId" => Good(c)
    BY <1>4, <2>2, ReleasedGood
  <2> QED
    BY <2>1, <2>3
<1>7. Good(r2)
  <2>1. Request("readNodeId", "none") \in Requests /\ "readNodeId" \in StageOps
    BY RequestsTyped DEF StageOps
  <2> QED
    BY <1>5, <2>1, QueuedLeads
<1>8. Good(r3)
  BY <1>5, UnlessCompleteGood
<1>9. ~(other /\ back)
  OBVIOUS
<1> HIDE DEF other, back, r1, r2, r3, u
<1>10. (other /\ u = r1) \/ u = r2 \/ u = r3
  BY <1>1, <1>9
<1>11. Good(u)
  BY Zenon, <1>6, <1>7, <1>8, <1>10
<1> QED
  BY <1>11 DEF u

LEMMA CompleteStartReceivingGood ==
  ASSUME NEW d, Good(d), Op(d) = "startReceiving", NEW ok \in BOOLEAN
  PROVE  Good(CompleteStartReceiving(d, ok))
<1> DEFINE lost == ~ok \/ d.request.value # d.rxControl
           e == [d EXCEPT !.rxLost = lost]
           c == CompleteControlTransfer(e)
<1>1. CompleteStartReceiving(d, ok) = AdvanceUnlessComplete(c)
  BY Zenon DEF CompleteStartReceiving
<1>2. Typed(d) /\ Steady(d)
  BY DEF Good, Steady, Base
<1>3. Near(e, d)
  <2>1. "rxLost" \in DOMAIN Types \ Related
    BY LooseFields
  <2>2. lost \in Types.rxLost
    BY TypesOf
  <2> HIDE DEF lost
  <2> QED
    BY Zenon, <1>2, <2>1, <2>2, NearTyped
<1> HIDE DEF e
<1>4. Released(c, d)
  BY <1>2, <1>3, CompleteOther
<1> HIDE DEF c
<1>5. Good(AdvanceUnlessComplete(c))
  BY <1>4, UnlessCompleteGood DEF Released
<1> QED
  BY Zenon, <1>1, <1>5

LEMMA CompleteStopReceivingGood ==
  ASSUME NEW d, Good(d), Op(d) = "stopReceiving"
  PROVE  Good(CompleteStopReceiving(d))
<1> DEFINE c == CompleteControlTransfer(d)
<1>1. CompleteStopReceiving(d) = StartReceiving(c)
  BY DEF Apply, CompleteStopReceiving
<1>2. Typed(d) /\ Steady(d) /\ ~d.replay
  BY DEF Good, Steady, Base
<1>3. Near(d, d)
  BY <1>2, NearItself
<1>4. Released(c, d)
  BY <1>2, <1>3, CompleteOther
<1> HIDE DEF c
<1>5. ~Leads(d)
  BY DEF Leads, StageOps
<1>6. Good(c) /\ ~c.replay
  BY <1>2, <1>4, <1>5, ReleasedGood DEF Released, SameRecovery
<1>7. Good(StartReceiving(c))
  BY <1>6, StartReceivingGood
<1> QED
  BY Zenon, <1>1, <1>7

(* Whatever request is over.                                                 *)
LEMMA CompleteRequestGood ==
  ASSUME NEW d, Good(d), d.canUserTransfer, NEW ok \in BOOLEAN, NEW bit \in BOOLEAN,
         NEW link \in Links,
         d.generation = "ax179a" /\ Op(d) = "writePhy" => d.completedStage # 0
  PROVE  Good(CompleteRequest(d, ok, bit, link))
<1> DEFINE op == Op(d)
           c == CompleteControlTransfer(d)
           known == op \in {"readPhy", "writePhy", "linkReset", "writeNodeId", "startReceiving",
                            "stopReceiving"}
           node == op = "readNodeId" /\ d.generation = "ax88179"
           r1 == CompleteReadPhy(d, ok, bit, link)
           r2 == CompleteWritePhy(d)
           r3 == CompleteLinkResetTransfer(d, ok, bit)
           r4 == CompleteWriteNodeId(d, ok)
           r5 == CompleteStartReceiving(d, ok)
           r6 == CompleteStopReceiving(d)
           r7 == AdvanceInitStage(c)
           r8 == AdvanceUnlessComplete(c)
           u == CompleteRequest(d, ok, bit, link)
<1>1. u = CASE op = "readPhy" -> r1 [] op = "writePhy" -> r2 [] op = "linkReset" -> r3
            [] op = "writeNodeId" -> r4 [] op = "startReceiving" -> r5
            [] op = "stopReceiving" -> r6 [] node -> r7 [] OTHER -> r8
  BY Zenon DEF CompleteRequest
<1>2. /\ op = "readPhy" => Good(r1)
      /\ op = "writePhy" => Good(r2)
      /\ op = "linkReset" => Good(r3)
      /\ op = "writeNodeId" => Good(r4)
      /\ op = "startReceiving" => Good(r5)
      /\ op = "stopReceiving" => Good(r6)
  BY CompleteReadPhyGood, CompleteWritePhyGood, CompleteLinkResetGood, CompleteWriteNodeIdGood,
     CompleteStartReceivingGood, CompleteStopReceivingGood
<1>3. ~known => Good(r7) /\ Good(r8)
  <2>1. ASSUME ~known PROVE Released(c, d)
    <3>1. Steady(d) /\ Near(d, d)
      BY NearItself DEF Good, Steady, Base
    <3> QED
      BY <2>1, <3>1, CompleteOther
  <2> HIDE DEF c
  <2> QED
    BY <2>1, AdvanceGood, UnlessCompleteGood DEF Released
<1>4. node => op = "readNodeId"
  OBVIOUS
<1>5. op = "readNodeId" => ~known
  OBVIOUS
<1> HIDE DEF r1, r2, r3, r4, r5, r6, r7, r8, u, node
<1>6. known => Good(u)
  <2>1. known => ~node
    BY <1>4
  <2>2. /\ op = "readPhy" => u = r1
        /\ op = "writePhy" => u = r2
        /\ op = "linkReset" => u = r3
        /\ op = "writeNodeId" => u = r4
        /\ op = "startReceiving" => u = r5
        /\ op = "stopReceiving" => u = r6
    BY <1>1, <2>1
  <2> HIDE DEF op
  <2> QED
    BY <1>2, <2>2
<1>7. ~known => Good(u)
  <2>1. ~known => u = r7 \/ u = r8
    BY <1>1
  <2> HIDE DEF known
  <2> QED
    BY <1>3, <2>1
<1> QED
  BY <1>6, <1>7 DEF u
-----------------------------------------------------------------------------
(* The timer of the running device.                                          *)

(* The retry tick asks the PHY again, or is lost: its flag says so.          *)
LEMMA WaitPhyTickGood ==
  ASSUME NEW e, Good(e), e.timer = "running", ~e.closing, Kind(e) = "waitPhy",
         NEW d, Timed(d, e, "none")
  PROVE  Good(WaitPhyTick(d))
<1>1. /\ Steady(d) /\ Typed(d) /\ Kind(d) = "waitPhy" /\ ~d.closing
      /\ d.retryPending = e.retryPending
  BY DEF Timed, Still, Steady, Base
<1>2. Leads(e) => Leads(d)
  BY SameLeads DEF Timed, Still
<1>3. ~Leads(e) => e.retryPending
  BY DEF Good, Waiting
<1>4. CASE d.retryPending /\ ~Outstanding(d)
  <2> DEFINE u == [d EXCEPT !.retryPending = FALSE]
             q == BeginPhy(u, "phyRead", PhyIdentifier)
  <2>1. WaitPhyTick(d) = q
    BY <1>4 DEF WaitPhyTick, BeginReadPhy
  <2>2. Keeps(u, d, {"retryPending"})
    <3>1. "retryPending" \in DOMAIN Types /\ FALSE \in Types.retryPending
      BY TypesOf
    <3> QED
      BY Zenon, <1>1, <3>1, Put
  <2> HIDE DEF u
  <2>3. Still(u, d)
    BY <1>1, <2>2, StillSteady
  <2>4. Steady(u) /\ Kind(u) = "waitPhy" /\ CanBeginPhy(u)
    BY <1>1, <1>4, <2>3 DEF Still, Outstanding, CanBeginPhy, PhyBusy, CanQueueControlTransfer
  <2>5. PhyIdentifier \in Nat
    BY DEF PhyIdentifier
  <2>6. Begun(q, u, "phyRead", PhyIdentifier)
    BY <2>4, <2>5, BeginPhyBegun
  <2>7. Good(q)
    BY <2>4, <2>6, BegunLeads
  <2> QED
    BY Zenon, <2>1, <2>7
<1>5. CASE ~(d.retryPending /\ ~Outstanding(d))
  <2> DEFINE lost == d.retryPending
             u == [d EXCEPT !.retryLost = lost]
  <2>1. WaitPhyTick(d) = u
    BY <1>5 DEF WaitPhyTick
  <2>2. lost \in BOOLEAN
    BY <1>1, Fields
  <2>3. Keeps(u, d, {"retryLost"}) /\ u.retryLost = lost
    <3> HIDE DEF lost
    <3>1. "retryLost" \in DOMAIN Types /\ lost \in Types.retryLost
      BY <2>2, TypesOf
    <3>2. Keeps(u, d, {"retryLost"})
      BY Zenon, <1>1, <3>1, Put
    <3>3. u.retryLost = lost
      BY <1>1, SMT, TypesOf DEF Typed
    <3> QED
      BY <3>2, <3>3
  <2> HIDE DEF u
  <2>4. Still(u, d) /\ u.retryPending = d.retryPending
    BY <1>1, <2>3, StillSteady, KeptPlace
  <2>5. Leads(d) => Leads(u)
    BY <2>4, SameLeads DEF Still
  <2>6. d.retryPending => Waiting(u)
    BY <1>1, <2>3, <2>4 DEF Waiting, Still
  <2>7. Good(u)
    BY <1>1, <1>2, <1>3, <2>4, <2>5, <2>6 DEF Good, Still
  <2> QED
    BY <2>1, <2>7
<1> QED
  BY <1>4, <1>5

LEMMA PollLinkGood ==
  ASSUME NEW d, Good(d), NEW tick
  PROVE  Good(PollLink(d, tick)) /\ SamePlace(PollLink(d, tick), d)
<1> DEFINE e == [d EXCEPT !.refreshPending = FALSE]
           q == BeginPhy(e, "phyRead", PhyPhysicalStatus)
<1>1. PollLink(d, tick) = q \/ PollLink(d, tick) = d
  BY Zenon DEF PollLink, BeginReadPhy
<1>2. Near(e, d)
  <2>1. "refreshPending" \in DOMAIN Types \ Related /\ FALSE \in Types.refreshPending /\ Typed(d)
    BY LooseFields, TypesOf DEF Good, Steady, Base
  <2> QED
    BY Zenon, <2>1, NearTyped
<1> HIDE DEF e
<1>3. Good(e) /\ SamePlace(e, d)
  BY <1>2, NearSteady
<1>4. PhyPhysicalStatus \in Nat
  BY DEF PhyPhysicalStatus
<1>5. Good(q) /\ SamePlace(q, e)
  BY <1>3, <1>4, BeginPhyGood
<1>6. SamePlace(q, d) /\ SamePlace(d, d)
  BY <1>3, <1>5 DEF SamePlace
<1> QED
  BY Zenon, <1>1, <1>5, <1>6

(* A tick after the recovery: the timer is armed only where init is over.    *)
LEMMA RunningTickGood ==
  ASSUME NEW d, Good(d), NEW tick
  PROVE  Good(RunningTick(d, tick))
<1> DEFINE t == IF tick = "txTimeout" THEN TransmitTimeout(d) ELSE d
           p == ProcessRecovery(t)
           look == IF tick = "restart" /\ p.generation = "ax88179" /\ p.linkState # "down" /\
                      p.running
                   THEN RestartReceiving(p) ELSE PollLink(p, tick)
           reset == p.usbReset
           drain == ~p.usbReset /\ p.pending
           early == ~p.usbReset /\ ~p.pending /\ ~IsReady(p)
           armed == [p EXCEPT !.timer = "running"]
           looked == [look EXCEPT !.timer = "running"]
           u == RunningTick(d, tick)
<1>1. u = CASE reset -> p [] drain -> armed [] early -> p [] OTHER -> looked
  <2> DEFINE AfterRecovery(q) ==
               CASE q.usbReset -> q
                 [] ~q.usbReset /\ q.pending -> [q EXCEPT !.timer = "running"]
                 [] ~q.usbReset /\ ~q.pending /\ ~IsReady(q) -> q
                 [] OTHER ->
                      [IF tick = "restart" /\ q.generation = "ax88179" /\ q.linkState # "down" /\
                          q.running
                       THEN RestartReceiving(q) ELSE PollLink(q, tick) EXCEPT !.timer = "running"]
  <2>1. RunningTick(d, tick) = Apply(AfterRecovery, p)
    BY Zenon DEF RunningTick
  <2>2. Apply(AfterRecovery, p) = AfterRecovery(p)
    BY DEF Apply
  <2> QED
    BY Zenon, <2>1, <2>2
<1>2. Good(p)
  <2>1. Good(t)
    BY TransmitTimeoutGood
  <2> HIDE DEF t
  <2> QED
    BY <2>1, ProcessRecoveryGood
<1> HIDE DEF p
<1>3. Typed(p) /\ Steady(p)
  BY <1>2 DEF Good, Steady, Base
<1>4. drain => Good(armed)
  <2>1. ASSUME drain PROVE Good(armed)
    <3>1. p.initStage >= Complete(p)
      BY <1>3, <2>1 DEF Steady, Placed
    <3>2. p.initStage \in Nat /\ Complete(p) \in Nat
      <4>1. p.initStage \in Nat /\ p.generation \in {"ax88179", "ax179a"}
        BY <1>3, Fields
      <4> QED
        BY <4>1, Table
    <3>3. Kind(p) \in {"complete", "none"}
      BY <1>3, <3>1, <3>2, KindOf
    <3>4. Timed(armed, p, "running")
      BY <1>3, TimerSet
    <3> HIDE DEF armed
    <3> QED
      BY Zenon, <1>2, <3>3, <3>4, TimedGood
  <2> QED
    BY <2>1
<1>5. IsReady(p) => Good(looked)
  <2>1. ASSUME IsReady(p) PROVE Good(looked)
    <3>1. Kind(p) = "complete" /\ p.initStage = Complete(p)
      BY <1>3, <2>1, KindOf DEF IsReady
    <3>2. p.replay => p.closing
      <4>1. p.generation \in {"ax88179", "ax179a"}
        BY <1>3, Fields
      <4>2. Complete(p) \in Nat
        BY <4>1, Table
      <4> QED
        BY <1>3, <3>1, <4>2 DEF Steady, Placed
    <3>3. /\ Good(RestartReceiving(p)) /\ SamePlace(RestartReceiving(p), p)
          /\ Good(PollLink(p, tick)) /\ SamePlace(PollLink(p, tick), p)
      BY <1>2, <3>2, RestartReceivingGood, PollLinkGood
    <3>4. Good(look) /\ SamePlace(look, p)
      BY Zenon, <3>3
    <3> HIDE DEF look
    <3>5. Kind(look) = "complete" /\ Steady(look)
      BY <3>1, <3>4, PlaceOf DEF Good
    <3>6. Timed(looked, look, "running")
      BY <3>5, TimerSet
    <3> HIDE DEF looked
    <3> QED
      BY Zenon, <3>4, <3>5, <3>6, TimedGood
  <2> QED
    BY <2>1
<1>6. ~reset /\ ~drain /\ ~early => IsReady(p)
  OBVIOUS
<1>7. ~(reset /\ drain) /\ ~(drain /\ early)
  OBVIOUS
<1> HIDE DEF reset, drain, early, armed, looked, u
<1>8. \/ u = p
      \/ drain /\ u = armed
      \/ ~reset /\ ~drain /\ ~early /\ u = looked
  BY <1>1, <1>7
<1>9. Good(u)
  BY Zenon, <1>2, <1>4, <1>5, <1>6, <1>8
<1> QED
  BY <1>9 DEF u

(* The link's interrupt.                                                     *)
LEMMA InterruptLinkGood ==
  ASSUME NEW d, Good(d), NEW up \in BOOLEAN
  PROVE  Good(ProcessInterruptLinkStatus(d, up))
<1> DEFINE status == IF up THEN "up" ELSE "down"
           i == [d EXCEPT !.interrupt = status, !.refreshPending = up]
           e == [i EXCEPT !.refreshPending = FALSE]
           q == BeginPhy(e, "phyRead", PhyPhysicalStatus)
           g == [i EXCEPT !.grace = FALSE, !.linkState = "down", !.told = "down"]
           link == IF d.generation = "ax179a" THEN "down" ELSE g.resetLink
           l == [g EXCEPT !.resetLink = link]
           ask == up /\ d.linkReset = 0 /\ ~Outstanding(d) /\ ~d.closing
           down == ~up /\ ~d.grace
           u == ProcessInterruptLinkStatus(d, up)
<1>1. u = CASE ask -> q [] down -> l [] OTHER -> i
  <2>1. l = [i EXCEPT !.grace = FALSE, !.linkState = "down", !.told = "down",
                      !.resetLink = IF d.generation = "ax179a" THEN "down" ELSE @]
    BY Zenon
  <2> HIDE DEF l
  <2> QED
    BY Zenon, <2>1 DEF ProcessInterruptLinkStatus, BeginReadPhy
<1>2. Typed(d)
  BY DEF Good, Steady, Base
<1>3. Near(i, d)
  <2>1. {"interrupt", "refreshPending"} \subseteq DOMAIN Types \ Related
    BY LooseFields
  <2>2. status \in Types.interrupt /\ up \in Types.refreshPending
    BY TypesOf
  <2> HIDE DEF status
  <2> QED
    BY Zenon, <1>2, <2>1, <2>2, NearTyped2
<1> HIDE DEF i
<1>4. Good(i) /\ Typed(i)
  BY <1>3, NearSteady DEF Good, Steady, Base
<1>5. Good(q)
  <2>1. Near(e, i)
    <3>1. "refreshPending" \in DOMAIN Types \ Related /\ FALSE \in Types.refreshPending
      BY LooseFields, TypesOf
    <3> QED
      BY Zenon, <1>4, <3>1, NearTyped
  <2> HIDE DEF e
  <2>2. Good(e) /\ PhyPhysicalStatus \in Nat
    BY <1>4, <2>1, NearSteady DEF PhyPhysicalStatus
  <2> QED
    BY <2>2, BeginPhyGood
<1>6. Near(g, i)
  <2>1. {"grace", "linkState", "told"} \subseteq DOMAIN Types \ Related
    BY LooseFields
  <2>2. FALSE \in Types.grace /\ "down" \in Types.linkState /\ "down" \in Types.told
    BY TypesOf DEF Links
  <2> QED
    BY Zenon, <1>4, <2>1, <2>2, NearTyped3
<1> HIDE DEF g
<1>7. Near(l, g)
  <2>1. "resetLink" \in DOMAIN Types \ Related /\ Typed(g)
    BY <1>6, LooseFields DEF Near, Keeps
  <2>2. g["resetLink"] \in Types["resetLink"]
    BY Zenon, <2>1, FieldTyped
  <2>3. link \in Types.resetLink
    BY <2>2, TypesOf DEF States, Links
  <2> HIDE DEF link
  <2> QED
    BY Zenon, <2>1, <2>3, NearTyped
<1> HIDE DEF l
<1>8. Good(l)
  BY <1>4, <1>6, <1>7, NearSteady
<1>9. ~(ask /\ down)
  OBVIOUS
<1> HIDE DEF ask, down, q, u
<1>10. u = q \/ u = l \/ u = i
  BY <1>1, <1>9
<1>11. Good(u)
  BY Zenon, <1>4, <1>5, <1>8, <1>10
<1> QED
  BY <1>11 DEF u

-----------------------------------------------------------------------------
(* Pipes.                                                                    *)

(* Transfers begin and end, but none begins during a replay.                 *)
LEMMA PipesGood ==
  ASSUME NEW d, Good(d), NEW pipes \in SUBSET Pipes, d.replay => pipes \subseteq d.pipes
  PROVE  Good([d EXCEPT !.pipes = pipes])
<1> DEFINE u == [d EXCEPT !.pipes = pipes]
<1>1. Keeps(u, d, {"pipes"}) /\ u.pipes = pipes
  <2>1. "pipes" \in DOMAIN Types /\ pipes \in Types.pipes /\ Typed(d)
    BY TypesOf DEF Good, Steady, Base
  <2>2. Keeps(u, d, {"pipes"})
    BY Zenon, <2>1, Put
  <2>3. u.pipes = pipes
    BY <2>1, SMT, TypesOf DEF Typed
  <2> QED
    BY <2>2, <2>3
<1> HIDE DEF u
<1>2. SamePlace(u, d) /\ Typed(u)
  BY <1>1, KeptPlace DEF SamePlace, Keeps
<1>3. u.pending = d.pending /\ u.replay = d.replay /\ u.paused = d.paused
      /\ u.running = d.running
  BY <1>1, KeptRecovery
<1>4. /\ u.phyRead = d.phyRead /\ u.phyWrite = d.phyWrite
      /\ u.completedStage = d.completedStage /\ u.linkReset = d.linkReset
      /\ u.canUserTransfer = d.canUserTransfer /\ u.request = d.request
  BY <1>1, KeptChannel
<1>5. Op(u) = Op(d)
  BY <1>4 DEF Op
<1>6. /\ Kind(u) = Kind(d) /\ Complete(u) = Complete(d) /\ LinkReset(u) = LinkReset(d)
      /\ StageOf(u, "start") = StageOf(d, "start")
      /\ Waiting(u) <=> Waiting(d)
  BY <1>2, PlaceOf
<1>7. Channel(u)
  BY <1>4, <1>5 DEF Channel, Good, Steady, Base
<1>8. u.replay => /\ u.pipes \subseteq {"receive"}
                  /\ d.initStage < StageOf(d, "start") => u.pipes = {}
  BY <1>1, <1>3 DEF Good, Steady, Base
<1>9. Base(u)
  BY <1>2, <1>3, <1>4, <1>5, <1>6, <1>7, <1>8 DEF Base, Good, Steady, SamePlace
<1>10. Steady(u)
  BY <1>2, <1>3, <1>4, <1>5, <1>6, <1>9 DEF Good, Steady, Placed, SamePlace
<1>11. Leads(u) <=> Leads(d)
  BY <1>2, <1>4, <1>5, <1>6, SameLeads DEF SamePlace
<1>12. Good(u)
  BY <1>2, <1>6, <1>10, <1>11 DEF Good, SamePlace
<1> QED
  BY <1>12 DEF u

(* The device closes.                                                        *)
LEMMA ClosedGood ==
  ASSUME NEW d, Good(d)
  PROVE  Good([d EXCEPT !.closing = TRUE, !.timer = "none", !.linkState = "down"])
<1> DEFINE u == [d EXCEPT !.closing = TRUE, !.timer = "none", !.linkState = "down"]
           F == {"closing", "timer", "linkState"}
<1>1. Keeps(u, d, F) /\ u.closing = TRUE
  <2>1. F \subseteq DOMAIN Types
    BY Zenon, TypesOf
  <2>2. /\ TRUE \in Types.closing /\ "none" \in Types.timer /\ "down" \in Types.linkState
        /\ Typed(d)
    BY TypesOf DEF Good, Steady, Base, Links
  <2>3. Keeps(u, d, F)
    BY Zenon, <2>1, <2>2, Put3
  <2>4. u.closing = TRUE
    BY <2>2, SMT, TypesOf DEF Typed
  <2> QED
    BY <2>3, <2>4
<1> HIDE DEF u
<1>2. Typed(u) /\ u.generation = d.generation /\ u.initStage = d.initStage
  BY <1>1, KeptPlace DEF Keeps
<1>3. SameRecovery(u, d)
  BY <1>1, KeptRecovery DEF SameRecovery
<1>4. /\ u.phyRead = d.phyRead /\ u.phyWrite = d.phyWrite
      /\ u.completedStage = d.completedStage /\ u.linkReset = d.linkReset
      /\ u.canUserTransfer = d.canUserTransfer /\ u.request = d.request
  BY <1>1, KeptChannel
<1>5. Op(u) = Op(d)
  BY <1>4 DEF Op
<1>6. /\ Complete(u) = Complete(d) /\ LinkReset(u) = LinkReset(d)
      /\ StageOf(u, "start") = StageOf(d, "start")
  BY <1>2, SameTables
<1>7. Channel(u)
  BY <1>4, <1>5 DEF Channel, Good, Steady, Base
<1>8. Base(u)
  BY <1>2, <1>3, <1>4, <1>5, <1>6, <1>7 DEF Base, Good, Steady, SameRecovery
<1>9. Steady(u)
  BY <1>1, <1>2, <1>3, <1>4, <1>5, <1>6, <1>8 DEF Good, Steady, Placed, SameRecovery
<1>10. Good(u)
  BY <1>1, <1>9 DEF Good
<1> QED
  BY <1>10 DEF u
-----------------------------------------------------------------------------
(* The actions.                                                              *)

Registered(r) ==
  /\ r = [field \in {"nodeId", "rx", "medium", "negotiated"} |-> r[field]]
  /\ r.nodeId \in Addresses \cup {NoAddress}

(* What the adapter does about a request leaves an address in its node ID.   *)
LEMMA PerformedTyped ==
  ASSUME IInv, dev.canUserTransfer
  PROVE  Registered(Performed)
<1> DEFINE step == IF Op(dev) = "linkReset" THEN LinkReset(dev)[dev.linkReset] ELSE "none"
           node == Op(dev) = "writeNodeId"
           start == Op(dev) = "startReceiving" \/ step = "start"
           stop == Op(dev) \in {"stopReceiving", "stopRx"} \/ step = "stop"
           medium == Op(dev) = "medium"
           mode == step = "medium"
           power == Op(dev) = "phyPower" \/ (Op(dev) = "writePhy" /\ Kind(dev) = "restart")
           value == dev.request.value
           r1 == [regs EXCEPT !.nodeId = value]
           r2 == [regs EXCEPT !.rx = value]
           r3 == [regs EXCEPT !.rx = "stop"]
           r4 == [regs EXCEPT !.medium = "1000"]
           r5 == [regs EXCEPT !.medium = value]
           r6 == [regs EXCEPT !.negotiated = FALSE]
           u == Performed
<1>1. u = CASE node -> r1 [] start -> r2 [] stop -> r3 [] medium -> r4 [] mode -> r5
            [] power -> r6 [] OTHER -> regs
  BY Zenon DEF Performed
<1>2. Registered(regs)
  BY DEF IInv, Registered
<1>3. node => value \in Addresses \cup {NoAddress}
  <2>1. dev.request \in Requests \cup {NoRequest} /\ dev.request # NoRequest
    BY Fields DEF IInv, Good, Steady, Base, Channel
  <2>2. node => dev.request \in [op: {"writeNodeId"}, value: Addresses \cup {NoAddress}]
    <3>1. node => dev.request.op = "writeNodeId"
      BY DEF Op
    <3> HIDE DEF node
    <3> QED
      BY <2>1, <3>1 DEF Requests, StageOps
  <2> HIDE DEF node
  <2> QED
    BY <2>2
<1> HIDE DEF value
<1>4. /\ node => Registered(r1)
      /\ Registered(r2) /\ Registered(r3) /\ Registered(r4) /\ Registered(r5) /\ Registered(r6)
  <2> HIDE DEF node
  <2>1. node => Registered(r1)
    BY <1>2, <1>3 DEF Registered
  <2>2. Registered(r2)
    BY <1>2 DEF Registered
  <2>3. Registered(r3)
    BY <1>2 DEF Registered
  <2>4. Registered(r4)
    BY <1>2 DEF Registered
  <2>5. Registered(r5)
    BY <1>2 DEF Registered
  <2>6. Registered(r6)
    BY <1>2 DEF Registered
  <2> QED
    BY <2>1, <2>2, <2>3, <2>4, <2>5, <2>6
<1>5. /\ node => ~start /\ ~stop /\ ~medium /\ ~mode /\ ~power
      /\ start => ~stop /\ ~medium /\ ~mode /\ ~power
      /\ stop => ~medium /\ ~mode /\ ~power
      /\ medium => ~mode /\ ~power
      /\ mode => ~power
  OBVIOUS
<1> HIDE DEF node, start, stop, medium, mode, power, r1, r2, r3, r4, r5, r6, u
<1>6. (node /\ u = r1) \/ u = r2 \/ u = r3 \/ u = r4 \/ u = r5 \/ u = r6 \/ u = regs
  BY <1>1, <1>5
<1>7. Registered(u)
  BY Zenon, <1>2, <1>4, <1>6
<1> QED
  BY <1>7 DEF u

(* The device after a step: Good, whatever else the step changes.            *)
LEMMA SucceedRequestStep ==
  ASSUME IInv, SucceedRequest
  PROVE  IInv'
<1>1. /\ dev.canUserTransfer /\ Good(dev)
      /\ dev.generation = "ax179a" /\ Op(dev) = "writePhy" => dev.completedStage # 0
  BY DEF SucceedRequest, MayComplete, IInv
<1>2. PhyLink \in Links
  BY DEF PhyLink, IInv, Links
<1>3. PICK bit \in BOOLEAN : dev' = CompleteRequest(dev, TRUE, bit, PhyLink)
  BY DEF SucceedRequest
<1> DEFINE u == CompleteRequest(dev, TRUE, bit, PhyLink)
<1>4. Good(u)
  BY <1>1, <1>2, CompleteRequestGood
<1> HIDE DEF u
<1>5. Good(dev')
  BY <1>3, <1>4 DEF u
<1>6. Registered(regs')
  BY <1>1, PerformedTyped DEF SucceedRequest
<1>7. UNCHANGED <<cable, faults, calls>>
  BY DEF SucceedRequest
<1> QED
  BY <1>5, <1>6, <1>7 DEF IInv, Registered

LEMMA FailRequestStep ==
  ASSUME IInv, FailRequest
  PROVE  IInv'
<1>1. /\ dev.canUserTransfer /\ Good(dev)
      /\ dev.generation = "ax179a" /\ Op(dev) = "writePhy" => dev.completedStage # 0
  BY DEF FailRequest, MayComplete, IInv
<1> DEFINE u == CompleteRequest(dev, FALSE, FALSE, "down")
<1>2. dev' = u
  BY DEF FailRequest
<1>3. "down" \in Links
  BY DEF Links
<1>4. Good(u)
  BY <1>1, <1>3, CompleteRequestGood
<1> HIDE DEF u
<1>5. Good(dev')
  BY <1>2, <1>4
<1>6. Registered(regs')
  BY <1>1, PerformedTyped DEF FailRequest, IInv, Registered
<1>7. faults' \in 0 .. MaxFaults /\ UNCHANGED <<cable, calls>>
  BY DEF FailRequest, IInv
<1> QED
  BY <1>5, <1>6, <1>7 DEF IInv, Registered

(* The stage read is that of the write, if the write leads on.               *)
LEMMA BeginCompleteWritePhyStep ==
  ASSUME IInv, BeginCompleteWritePhy
  PROVE  IInv'
<1> DEFINE stage == dev.initStage
           u == [dev EXCEPT !.completedStage = stage]
<1>1. dev' = u /\ UNCHANGED <<regs, cable, faults, calls>>
  BY DEF BeginCompleteWritePhy
<1>2. /\ Typed(dev) /\ Good(dev) /\ Op(dev) = "writePhy" /\ dev.phyWrite
      /\ stage \in Nat
  BY Fields DEF BeginCompleteWritePhy, IInv, Good, Steady, Base, Channel
<1>3. Keeps(u, dev, {"completedStage"}) /\ u.completedStage = stage
  <2>1. "completedStage" \in DOMAIN Types /\ stage \in Types.completedStage
    BY <1>2, TypesOf
  <2> HIDE DEF stage
  <2>2. Keeps(u, dev, {"completedStage"})
    BY Zenon, <1>2, <2>1, Put
  <2>3. u.completedStage = stage
    BY <1>2, SMT, TypesOf DEF Typed
  <2> QED
    BY <2>2, <2>3
<1> HIDE DEF u
<1>4. SamePlace(u, dev) /\ SameRecovery(u, dev) /\ Typed(u)
  BY <1>3, KeptPlace, KeptRecovery DEF SamePlace, SameRecovery, Keeps
<1>5. /\ u.phyRead = dev.phyRead /\ u.phyWrite = dev.phyWrite /\ u.linkReset = dev.linkReset
      /\ u.canUserTransfer = dev.canUserTransfer /\ u.request = dev.request
  BY <1>3, KeptChannel
<1>6. Op(u) = Op(dev)
  BY <1>5 DEF Op
<1>7. /\ Kind(u) = Kind(dev) /\ Complete(u) = Complete(dev) /\ LinkReset(u) = LinkReset(dev)
      /\ StageOf(u, "start") = StageOf(dev, "start")
      /\ Waiting(u) <=> Waiting(dev)
  BY <1>4, PlaceOf
<1>8. Channel(u)
  BY <1>2, <1>5, <1>6 DEF Channel, Good, Steady, Base
<1>9. Base(u)
  BY <1>2, <1>4, <1>5, <1>6, <1>7, <1>8 DEF Base, Good, Steady, SamePlace, SameRecovery
<1>10. Steady(u)
  BY <1>2, <1>4, <1>5, <1>6, <1>7, <1>9 DEF Good, Steady, Placed, SamePlace, SameRecovery
<1>11. Leads(dev) => Leads(u)
  <2>1. KindAt(u, u.completedStage) = Kind(dev)
    BY <1>3, <1>4, SameTables DEF SamePlace, Kind
  <2> QED
    BY <1>2, <1>5, <1>6, <1>7, <2>1 DEF Leads, StageOps
<1>12. Good(u)
  BY <1>2, <1>4, <1>7, <1>10, <1>11 DEF Good, SamePlace
<1> QED
  BY <1>1, <1>12 DEF IInv

LEMMA TimerAdvanceStep ==
  ASSUME IInv, TimerAdvance
  PROVE  IInv'
<1> DEFINE d == [dev EXCEPT !.timer = "none"]
           u == AdvanceInitStage(d)
<1>1. dev' = u
  BY Zenon DEF TimerAdvance
<1>2. Timed(d, dev, "none")
  BY TimerSet DEF IInv, Good
<1> HIDE DEF d
<1>3. Good(u)
  BY <1>2, AdvanceGood DEF Timed, Still
<1> HIDE DEF u
<1>4. Good(dev') /\ UNCHANGED <<regs, cable, faults, calls>>
  BY <1>1, <1>3 DEF TimerAdvance
<1> QED
  BY <1>4 DEF IInv

LEMMA RunTimerStep ==
  ASSUME IInv, NEW tick \in Ticks, RunTimer(tick)
  PROVE  IInv'
<1> DEFINE d == [dev EXCEPT !.timer = "none"]
           wait == ~d.closing /\ Kind(d) = "waitPhy"
           w == WaitPhyTick(d)
           r == RunningTick(d, tick)
           u == CASE d.closing -> d [] wait -> w [] OTHER -> r
<1>1. dev' = u
  BY Zenon DEF RunTimer
<1>2. Good(dev) /\ dev.timer = "running"
  BY DEF RunTimer, IInv
<1>3. Timed(d, dev, "none")
  BY <1>2, TimerSet DEF Good
<1> HIDE DEF d
<1>4. d.closing => Good(d)
  BY <1>3 DEF Timed, Still, Good
<1>5. wait => Good(w)
  BY <1>2, <1>3, WaitPhyTickGood DEF Timed, Still
<1>6. ~wait /\ ~d.closing => Good(r)
  <2>1. ASSUME ~wait, ~d.closing PROVE Good(r)
    <3>1. Kind(dev) # "waitPhy"
      BY <1>3, <2>1 DEF Timed, Still
    <3>2. Good(d)
      BY <1>2, <1>3, <3>1, TimedGood
    <3> QED
      BY <3>2, RunningTickGood
  <2> QED
    BY <2>1
<1>7. ~(d.closing /\ wait)
  OBVIOUS
<1> HIDE DEF w, r, wait
<1>8. \/ d.closing /\ u = d
      \/ wait /\ u = w
      \/ ~wait /\ ~d.closing /\ u = r
  BY <1>7
<1> HIDE DEF u
<1>9. Good(u)
  BY Zenon, <1>4, <1>5, <1>6, <1>8
<1>10. Good(dev') /\ faults' \in 0 .. MaxFaults /\ UNCHANGED <<regs, cable, calls>>
  BY <1>1, <1>9 DEF RunTimer, IInv
<1> QED
  BY <1>10 DEF IInv

LEMMA InterruptStatusStep ==
  ASSUME IInv, InterruptStatus
  PROVE  IInv'
<1> DEFINE up == PhyLink # "down"
           u == ProcessInterruptLinkStatus(dev, up)
<1>1. dev' = u
  BY DEF InterruptStatus
<1>2. Good(u)
  BY InterruptLinkGood DEF IInv
<1> HIDE DEF u
<1>3. Good(dev') /\ UNCHANGED <<regs, cable, faults, calls>>
  BY <1>1, <1>2 DEF InterruptStatus
<1> QED
  BY <1>3 DEF IInv

LEMMA CompletePipeStep ==
  ASSUME IInv, NEW pipe \in Pipes, CompletePipe(pipe)
  PROVE  IInv'
<1>1. PICK timeouts \in IF pipe = "transmit" /\ ~dev.pending THEN {0} ELSE {dev.timeouts} :
        dev' = [dev EXCEPT !.pipes = @ \ {pipe}, !.timeouts = timeouts]
  BY Zenon DEF CompletePipe
<1> DEFINE pipes == dev.pipes \ {pipe}
           p == [dev EXCEPT !.pipes = pipes]
           u == [p EXCEPT !.timeouts = timeouts]
<1>2. dev' = u
  BY Zenon, <1>1
<1>3. Good(dev) /\ Typed(dev)
  BY DEF IInv, Good, Steady, Base
<1>4. pipes \in SUBSET Pipes /\ pipes \subseteq dev.pipes
  <2>1. dev.pipes \subseteq Pipes
    BY <1>3, Fields
  <2> QED
    BY <2>1
<1>5. timeouts \in Nat
  <2>1. "timeouts" \in DOMAIN Types
    BY TypesOf
  <2>2. dev["timeouts"] \in Types["timeouts"]
    BY Zenon, <1>3, <2>1, FieldTyped
  <2>3. dev.timeouts \in Nat
    BY Zenon, <2>2, TypesOf
  <2> QED
    BY <1>1, <2>3
<1> HIDE DEF pipes
<1>6. Good(p)
  BY <1>3, <1>4, PipesGood
<1> HIDE DEF p
<1>7. Near(u, p)
  <2>1. "timeouts" \in DOMAIN Types \ Related /\ timeouts \in Types.timeouts
    BY <1>5, LooseFields, TypesOf
  <2>2. Typed(p)
    BY <1>6 DEF Good, Steady, Base
  <2> QED
    BY Zenon, <2>1, <2>2, NearTyped
<1> HIDE DEF u
<1>8. Good(u)
  BY <1>6, <1>7, NearSteady
<1>9. Good(dev') /\ UNCHANGED <<regs, cable, faults, calls>>
  BY <1>2, <1>8 DEF CompletePipe
<1> QED
  BY <1>9 DEF IInv

LEMMA TransportErrorStep ==
  ASSUME IInv, NEW pipe \in Pipes, NEW count \in 1 .. ResetDeviceErrors, NEW late \in BOOLEAN,
         TransportError(pipe, count, late)
  PROVE  IInv'
<1> DEFINE d == HandleTransportCompletion(dev, pipe, count, late)
           pipes == d.pipes \ {pipe}
           u == [d EXCEPT !.pipes = pipes]
<1>1. dev' = d \/ dev' = u
  BY Zenon DEF TransportError
<1>2. Good(dev) /\ Typed(dev) /\ count \in Nat
  BY DEF IInv, Good, Steady, Base
<1>3. Near(d, dev)
  BY <1>2, ErrorNear
<1> HIDE DEF d
<1>4. Good(d) /\ Typed(d)
  BY <1>2, <1>3, NearSteady, NearFields
<1>5. pipes \in SUBSET Pipes /\ pipes \subseteq d.pipes
  <2>1. d.pipes \subseteq Pipes
    BY <1>4, Fields
  <2> QED
    BY <2>1
<1> HIDE DEF pipes
<1>6. Good(u)
  BY <1>4, <1>5, PipesGood
<1> HIDE DEF u
<1>7. Good(dev') /\ faults' \in 0 .. MaxFaults /\ UNCHANGED <<regs, cable, calls>>
  BY <1>1, <1>4, <1>6 DEF TransportError, IInv
<1> QED
  BY <1>7 DEF IInv

LEMMA StaleReceiveStep ==
  ASSUME IInv, StaleReceive
  PROVE  IInv'
<1> DEFINE f == RequestFullReinitialize(dev)
           h == RequestHardReceiveRecovery(dev)
<1>1. dev' = f \/ dev' = dev \/ dev' = h
  BY Zenon DEF StaleReceive
<1>2. Good(dev) /\ Good(f) /\ Good(h)
  BY ReinitializeGood, HardRecoveryGood DEF IInv
<1> HIDE DEF f, h
<1>3. Good(dev') /\ faults' \in 0 .. MaxFaults /\ UNCHANGED <<regs, cable, calls>>
  BY <1>1, <1>2 DEF StaleReceive, IInv
<1> QED
  BY <1>3 DEF IInv

LEMMA TransmitStep ==
  ASSUME IInv, Transmit
  PROVE  IInv'
<1> DEFINE pipes == dev.pipes \cup {"transmit"}
           u == [dev EXCEPT !.pipes = pipes]
<1>1. dev' = u
  BY DEF Transmit
<1>2. Good(dev) /\ Typed(dev) /\ Kind(dev) = "complete" /\ ~dev.closing
  BY DEF IInv, Good, Steady, Base, Transmit, IsReady
<1>3. pipes \in SUBSET Pipes
  <2>1. dev.pipes \subseteq Pipes
    BY <1>2, Fields
  <2> QED
    BY <2>1 DEF Pipes
<1>4. ~dev.replay
  <2>1. dev.generation \in {"ax88179", "ax179a"} /\ dev.initStage = Complete(dev)
    BY <1>2, Fields, KindOf
  <2>2. Complete(dev) \in Nat
    BY <2>1, Table
  <2> QED
    BY <1>2, <2>1, <2>2 DEF Good, Steady, Placed
<1> HIDE DEF pipes
<1>5. Good(u)
  BY <1>2, <1>3, <1>4, PipesGood
<1> HIDE DEF u
<1>6. Good(dev') /\ UNCHANGED <<regs, cable, faults, calls>>
  BY <1>1, <1>5 DEF Transmit
<1> QED
  BY <1>6 DEF IInv

LEMMA ClockStep ==
  ASSUME IInv, DrainAges \/ GraceEnds \/ NegotiationEnds \/ CableChanges
  PROVE  IInv'
<1>1. Good(dev) /\ Typed(dev)
  BY DEF IInv, Good, Steady, Base
<1>2. CASE DrainAges
  <2> DEFINE u == [dev EXCEPT !.overdue = TRUE]
  <2>1. Near(u, dev)
    <3>1. "overdue" \in DOMAIN Types \ Related /\ TRUE \in Types.overdue
      BY LooseFields, TypesOf
    <3> QED
      BY Zenon, <1>1, <3>1, NearTyped
  <2>2. dev' = u
    BY <1>2 DEF DrainAges
  <2> HIDE DEF u
  <2>3. Good(dev') /\ UNCHANGED <<regs, cable, faults, calls>>
    BY <1>1, <1>2, <2>1, <2>2, NearSteady DEF DrainAges
  <2> QED
    BY <2>3 DEF IInv
<1>3. CASE GraceEnds
  <2> DEFINE u == [dev EXCEPT !.grace = FALSE]
  <2>1. Near(u, dev)
    <3>1. "grace" \in DOMAIN Types \ Related /\ FALSE \in Types.grace
      BY LooseFields, TypesOf
    <3> QED
      BY Zenon, <1>1, <3>1, NearTyped
  <2>2. dev' = u
    BY <1>3 DEF GraceEnds
  <2> HIDE DEF u
  <2>3. Good(dev') /\ UNCHANGED <<regs, cable, faults, calls>>
    BY <1>1, <1>3, <2>1, <2>2, NearSteady DEF GraceEnds
  <2> QED
    BY <2>3 DEF IInv
<1>4. CASE NegotiationEnds
  <2>1. Registered(regs')
    BY <1>4 DEF NegotiationEnds, IInv, Registered
  <2>2. UNCHANGED <<dev, cable, faults, calls>>
    BY <1>4 DEF NegotiationEnds
  <2> QED
    BY <2>1, <2>2 DEF IInv, Registered
<1>5. CASE CableChanges
  <2>1. /\ cable' \in Links /\ calls' \in 0 .. MaxCalls
        /\ UNCHANGED <<dev, regs, faults>>
    BY <1>5 DEF CableChanges, IInv
  <2> QED
    BY <2>1 DEF IInv
<1> QED
  BY <1>2, <1>3, <1>4, <1>5

LEMMA BeginUserPhyStep ==
  ASSUME IInv, NEW register \in Registers, NEW write \in BOOLEAN,
         BeginUserPhyTransfer(register, write)
  PROVE  IInv'
<1> DEFINE w == BeginPhy(dev, "phyWrite", register)
           r == BeginPhy(dev, "phyRead", register)
<1>1. dev' = w \/ dev' = r
  BY Zenon DEF BeginUserPhyTransfer, BeginWritePhy, BeginReadPhy
<1>2. register \in Nat
  BY DEF ControlAssumption
<1>3. Good(w) /\ Good(r)
  BY <1>2, BeginPhyGood DEF IInv
<1> HIDE DEF w, r
<1>4. Good(dev') /\ calls' \in 0 .. MaxCalls /\ UNCHANGED <<regs, cable, faults>>
  BY <1>1, <1>3 DEF BeginUserPhyTransfer, IInv
<1> QED
  BY <1>4 DEF IInv

LEMMA SetAddressStep ==
  ASSUME IInv, NEW address \in Addresses, NEW slot \in {"unicast", "alternate"},
         NicSetUnicastAddress(address, slot)
  PROVE  IInv'
<1> DEFINE d == [dev EXCEPT ![slot] = address]
           u == OnUnicastAddressChanged(d)
<1>1. dev' = u
  BY Zenon DEF NicSetUnicastAddress
<1>2. Near(d, dev)
  <2>1. slot \in DOMAIN Types \ Related /\ address \in Types[slot] /\ Typed(dev)
    BY LooseFields, TypesOf DEF IInv, Good, Steady, Base
  <2> QED
    BY Zenon, <2>1, NearTyped
<1> HIDE DEF d
<1>3. Good(u)
  BY <1>2, NearSteady, AddressChangedGood DEF IInv
<1> HIDE DEF u
<1>4. Good(dev') /\ calls' \in 0 .. MaxCalls /\ UNCHANGED <<regs, cable, faults>>
  BY <1>1, <1>3 DEF NicSetUnicastAddress, IInv
<1> QED
  BY <1>4 DEF IInv

LEMMA ChangeFilterStep ==
  ASSUME IInv, NEW filter \in Filters \cup {"none"}, ChangeReceiveFilter(filter)
  PROVE  IInv'
<1> DEFINE d == [dev EXCEPT !.filter = filter]
           u == UpdateReceiveFilter(d)
<1>1. dev' = u
  BY Zenon DEF ChangeReceiveFilter
<1>2. Near(d, dev)
  <2>1. "filter" \in DOMAIN Types \ Related /\ filter \in Types.filter /\ Typed(dev)
    BY LooseFields, TypesOf DEF IInv, Good, Steady, Base, FilterSet
  <2> QED
    BY Zenon, <2>1, NearTyped
<1> HIDE DEF d
<1>3. Good(u)
  BY <1>2, NearSteady, ReceiveFilterGood DEF IInv
<1> HIDE DEF u
<1>4. Good(dev') /\ calls' \in 0 .. MaxCalls /\ UNCHANGED <<regs, cable, faults>>
  BY <1>1, <1>3 DEF ChangeReceiveFilter, IInv
<1> QED
  BY <1>4 DEF IInv

LEMMA BeginCloseStep ==
  ASSUME IInv, BeginClose
  PROVE  IInv'
<1> DEFINE u == [dev EXCEPT !.closing = TRUE, !.timer = "none", !.linkState = "down"]
<1>1. dev' = u
  BY DEF BeginClose
<1>2. Good(u)
  BY ClosedGood DEF IInv
<1> HIDE DEF u
<1>3. Good(dev') /\ calls' \in 0 .. MaxCalls /\ UNCHANGED <<regs, cable, faults>>
  BY <1>1, <1>2 DEF BeginClose, IInv
<1> QED
  BY <1>3 DEF IInv

LEMMA InitIInv ==
  ASSUME Init
  PROVE  IInv
<1>1. PICK generation \in Generations, title \in Addresses \cup {NoAddress} :
        dev = AdvanceInitStage([Device EXCEPT !.generation = generation, !.title = title])
  BY Zenon DEF Init
<1> DEFINE u == [Device EXCEPT !.generation = generation, !.title = title]
<1>2. Steady(u)
  <2>1. {"generation", "title"} \subseteq DOMAIN Types
    BY Zenon, TypesOf
  <2>2. generation \in Types.generation /\ title \in Types.title
    BY TypesOf DEF Ax88179Assumption
  <2>3. Keeps(u, Device, {"generation", "title"})
    BY Zenon, <2>1, <2>2, DeviceTyped, Put2
  <2> HIDE DEF u
  <2>4. Keeps(u, Device, {"generation", "title", "usbReset"})
    BY <2>3, KeepsLess
  <2> QED
    BY <2>4, NewSteady
<1> HIDE DEF u
<1>3. Good(dev)
  BY <1>1, <1>2, AdvanceGood DEF u
<1>4. Registered(regs)
  BY DEF Init, Registered
<1> QED
  BY <1>3, <1>4 DEF Init, IInv, Registered

-----------------------------------------------------------------------------
(* The theorems.                                                             *)

(* The inductive invariant: a device whose init is not complete has, between *)
(* any two steps, a request that leads on, an armed timer, or a known reason *)
(* to wait; PHY flags, link reset and recovery agree with that request.      *)
THEOREM Invariant == Spec => []IInv
<1>1. Init => IInv
  BY InitIInv
<1>2. IInv /\ [Next]_vars => IInv'
  <2> SUFFICES ASSUME IInv, [Next]_vars
               PROVE  IInv'
    OBVIOUS
  <2>1. CASE SucceedRequest
    BY <2>1, SucceedRequestStep
  <2>2. CASE FailRequest
    BY <2>2, FailRequestStep
  <2>3. CASE TimerAdvance
    BY <2>3, TimerAdvanceStep
  <2>4. CASE \E tick \in Ticks : RunTimer(tick)
    BY <2>4, RunTimerStep
  <2>5. CASE InterruptStatus
    BY <2>5, InterruptStatusStep
  <2>6. CASE \E pipe \in Pipes : CompletePipe(pipe)
    BY <2>6, CompletePipeStep
  <2>7. CASE \E pipe \in Pipes, count \in 1 .. ResetDeviceErrors, late \in BOOLEAN :
               TransportError(pipe, count, late)
    BY <2>7, TransportErrorStep
  <2>8. CASE StaleReceive
    BY <2>8, StaleReceiveStep
  <2>9. CASE Transmit
    BY <2>9, TransmitStep
  <2>10. CASE DrainAges \/ GraceEnds \/ NegotiationEnds \/ CableChanges
    BY <2>10, ClockStep
  <2>11. CASE \E register \in Registers, write \in BOOLEAN : BeginUserPhyTransfer(register, write)
    BY <2>11, BeginUserPhyStep
  <2>12. CASE \E address \in Addresses, slot \in {"unicast", "alternate"} :
                NicSetUnicastAddress(address, slot)
    BY <2>12, SetAddressStep
  <2>13. CASE \E filter \in Filters \cup {"none"} : ChangeReceiveFilter(filter)
    BY <2>13, ChangeFilterStep
  <2>14. CASE BeginClose
    BY <2>14, BeginCloseStep
  <2>15. CASE BeginCompleteWritePhy
    BY <2>15, BeginCompleteWritePhyStep
  <2>16. CASE UNCHANGED vars
    BY <2>16 DEF vars, IInv
  <2> QED
    BY <2>1, <2>2, <2>3, <2>4, <2>5, <2>6, <2>7, <2>8, <2>9, <2>10, <2>11, <2>12, <2>13, <2>14,
       <2>15, <2>16 DEF Next
<1> QED
  BY <1>1, <1>2, PTL DEF Spec

(* The fields have their types, and a PHY flag or a link reset owns the      *)
(* outstanding request: no completion or failure leaves the PHY busy.        *)
THEOREM PhyFlagsCorrect == Spec => []PhyFlagsOwnRequest
<1>1. IInv => PhyFlagsOwnRequest
  <2> SUFFICES ASSUME IInv
               PROVE  PhyFlagsOwnRequest
    OBVIOUS
  <2>1. Good(dev) /\ Steady(dev) /\ Typed(dev) /\ Channel(dev)
    BY DEF IInv, Good, Steady, Base
  <2>2. TypeOK
    <3>1. dev.initStage \in 0 .. Complete(dev) + 1 /\ dev.linkReset \in 0 .. Len(LinkReset(dev))
      <4>1. /\ dev.initStage \in Nat /\ dev.linkReset \in Nat
            /\ dev.generation \in {"ax88179", "ax179a"}
            /\ Len(LinkReset(dev)) \in {5, 6}
        BY <2>1, Fields, LinkResetLength
      <4>2. Complete(dev) \in Nat
        BY <4>1, Table
      <4> QED
        BY <2>1, <4>1, <4>2 DEF Steady, Base
    <3>2. /\ dev.timer \in {"none", "advance", "running"} /\ dev.pipes \subseteq Pipes
          /\ dev.completedStage \in Nat
      BY <2>1, Fields
    <3>3. {"unicast", "alternate", "linkRetries", "retries", "interrupt", "linkState", "told",
           "level"} \subseteq DOMAIN Types
      BY LooseFields
    <3>4. /\ dev["unicast"] \in Types["unicast"] /\ dev["alternate"] \in Types["alternate"]
          /\ dev["linkRetries"] \in Types["linkRetries"] /\ dev["retries"] \in Types["retries"]
          /\ dev["interrupt"] \in Types["interrupt"]
          /\ dev["linkState"] \in Types["linkState"] /\ dev["told"] \in Types["told"]
          /\ dev["level"] \in Types["level"]
      BY <2>1, <3>3 DEF Typed
    <3>5. /\ dev.unicast \in Addresses \cup {NoAddress}
          /\ dev.alternate \in Addresses \cup {NoAddress}
          /\ dev.linkRetries \in 0 .. MaximumLinkResetRetries
          /\ dev.retries \in 0 .. PhyReadyMaximumRetries
          /\ dev.interrupt \in {"none", "down", "up"}
          /\ dev.linkState \in Links \cup {"10"} /\ dev.told \in Links \cup {"10"}
          /\ dev.level \in RecoveryIdle .. RecoveryResetDevice
      BY Zenon, <3>4, TypesOf
    <3> QED
      BY <3>1, <3>2, <3>5 DEF TypeOK, IInv
  <2>3. /\ dev.phyRead => Op(dev) = "readPhy" /\ ~dev.phyWrite
        /\ dev.phyWrite => Op(dev) = "writePhy"
        /\ dev.linkReset # 0 => Op(dev) = "linkReset"
    BY <2>1 DEF Channel, Steady
  <2> QED
    BY <2>2, <2>3 DEF PhyFlagsOwnRequest
<1> QED
  BY <1>1, Invariant, PTL

(* A replay of the init sequence starts with nothing in flight, and keeps    *)
(* reception and interrupt off until it reaches its own start of reception.  *)
THEOREM ReplayCorrect == Spec => []ReplayQuiescent
<1>1. IInv => ReplayQuiescent
  BY DEF IInv, Good, Steady, Base, ReplayQuiescent
<1> QED
  BY <1>1, Invariant, PTL

(* Init goes on, or is at one of the stages where it is known not to.        *)
THEOREM InitCorrect == Spec => []InitNeverStalls
<1>1. IInv => InitNeverStalls
  BY DEF IInv, Good, Leads, Waiting, InitNeverStalls, InitStalled, IsReady, Op, StageOps
<1> QED
  BY <1>1, Invariant, PTL
=============================================================================
