----------------------- MODULE Ax88178RecoveryProofs ------------------------
(***************************************************************************)
(* Proofs about the recovery of the AX88178, for every receive ring and    *)
(* every error threshold.                                                  *)
(***************************************************************************)
EXTENDS Ax88178Recovery, TLAPS

USE RecoveryAssumption
USE DEF RecoveryIdle, RecoveryResetPipe, RecoveryReinitialize, RecoveryResetDevice

-----------------------------------------------------------------------------
(* The inductive invariant, as a predicate on the device record, processor   *)
(* 2's position and its request, so that it can be followed through the      *)
(* helpers a handler is composed of.                                         *)

(* What the control request and the timer may be at each stage.              *)
Linked(d) ==
  ~d.closing =>
    /\ d.active <=> d.stage # "complete"
    /\ d.control = "init" => d.stage \in {"replay", "resume"}
    /\ d.stage \in {"replay", "resume"} => d.control \notin {"stop", "hash", "rxControl"}
    /\ d.timer = "advance" => d.stage = "replay"

Ring(d, q, p) ==
  /\ d.running /\ ~d.closing /\ ~d.trapped => d.inFlight \cup ({p} \ {NoPacket}) = RecvPackets
  /\ d.trapped => q = "receive" /\ d.control # "none"
  /\ ~d.trapped => p \notin d.inFlight

Alive(d, q) ==
  d.stage = "complete" /\ ~d.pending /\ ~d.closing /\ ~d.usbReset =>
    ~d.paused /\ (d.interrupt \/ q = "interrupt")

Quiescent(d) ==
  d.active => d.inFlight = {} /\ ~d.transmitting /\ (d.running => d.closing)

Good(d, q, p) ==
  d \in DeviceType /\ Linked(d) /\ Ring(d, q, p) /\ Alive(d, q) /\ Quiescent(d)

IInv == TypeOK /\ Good(dev, pc, packet)

-----------------------------------------------------------------------------
(* Frames: the fields of which the invariant speaks, in three groups.        *)

SameRing(e, d) ==
  /\ e.running = d.running /\ e.trapped = d.trapped
  /\ e.inFlight = d.inFlight /\ e.transmitting = d.transmitting

SameStage(e, d) ==
  /\ e.stage = d.stage /\ e.active = d.active /\ e.pending = d.pending
  /\ e.timer = d.timer

SameRest(e, d) ==
  /\ e.interrupt = d.interrupt /\ e.paused = d.paused /\ e.usbReset = d.usbReset
  /\ e.closing = d.closing /\ e.callback = d.callback

Same(e, d) ==
  SameRing(e, d) /\ SameStage(e, d) /\ SameRest(e, d) /\ e.control = d.control

LEMMA SameGood ==
  ASSUME NEW d, NEW q, NEW p, NEW e \in DeviceType, Good(d, q, p), Same(e, d)
  PROVE  Good(e, q, p)
  BY DEF Good, Linked, Ring, Alive, Quiescent, Same, SameRing, SameStage, SameRest

(* Only the control request changes, for one that fits the stage.            *)
LEMMA ControlGood ==
  ASSUME NEW d, NEW q, NEW p, NEW e \in DeviceType, Good(d, q, p),
         SameRing(e, d), SameStage(e, d), SameRest(e, d),
         ~d.closing => e.control # "init" \/ d.stage \in {"replay", "resume"},
         ~d.closing /\ d.stage \in {"replay", "resume"} =>
           e.control \notin {"stop", "hash", "rxControl"},
         d.trapped => e.control # "none"
  PROVE  Good(e, q, p)
  BY DEF Good, Linked, Ring, Alive, Quiescent, SameRing, SameStage, SameRest

-----------------------------------------------------------------------------
(* Errors of the pipes change counters and the level only.                   *)

LEMMA RaiseSame ==
  ASSUME NEW d \in DeviceType, NEW level \in 0 .. 3, NEW pipe \in Pipes
  PROVE  Raise(d, level, pipe) \in DeviceType /\ Same(Raise(d, level, pipe), d)
<1> DEFINE e == [d EXCEPT !.level = level, !.pipe = pipe]
<1>1. e \in DeviceType
  BY DEF DeviceType
<1>2. Same(e, d)
  BY DEF DeviceType, Same, SameRing, SameStage, SameRest
<1>3. Same(d, d)
  BY DEF Same, SameRing, SameStage, SameRest
<1> QED
  BY <1>1, <1>2, <1>3 DEF Raise

LEMMA BeginFilterGood ==
  ASSUME NEW d, NEW q, NEW p, Good(d, q, p), NEW submit \in BOOLEAN, NEW hash \in BOOLEAN,
         d.closing \/ d.stage \in {"start", "complete"}
  PROVE  /\ Good(BeginFilterUpdate(d, submit, hash), q, p)
         /\ SameRing(BeginFilterUpdate(d, submit, hash), d)
         /\ SameStage(BeginFilterUpdate(d, submit, hash), d)
         /\ SameRest(BeginFilterUpdate(d, submit, hash), d)
<1> DEFINE r == BeginFilterUpdate(d, submit, hash)
           s == d.submitRing \/ submit
           e == [d EXCEPT !.submitRing = s]
           op == IF hash THEN "hash" ELSE "rxControl"
<1>1. d \in DeviceType
  BY DEF Good
<1>2. s \in BOOLEAN /\ op \in {"hash", "rxControl"}
  OBVIOUS
<1>3. CASE d.closing
  <2>1. r = d
    BY <1>3 DEF BeginFilterUpdate, Free
  <2> QED
    BY <2>1 DEF SameRing, SameStage, SameRest
<1>4. CASE Free(d)
  <2>1. r = [d EXCEPT !.submitRing = s, !.control = op, !.filterPending = FALSE]
    BY <1>4 DEF BeginFilterUpdate, Free
  <2> HIDE DEF r, s, op
  <2>2. r \in DeviceType
    BY <1>1, <1>2, <2>1 DEF DeviceType
  <2>3. SameRing(r, d) /\ SameStage(r, d) /\ SameRest(r, d) /\ r.control = op
    BY <1>1, <1>2, <2>1 DEF DeviceType, SameRing, SameStage, SameRest
  <2>4. Good(r, q, p)
    BY <1>2, <1>4, <2>2, <2>3, ControlGood DEF Free
  <2> QED
    BY <2>3, <2>4 DEF r
<1>5. CASE ~d.closing /\ ~Free(d)
  <2>1. r = [d EXCEPT !.submitRing = s, !.filterPending = TRUE]
    BY <1>5 DEF BeginFilterUpdate
  <2> HIDE DEF r, s
  <2>2. r \in DeviceType
    BY <1>1, <1>2, <2>1 DEF DeviceType
  <2>3. Same(r, d)
    BY <1>1, <1>2, <2>1 DEF DeviceType, Same, SameRing, SameStage, SameRest
  <2> QED
    BY <2>2, <2>3, SameGood DEF r, Same
<1> QED
  BY <1>3, <1>4, <1>5

LEMMA TransportSame ==
  ASSUME NEW d \in DeviceType, NEW pipe \in Pipes, NEW status, NEW late \in BOOLEAN
  PROVE  /\ HandleTransportCompletion(d, pipe, status, late) \in DeviceType
         /\ Same(HandleTransportCompletion(d, pipe, status, late), d)
<1> DEFINE r == HandleTransportCompletion(d, pipe, status, late)
           count == IF late THEN 1 ELSE Least(d.errors[pipe] + 1, ResetDeviceErrors)
           counted == [d.errors EXCEPT ![pipe] = count]
           cleared == [d.errors EXCEPT ![pipe] = 0]
           e == [d EXCEPT !.errors = counted]
           c == [d EXCEPT !.errors = cleared]
<1>1. d.errors \in [Pipes -> 0 .. ResetDeviceErrors]
  BY DEF DeviceType
<1>2. count \in 0 .. ResetDeviceErrors
  BY <1>1 DEF Least
<1>3. LevelOf(count) \in 0 .. 3
  BY <1>2 DEF LevelOf
<1> HIDE DEF count
<1>4. counted \in [Pipes -> 0 .. ResetDeviceErrors] /\ cleared \in [Pipes -> 0 .. ResetDeviceErrors]
  BY <1>1, <1>2
<1> HIDE DEF counted, cleared
<1>5. /\ e \in DeviceType /\ Same(e, d)
      /\ c \in DeviceType /\ Same(c, d)
  <2>1. e \in DeviceType /\ c \in DeviceType
    BY <1>4 DEF DeviceType
  <2>2. Same(e, d)
    BY DEF DeviceType, Same, SameRing, SameStage, SameRest
  <2>3. Same(c, d)
    BY DEF DeviceType, Same, SameRing, SameStage, SameRest
  <2> QED
    BY <2>1, <2>2, <2>3
<1>6. Same(d, d)
  BY DEF Same, SameRing, SameStage, SameRest
<1>7. Raise(e, LevelOf(count), pipe) \in DeviceType /\ Same(Raise(e, LevelOf(count), pipe), d)
  <2> HIDE DEF e
  <2>1. Raise(e, LevelOf(count), pipe) \in DeviceType /\ Same(Raise(e, LevelOf(count), pipe), e)
    BY <1>3, <1>5, RaiseSame
  <2> QED
    BY <1>5, <2>1 DEF Same, SameRing, SameStage, SameRest
<1>8. r = d \/ r = c \/ r = Raise(e, LevelOf(count), pipe)
  BY DEF HandleTransportCompletion, count, counted, cleared
<1> HIDE DEF r, e, c
<1> QED
  BY <1>5, <1>6, <1>7, <1>8 DEF r

-----------------------------------------------------------------------------
(* The ring.                                                                 *)

(* Where no request is being processed and none was trapped, it can be       *)
(* submitted without a failed assertion.                                     *)
LEMMA SubmitReceiveFields ==
  ASSUME NEW d \in DeviceType
  PROVE  LET r == SubmitReceive(d)
         IN  /\ r \in DeviceType
             /\ SameStage(r, d) /\ SameRest(r, d) /\ r.control = d.control
             /\ r.running = d.running /\ r.transmitting = d.transmitting
             /\ d.closing => r = d
             /\ ~d.closing => r.inFlight = RecvPackets
             /\ r.trapped => d.trapped \/ (d.callback /\ ~d.closing /\ d.inFlight # RecvPackets)
             /\ d.trapped \/ (d.callback /\ ~d.closing /\ d.inFlight # RecvPackets) => r.trapped
<1> DEFINE r == SubmitReceive(d)
           trap == d.trapped \/ d.callback
<1>1. trap \in BOOLEAN
  OBVIOUS
<1>2. CASE d.closing \/ d.inFlight = RecvPackets
  BY <1>2 DEF SubmitReceive, SameStage, SameRest
<1>3. CASE ~(d.closing \/ d.inFlight = RecvPackets)
  <2>1. r = [d EXCEPT !.trapped = trap, !.inFlight = RecvPackets]
    BY <1>3 DEF SubmitReceive
  <2> HIDE DEF r, trap
  <2>2. r \in DeviceType
    BY <1>1, <2>1 DEF DeviceType
  <2>3. /\ SameStage(r, d) /\ SameRest(r, d) /\ r.control = d.control
        /\ r.running = d.running /\ r.transmitting = d.transmitting
        /\ r.inFlight = RecvPackets /\ r.trapped = trap
    BY <1>1, <2>1 DEF DeviceType, SameStage, SameRest
  <2> QED
    BY <1>3, <2>2, <2>3 DEF r, trap
<1> QED
  BY <1>2, <1>3

LEMMA RestartGood ==
  ASSUME NEW d, NEW q, NEW p, Good(d, q, p),
         d.callback = (q = "receive"), q # "receive" => p = NoPacket
  PROVE  /\ Good(RestartReceiving(d), q, p)
         /\ SameStage(RestartReceiving(d), d) /\ SameRest(RestartReceiving(d), d)
<1> DEFINE r == RestartReceiving(d)
<1>1. d \in DeviceType
  BY DEF Good
<1>2. CASE d.closing \/ ~d.running
  BY <1>2 DEF RestartReceiving, SameStage, SameRest
<1>3. CASE d.running /\ Free(d)
  <2>1. r = [d EXCEPT !.running = FALSE, !.control = "stop"]
    BY <1>3 DEF RestartReceiving, Free
  <2> HIDE DEF r
  <2>2. r \in DeviceType
    BY <1>1, <2>1 DEF DeviceType
  <2>3. /\ SameStage(r, d) /\ SameRest(r, d) /\ r.control = "stop" /\ ~r.running
        /\ r.trapped = d.trapped /\ r.inFlight = d.inFlight /\ r.transmitting = d.transmitting
    BY <1>1, <2>1 DEF DeviceType, SameStage, SameRest
  <2>4. Good(r, q, p)
    BY <1>3, <2>2, <2>3 DEF Good, Linked, Ring, Alive, Quiescent, SameStage, SameRest, Free
  <2> QED
    BY <2>3, <2>4 DEF r
<1>4. CASE d.running /\ ~d.closing /\ ~Free(d)
  <2>1. r = SubmitReceive(d) /\ d.control # "none"
    BY <1>4 DEF RestartReceiving, Free
  <2> HIDE DEF r
  <2>2. /\ r \in DeviceType
        /\ SameStage(r, d) /\ SameRest(r, d) /\ r.control = d.control
        /\ r.running = d.running /\ r.transmitting = d.transmitting
        /\ r.inFlight = RecvPackets
        /\ r.trapped => d.trapped \/ (d.callback /\ d.inFlight # RecvPackets)
        /\ d.trapped \/ (d.callback /\ d.inFlight # RecvPackets) => r.trapped
    BY <1>1, <1>4, <2>1, SubmitReceiveFields
  <2>3. Linked(r) /\ Alive(r, q) /\ Quiescent(r)
    BY <1>4, <2>2 DEF Good, Linked, Alive, Quiescent, SameStage, SameRest
  <2>4. Ring(r, q, p)
    <3>1. r.trapped => q = "receive" /\ r.control # "none"
      BY <2>1, <2>2 DEF Good, Ring
    <3>2. ~r.trapped => p \notin r.inFlight
      BY <1>4, <2>2 DEF Good, Ring
    <3>3. r.inFlight \cup ({p} \ {NoPacket}) = RecvPackets \/ r.trapped
      BY <1>4, <2>2 DEF Good, Ring
    <3> QED
      BY <3>1, <3>2, <3>3 DEF Ring
  <2> QED
    BY <2>2, <2>3, <2>4 DEF Good, r
<1> QED
  BY <1>2, <1>3, <1>4
-----------------------------------------------------------------------------
(* Recovery.                                                                 *)

(* A full reinitialization begins its drain.                                 *)
LEMMA RequestGood ==
  ASSUME NEW d, NEW q, NEW p, Good(d, q, p)
  PROVE  /\ Good(RequestFullReinitialize(d), q, p)
         /\ RequestFullReinitialize(d).closing = d.closing
         /\ RequestFullReinitialize(d).timer = d.timer
<1> DEFINE r == RequestFullReinitialize(d)
<1>1. d \in DeviceType
  BY DEF Good
<1>2. CASE d.closing \/ d.stage # "complete" \/ d.pending \/ d.active
  BY <1>2 DEF RequestFullReinitialize
<1>3. CASE ~(d.closing \/ d.stage # "complete" \/ d.pending \/ d.active)
  <2>1. r = [d EXCEPT !.pending = TRUE, !.running = FALSE, !.paused = TRUE]
    BY <1>3 DEF RequestFullReinitialize, PauseInterruptLinkStatus
  <2> HIDE DEF r
  <2>2. r \in DeviceType
    BY <1>1, <2>1 DEF DeviceType
  <2>3. /\ r.pending /\ ~r.running /\ r.trapped = d.trapped /\ r.inFlight = d.inFlight
        /\ r.transmitting = d.transmitting /\ r.closing = d.closing /\ r.timer = d.timer
        /\ r.stage = d.stage /\ r.active = d.active /\ r.control = d.control
    BY <1>1, <2>1 DEF DeviceType
  <2>4. Good(r, q, p)
    BY <2>2, <2>3 DEF Good, Linked, Ring, Alive, Quiescent
  <2> QED
    BY <2>3, <2>4 DEF r
<1> QED
  BY <1>2, <1>3

LEMMA RecoverGood ==
  ASSUME NEW d, NEW q, NEW p, Good(d, q, p),
         d.callback = (q = "receive"), q # "receive" => p = NoPacket
  PROVE  /\ Good(Recover(d), q, p)
         /\ Recover(d).closing = d.closing /\ Recover(d).timer = d.timer
         /\ Recover(d).callback = d.callback
<1> DEFINE r == Recover(d)
           e == [d EXCEPT !.level = RecoveryIdle]
<1>1. d \in DeviceType
  BY DEF Good
<1>2. e \in DeviceType /\ Same(e, d)
  <2>1. e \in DeviceType
    BY <1>1 DEF DeviceType
  <2>2. Same(e, d)
    BY <1>1 DEF DeviceType, Same, SameRing, SameStage, SameRest
  <2> QED
    BY <2>1, <2>2
<1>3. \/ r = d
      \/ r = e
      \/ r = RestartReceiving(e)
      \/ r = RequestFullReinitialize(e)
      \/ r = [PauseInterruptLinkStatus(e) EXCEPT !.running = FALSE, !.usbReset = TRUE]
  BY DEF Recover
<1> HIDE DEF r, e
<1>4. Good(e, q, p) /\ e.closing = d.closing /\ e.timer = d.timer /\ e.callback = d.callback
  BY <1>2, SameGood DEF Same, SameStage, SameRest
<1>5. CASE r = RestartReceiving(e)
  <2>1. /\ Good(RestartReceiving(e), q, p)
        /\ SameStage(RestartReceiving(e), e) /\ SameRest(RestartReceiving(e), e)
    BY <1>4, RestartGood
  <2> QED
    BY <1>4, <1>5, <2>1 DEF r, SameStage, SameRest
<1>6. CASE r = RequestFullReinitialize(e)
  <2>1. /\ Good(r, q, p) /\ r.closing = e.closing /\ r.timer = e.timer
    BY <1>4, <1>6, RequestGood
  <2>2. r.callback = e.callback
    BY <1>2, <1>6 DEF RequestFullReinitialize, PauseInterruptLinkStatus, DeviceType
  <2> QED
    BY <1>4, <2>1, <2>2 DEF r
<1>7. CASE r = [PauseInterruptLinkStatus(e) EXCEPT !.running = FALSE, !.usbReset = TRUE]
  <2>1. r = [e EXCEPT !.paused = TRUE, !.running = FALSE, !.usbReset = TRUE]
    BY <1>7 DEF PauseInterruptLinkStatus
  <2>2. r \in DeviceType
    BY <1>2, <2>1 DEF DeviceType
  <2>3. /\ r.usbReset /\ ~r.running /\ r.trapped = e.trapped /\ r.inFlight = e.inFlight
        /\ r.transmitting = e.transmitting /\ r.closing = e.closing /\ r.timer = e.timer
        /\ r.stage = e.stage /\ r.active = e.active /\ r.control = e.control
        /\ r.callback = e.callback
    BY <1>2, <2>1 DEF DeviceType
  <2>4. Good(r, q, p)
    BY <1>4, <2>2, <2>3 DEF Good, Linked, Ring, Alive, Quiescent
  <2> QED
    BY <1>4, <2>3, <2>4 DEF r
<1> QED
  BY <1>3, <1>4, <1>5, <1>6, <1>7 DEF r

(* A drained device begins its replay.                                       *)
LEMMA ReplayGood ==
  ASSUME NEW d, NEW q, NEW p, Good(d, q, p), Drained(d), d.timer # "advance"
  PROVE  /\ Good(BeginReplay(d), q, p)
         /\ BeginReplay(d).stage = "replay"
         /\ BeginReplay(d).callback = d.callback
<1> DEFINE r == BeginReplay(d)
           none == [pipe \in Pipes |-> 0]
<1>1. d \in DeviceType
  BY DEF Good
<1>2. none \in [Pipes -> 0 .. ResetDeviceErrors]
  OBVIOUS
<1>3. r = [d EXCEPT !.pending = FALSE, !.active = TRUE, !.stage = "replay", !.control = "init",
                    !.running = FALSE, !.received = FALSE, !.restarted = FALSE,
                    !.filterPending = FALSE, !.submitRing = FALSE,
                    !.errors = none, !.txTimeouts = 0, !.level = RecoveryIdle]
  BY DEF BeginReplay
<1> HIDE DEF r, none
<1>4. r \in DeviceType
  <2>1. RecoveryIdle \in RecoveryIdle .. RecoveryResetDevice /\ 0 \in 0 .. ResetDeviceErrors
    OBVIOUS
  <2> DEFINE half == [d EXCEPT !.pending = FALSE, !.active = TRUE, !.stage = "replay",
                               !.control = "init", !.running = FALSE, !.received = FALSE]
  <2>2. half \in DeviceType
    BY <1>1 DEF DeviceType
  <2>3. r = [half EXCEPT !.restarted = FALSE, !.filterPending = FALSE, !.submitRing = FALSE,
                         !.errors = none, !.txTimeouts = 0, !.level = RecoveryIdle]
    BY <1>3
  <2> HIDE DEF half
  <2> QED
    BY <1>2, <2>1, <2>2, <2>3 DEF DeviceType
<1>5. /\ r.active /\ r.stage = "replay" /\ r.control = "init" /\ ~r.running
      /\ r.trapped = d.trapped /\ r.inFlight = d.inFlight /\ r.transmitting = d.transmitting
      /\ r.callback = d.callback /\ r.timer = d.timer /\ r.closing = d.closing
  BY <1>1, <1>2, <1>3 DEF DeviceType
<1>6. Good(r, q, p)
  BY <1>4, <1>5 DEF Good, Linked, Ring, Alive, Quiescent, Drained
<1> QED
  BY <1>5, <1>6 DEF r

LEMMA RecoveryGood ==
  ASSUME NEW d, NEW q, NEW p, Good(d, q, p), d.timer # "advance",
         d.callback = (q = "receive"), q # "receive" => p = NoPacket
  PROVE  /\ Good(ProcessRecovery(d), q, p)
         /\ ProcessRecovery(d).callback = d.callback
         /\ ProcessRecovery(d).stage # "complete" \/ ProcessRecovery(d) = Recover(d)
<1> DEFINE e == Recover(d)
<1>1. Good(e, q, p) /\ e.timer = d.timer /\ e.callback = d.callback
  BY RecoverGood
<1> HIDE DEF e
<1>2. CASE e.pending /\ Drained(e)
  BY <1>1, <1>2, ReplayGood DEF ProcessRecovery, e
<1>3. CASE ~(e.pending /\ Drained(e))
  BY <1>1, <1>3 DEF ProcessRecovery, e
<1> QED
  BY <1>2, <1>3

(* The replay ends: the interrupt is with USB again.                         *)
LEMMA ReadyGood ==
  ASSUME NEW d \in DeviceType, Ring(d, "idle", NoPacket), ~d.closing, d.control = "none"
  PROVE  /\ Good(InitReady(d), "idle", NoPacket)
         /\ InitReady(d).callback = d.callback
<1> DEFINE r == InitReady(d)
           begun == [d EXCEPT !.stage = "complete", !.active = FALSE, !.timer = "running"]
<1>1. begun \in DeviceType /\ begun.closing = d.closing
  BY DEF DeviceType
<1>2. begun.interrupt \in BOOLEAN /\ (begun.interrupt \/ ~begun.closing)
  BY <1>1 DEF DeviceType
<1>3. r = [begun EXCEPT !.paused = FALSE, !.interrupt = begun.interrupt \/ ~begun.closing]
  BY DEF InitReady, StartInterruptLinkStatus
<1>4. r = [d EXCEPT !.stage = "complete", !.active = FALSE, !.timer = "running",
                    !.paused = FALSE, !.interrupt = TRUE]
  <2>1. (begun.interrupt \/ ~begun.closing) = TRUE
    BY <1>2
  <2> QED
    BY <1>3, <2>1
<1> HIDE DEF r, begun
<1>5. r \in DeviceType
  BY <1>4 DEF DeviceType
<1>6. /\ SameRing(r, d) /\ r.stage = "complete" /\ ~r.active /\ r.timer = "running"
      /\ ~r.paused /\ r.interrupt /\ r.control = d.control /\ r.closing = d.closing
      /\ r.callback = d.callback
  BY <1>4 DEF DeviceType, SameRing
<1>7. Good(r, "idle", NoPacket)
  BY <1>5, <1>6 DEF Good, Linked, Ring, Alive, Quiescent, SameRing
<1> QED
  BY <1>6, <1>7 DEF r
-----------------------------------------------------------------------------
(* Processor 2.  The bounded counters are apart.                             *)

LEMMA FaultTyped ==
  ASSUME NEW happens \in BOOLEAN, faults \in 0 .. MaxFaults, Fault(happens)
  PROVE  faults' \in 0 .. MaxFaults
<1>1. CASE happens
  BY <1>1 DEF Fault
<1>2. CASE ~happens
  BY <1>2 DEF Fault
<1> QED
  BY <1>1, <1>2

LEMMA Restored ==
  ASSUME Good(dev', pc', packet'), pc' \in {"idle", "receive", "interrupt"},
         dev'.callback = (pc' = "receive"),
         packet' \in IF pc' = "receive" THEN RecvPackets ELSE {NoPacket},
         faults' \in 0 .. MaxFaults, calls' \in 0 .. MaxCalls
  PROVE  IInv'
<1>1. dev' \in DeviceType
  BY DEF Good
<1> QED
  BY <1>1 DEF IInv, TypeOK

LEMMA RestoredIdle ==
  ASSUME Good(dev', "idle", NoPacket), ~dev'.callback, pc' = "idle", packet' = NoPacket,
         faults' \in 0 .. MaxFaults, calls' \in 0 .. MaxCalls
  PROVE  IInv'
<1>1. dev'.callback \in BOOLEAN
  BY DEF Good, DeviceType
<1>2. dev'.callback = (pc' = "receive")
  BY <1>1
<1>3. Good(dev', pc', packet')
  OBVIOUS
<1> QED
  BY <1>2, <1>3, Restored

(* A request that has been processed goes back to USB.                       *)
LEMMA EndReceiveGood ==
  ASSUME NEW d, NEW p \in RecvPackets, Good(d, "receive", p), ~d.trapped, ~d.callback
  PROVE  /\ Good(EndReceive(d, p), "idle", NoPacket)
         /\ EndReceive(d, p).callback = d.callback
<1> DEFINE r == EndReceive(d, p)
           ring == d.inFlight \cup {p}
           trap == d.trapped \/ d.callback \/ p \in d.inFlight
<1>1. d \in DeviceType
  BY DEF Good
<1>2. p \notin d.inFlight
  BY DEF Good, Ring
<1>3. CASE ~(d.running /\ ~d.closing)
  <2>1. r = d
    BY <1>3 DEF EndReceive
  <2>2. NoPacket \notin d.inFlight
    BY <1>1 DEF DeviceType
  <2> QED
    BY <1>3, <2>1, <2>2 DEF Good, Linked, Ring, Alive, Quiescent
<1>4. CASE d.running /\ ~d.closing
  <2>1. r = [d EXCEPT !.trapped = trap, !.inFlight = ring]
    BY <1>4 DEF EndReceive, SubmitReceivePacket
  <2>2. trap = FALSE /\ ring \in SUBSET RecvPackets /\ ring = RecvPackets
    <3>1. d.inFlight \in SUBSET RecvPackets
      BY <1>1 DEF DeviceType
    <3>2. d.inFlight \cup ({p} \ {NoPacket}) = RecvPackets
      BY <1>4 DEF Good, Ring
    <3> QED
      BY <1>2, <3>1, <3>2
  <2> HIDE DEF r, ring, trap
  <2>3. r = [d EXCEPT !.trapped = FALSE, !.inFlight = ring]
    BY <2>1, <2>2
  <2>4. r \in DeviceType
    BY <1>1, <2>2, <2>3 DEF DeviceType
  <2>5. /\ SameStage(r, d) /\ SameRest(r, d) /\ r.control = d.control
        /\ r.running = d.running /\ ~r.trapped /\ r.inFlight = RecvPackets
        /\ r.transmitting = d.transmitting
    BY <1>1, <2>2, <2>3 DEF DeviceType, SameStage, SameRest
  <2>6. Linked(r) /\ Alive(r, "idle") /\ Quiescent(r)
    BY <1>4, <2>5 DEF Good, Linked, Alive, Quiescent, SameStage, SameRest
  <2>7. Ring(r, "idle", NoPacket)
    BY <2>5 DEF Ring
  <2> QED
    BY <2>4, <2>5, <2>6, <2>7 DEF Good, r, SameRest
<1> QED
  BY <1>3, <1>4

LEMMA CompleteReceiveStep ==
  ASSUME IInv, ~dev.trapped,
         NEW p \in RecvPackets, NEW status \in Statuses, NEW late \in BOOLEAN,
         CompleteReceive(p, status, late)
  PROVE  IInv'
<1> DEFINE taken == [dev EXCEPT !.inFlight = dev.inFlight \ {p}]
           d == HandleTransportCompletion(taken, "receive", status, late)
<1>1. /\ dev \in DeviceType /\ Good(dev, "idle", NoPacket) /\ pc = "idle" /\ packet = NoPacket
      /\ p \in dev.inFlight /\ ~dev.callback
  BY DEF IInv, TypeOK, CompleteReceive
<1>2. dev.inFlight \ {p} \in SUBSET RecvPackets
  BY <1>1 DEF DeviceType
<1>3. Good(taken, "receive", p) /\ ~taken.trapped /\ ~taken.callback
  <2> DEFINE rest == dev.inFlight \ {p}
             e == [dev EXCEPT !.inFlight = rest]
  <2>1. e = taken
    OBVIOUS
  <2> HIDE DEF taken
  <2> SUFFICES Good(e, "receive", p) /\ ~e.trapped /\ ~e.callback
    BY <2>1
  <2> HIDE DEF rest
  <2>2. e \in DeviceType
    BY <1>1, <1>2 DEF DeviceType, rest
  <2>3. /\ SameStage(e, dev) /\ SameRest(e, dev) /\ e.control = dev.control
        /\ e.running = dev.running /\ e.trapped = dev.trapped /\ e.inFlight = rest
        /\ e.transmitting = dev.transmitting
    BY <1>1, <1>2 DEF DeviceType, SameStage, SameRest
  <2> HIDE DEF e
  <2>4. Linked(e) /\ Alive(e, "receive")
    BY <1>1, <2>3 DEF Good, Linked, Alive, SameStage, SameRest
  <2>5. Quiescent(e)
    BY <1>1, <2>3 DEF Good, Quiescent, SameStage, SameRest
  <2>6. Ring(e, "receive", p)
    <3>1. ~e.trapped /\ p \notin e.inFlight
      BY <2>3 DEF rest
    <3>2. e.running /\ ~e.closing => e.inFlight \cup ({p} \ {NoPacket}) = RecvPackets
      <4> SUFFICES ASSUME e.running, ~e.closing
                   PROVE  e.inFlight \cup ({p} \ {NoPacket}) = RecvPackets
        OBVIOUS
      <4>1. dev.inFlight = RecvPackets
        BY <1>1, <2>3 DEF Good, Ring, SameRest
      <4> QED
        BY <2>3, <4>1 DEF rest
    <3> QED
      BY <3>1, <3>2 DEF Ring
  <2> QED
    BY <1>1, <2>2, <2>3, <2>4, <2>5, <2>6 DEF Good, SameRest
<1> HIDE DEF taken
<1>4. d \in DeviceType /\ Good(d, "receive", p) /\ ~d.trapped /\ ~d.callback
  <2>1. taken \in DeviceType /\ "receive" \in Pipes
    BY <1>3 DEF Good, Pipes
  <2>2. d \in DeviceType /\ Same(d, taken)
    BY <2>1, TransportSame
  <2> HIDE DEF d
  <2> QED
    BY <1>3, <2>2, SameGood DEF Same, SameRing, SameRest
<1>5. faults' \in 0 .. MaxFaults /\ calls' \in 0 .. MaxCalls
  <2>1. Fault(status = "error") /\ faults \in 0 .. MaxFaults /\ calls \in 0 .. MaxCalls /\ calls' = calls
    BY DEF IInv, TypeOK, CompleteReceive
  <2> QED
    BY <2>1, FaultTyped
<1>6. \/ /\ dev' = [d EXCEPT !.received = TRUE, !.callback = TRUE]
         /\ pc' = "receive" /\ packet' = p
      \/ /\ \E received \in BOOLEAN : dev' = EndReceive([d EXCEPT !.received = received], p)
         /\ pc' = pc /\ packet' = packet
  <2>1. d.received \in BOOLEAN
    BY <1>4 DEF DeviceType
  <2>2. {d.received, status = "success" \/ d.received} \subseteq BOOLEAN
    BY <2>1
  <2> QED
    BY <2>2 DEF CompleteReceive, taken
<1> HIDE DEF d
<1>7. CASE /\ dev' = [d EXCEPT !.received = TRUE, !.callback = TRUE]
           /\ pc' = "receive" /\ packet' = p
  <2> DEFINE e == [d EXCEPT !.received = TRUE, !.callback = TRUE]
  <2>1. e \in DeviceType
    BY <1>4 DEF DeviceType
  <2>2. /\ SameRing(e, d) /\ SameStage(e, d) /\ e.control = d.control
        /\ e.interrupt = d.interrupt /\ e.paused = d.paused /\ e.usbReset = d.usbReset
        /\ e.closing = d.closing /\ e.callback
    BY <1>4 DEF DeviceType, SameRing, SameStage
  <2> HIDE DEF e
  <2>3. Good(e, "receive", p)
    BY <1>4, <2>1, <2>2 DEF Good, Linked, Ring, Alive, Quiescent, SameRing, SameStage
  <2>4. dev' = e /\ pc' = "receive" /\ packet' = p
    BY <1>7 DEF e
  <2> QED
    BY <1>5, <2>2, <2>3, <2>4, Restored
<1>8. CASE /\ \E received \in BOOLEAN : dev' = EndReceive([d EXCEPT !.received = received], p)
           /\ pc' = pc /\ packet' = packet
  <2>1. PICK received \in BOOLEAN : dev' = EndReceive([d EXCEPT !.received = received], p)
    BY <1>8
  <2> DEFINE e == [d EXCEPT !.received = received]
  <2>2. e \in DeviceType
    BY <1>4 DEF DeviceType
  <2>3. Same(e, d)
    BY <1>4 DEF DeviceType, Same, SameRing, SameStage, SameRest
  <2> HIDE DEF e
  <2>4. Good(e, "receive", p) /\ ~e.trapped /\ ~e.callback
    BY <1>4, <2>2, <2>3, SameGood DEF Same, SameRing, SameRest
  <2>5. Good(dev', "idle", NoPacket) /\ ~dev'.callback
    BY <2>1, <2>4, EndReceiveGood DEF e
  <2>6. pc' = "idle" /\ packet' = NoPacket
    BY <1>1, <1>8
  <2> QED
    BY <1>5, <2>5, <2>6, RestoredIdle
<1> QED
  BY <1>6, <1>7, <1>8
LEMMA RestoredSame ==
  ASSUME IInv, Good(dev', pc, packet), dev'.callback = dev.callback,
         pc' = pc, packet' = packet,
         faults' \in 0 .. MaxFaults, calls' \in 0 .. MaxCalls
  PROVE  IInv'
<1>1. Good(dev', pc', packet')
  OBVIOUS
<1>2. /\ pc \in {"idle", "receive", "interrupt"}
      /\ dev.callback = (pc = "receive")
      /\ packet \in IF pc = "receive" THEN RecvPackets ELSE {NoPacket}
  BY DEF IInv, TypeOK
<1> QED
  BY <1>1, <1>2, Restored

LEMMA EndCallbacksStep ==
  ASSUME IInv, ~dev.trapped, EndCallbacks
  PROVE  IInv'
<1> DEFINE d == [dev EXCEPT !.callback = FALSE]
<1>1. dev \in DeviceType /\ pc = "receive" /\ packet \in RecvPackets /\ Good(dev, "receive", packet)
  BY DEF IInv, TypeOK, EndCallbacks
<1>2. d \in DeviceType
  BY <1>1 DEF DeviceType
<1>3. /\ SameRing(d, dev) /\ SameStage(d, dev) /\ d.control = dev.control
      /\ d.interrupt = dev.interrupt /\ d.paused = dev.paused /\ d.usbReset = dev.usbReset
      /\ d.closing = dev.closing /\ ~d.callback
  BY <1>1 DEF DeviceType, SameRing, SameStage
<1>4. dev' = EndReceive(d, packet) /\ pc' = "idle" /\ packet' = NoPacket
  BY DEF EndCallbacks
<1> HIDE DEF d
<1>5. Good(d, "receive", packet) /\ ~d.trapped
  BY <1>1, <1>2, <1>3 DEF Good, Linked, Ring, Alive, Quiescent, SameRing, SameStage
<1>6. Good(dev', "idle", NoPacket) /\ ~dev'.callback
  BY <1>1, <1>3, <1>4, <1>5, EndReceiveGood
<1>7. faults' \in 0 .. MaxFaults /\ calls' \in 0 .. MaxCalls
  BY DEF IInv, TypeOK, EndCallbacks
<1> QED
  BY <1>4, <1>6, <1>7, RestoredIdle

(* Whoever finds the transfer paused leaves it; else it is resubmitted.      *)
LEMMA CompleteInterruptStep ==
  ASSUME IInv, ~dev.trapped,
         NEW status \in Statuses, NEW changed \in BOOLEAN, NEW late \in BOOLEAN,
         CompleteInterruptLinkStatus(status, changed, late)
  PROVE  IInv'
<1> DEFINE d == [dev EXCEPT !.interrupt = FALSE]
           e == IF changed THEN ProcessInterruptLinkStatus(d) ELSE d
           q == IF dev.paused \/ dev.closing THEN "idle" ELSE "interrupt"
           op == IF Free(d) THEN "phy" ELSE d.control
           seen == d.disturbed \/ d.stage # "complete"
<1>1. /\ dev \in DeviceType /\ Good(dev, "idle", NoPacket) /\ ~dev.callback
      /\ packet = NoPacket
  BY DEF IInv, TypeOK, CompleteInterruptLinkStatus
<1>2. d \in DeviceType
  BY <1>1 DEF DeviceType
<1>3. /\ SameRing(d, dev) /\ SameStage(d, dev) /\ d.control = dev.control
      /\ d.paused = dev.paused /\ d.usbReset = dev.usbReset
      /\ d.closing = dev.closing /\ d.callback = dev.callback
  BY <1>1 DEF DeviceType, SameRing, SameStage
<1>4. dev' = HandleTransportCompletion(e, "interrupt", status, late) /\ pc' = q /\ packet' = NoPacket
  BY <1>1 DEF CompleteInterruptLinkStatus
<1>5. e = d \/ e = [d EXCEPT !.control = op, !.disturbed = seen]
  BY DEF ProcessInterruptLinkStatus
<1>6. /\ op = d.control \/ (op = "phy" /\ d.control = "none")
      /\ seen \in BOOLEAN
  BY <1>2 DEF Free, DeviceType
<1> HIDE DEF d, e, op, seen
<1>7. /\ e \in DeviceType
      /\ SameRing(e, d) /\ SameStage(e, d) /\ SameRest(e, d)
      /\ e.control = d.control \/ (e.control = "phy" /\ d.control = "none")
  <2>1. CASE e = d
    BY <1>2, <2>1 DEF SameRing, SameStage, SameRest
  <2>2. CASE e = [d EXCEPT !.control = op, !.disturbed = seen]
    <3>1. op \in {"none", "stop", "hash", "rxControl", "phy", "init"}
      BY <1>2, <1>6 DEF DeviceType
    <3>2. e \in DeviceType
      BY <1>2, <1>6, <2>2, <3>1 DEF DeviceType
    <3>3. SameRing(e, d) /\ SameStage(e, d) /\ SameRest(e, d) /\ e.control = op
      BY <1>2, <1>6, <2>2 DEF DeviceType, SameRing, SameStage, SameRest
    <3> QED
      BY <1>6, <3>2, <3>3
  <2> QED
    BY <1>5, <2>1, <2>2
<1>8. Good(e, q, NoPacket) /\ ~e.callback
  <2>1. ~e.trapped /\ ~e.callback
    BY <1>1, <1>3, <1>7 DEF SameRing, SameRest
  <2>2. Linked(e)
    BY <1>1, <1>3, <1>7 DEF Good, Linked, SameStage, SameRest
  <2>3. Ring(e, q, NoPacket)
    BY <1>1, <1>3, <1>7, <2>1 DEF Good, Ring, SameRing, SameRest
  <2>4. Alive(e, q)
    BY <1>1, <1>3, <1>7 DEF Good, Alive, SameStage, SameRest
  <2>5. Quiescent(e)
    BY <1>1, <1>3, <1>7 DEF Good, Quiescent, SameRing, SameStage, SameRest
  <2> QED
    BY <1>7, <2>1, <2>2, <2>3, <2>4, <2>5 DEF Good
<1>9. Good(dev', q, NoPacket) /\ ~dev'.callback
  <2>1. dev' \in DeviceType /\ Same(dev', e)
    BY <1>4, <1>7, TransportSame DEF Pipes
  <2> QED
    BY <1>8, <2>1, SameGood DEF Same, SameRest
<1>10. faults' \in 0 .. MaxFaults /\ calls' \in 0 .. MaxCalls
  <2>1. Fault(status = "error") /\ faults \in 0 .. MaxFaults /\ calls \in 0 .. MaxCalls
    BY DEF IInv, TypeOK, CompleteInterruptLinkStatus
  <2>2. calls' = calls \/ (calls < MaxCalls /\ calls' = calls + 1)
    BY DEF CompleteInterruptLinkStatus
  <2>3. calls' \in 0 .. MaxCalls
    BY <2>1, <2>2
  <2> QED
    BY <2>1, <2>3, FaultTyped
<1>11. q \in {"idle", "interrupt"}
  OBVIOUS
<1> HIDE DEF q
<1>12. dev'.callback = (pc' = "receive")
  <2>1. dev'.callback \in BOOLEAN
    BY <1>9 DEF Good, DeviceType
  <2>2. pc' # "receive"
    BY <1>4, <1>11
  <2> QED
    BY <1>9, <2>1, <2>2
<1>13. Good(dev', pc', packet')
  BY <1>4, <1>9
<1> QED
  BY <1>4, <1>10, <1>11, <1>12, <1>13, Restored

LEMMA ResubmitInterruptStep ==
  ASSUME IInv, ~dev.trapped, ResubmitInterrupt
  PROVE  IInv'
<1> DEFINE on == dev.interrupt \/ ~dev.closing
           r == [dev EXCEPT !.paused = FALSE, !.interrupt = on]
<1>1. /\ dev \in DeviceType /\ Good(dev, "interrupt", NoPacket) /\ ~dev.callback
      /\ packet = NoPacket /\ on \in BOOLEAN
  BY DEF IInv, TypeOK, ResubmitInterrupt
<1>2. dev' = r /\ pc' = "idle" /\ packet' = NoPacket
  BY <1>1 DEF ResubmitInterrupt, StartInterruptLinkStatus
<1> HIDE DEF on
<1>3. r \in DeviceType
  BY <1>1 DEF DeviceType
<1>4. /\ SameRing(r, dev) /\ SameStage(r, dev) /\ r.control = dev.control
      /\ ~r.paused /\ r.interrupt = on /\ r.usbReset = dev.usbReset
      /\ r.closing = dev.closing /\ r.callback = dev.callback
  BY <1>1 DEF DeviceType, SameRing, SameStage
<1> HIDE DEF r
<1>5. Good(r, "idle", NoPacket)
  BY <1>1, <1>3, <1>4 DEF on, Good, Linked, Ring, Alive, Quiescent, SameRing, SameStage
<1>6. faults' \in 0 .. MaxFaults /\ calls' \in 0 .. MaxCalls
  BY DEF IInv, TypeOK, ResubmitInterrupt
<1> QED
  BY <1>1, <1>2, <1>4, <1>5, <1>6, RestoredIdle

LEMMA CompleteTransmitStep ==
  ASSUME IInv, ~dev.trapped,
         NEW status \in Statuses, NEW last \in BOOLEAN, NEW late \in BOOLEAN,
         CompleteTransmit(status, last, late)
  PROVE  IInv'
<1> DEFINE timeouts == IF last /\ status = "success" /\ ~dev.closing THEN 0 ELSE dev.txTimeouts
           more == ~last
           d == [dev EXCEPT !.transmitting = more, !.txTimeouts = timeouts]
<1>1. dev \in DeviceType /\ Good(dev, pc, packet) /\ dev.transmitting
  BY DEF IInv, CompleteTransmit, Good
<1>2. timeouts \in 0 .. ResetDeviceErrors /\ more \in BOOLEAN
  BY <1>1 DEF DeviceType
<1>3. dev' = HandleTransportCompletion(d, "transmit", status, late) /\ pc' = pc /\ packet' = packet
  BY DEF CompleteTransmit
<1> HIDE DEF timeouts, more
<1>4. d \in DeviceType
  BY <1>1, <1>2 DEF DeviceType
<1>5. /\ SameStage(d, dev) /\ SameRest(d, dev) /\ d.control = dev.control
      /\ d.running = dev.running /\ d.trapped = dev.trapped /\ d.inFlight = dev.inFlight
  BY <1>1, <1>2 DEF DeviceType, SameStage, SameRest
<1> HIDE DEF d
<1>6. Good(d, pc, packet)
  BY <1>1, <1>4, <1>5 DEF Good, Linked, Ring, Alive, Quiescent, SameStage, SameRest
<1>7. dev' \in DeviceType /\ Same(dev', d)
  BY <1>3, <1>4, TransportSame DEF Pipes
<1>8. Good(dev', pc, packet) /\ dev'.callback = dev.callback
  BY <1>5, <1>6, <1>7, SameGood DEF Same, SameRest
<1>9. faults' \in 0 .. MaxFaults /\ calls' \in 0 .. MaxCalls
  <2>1. Fault(status = "error") /\ faults \in 0 .. MaxFaults /\ calls \in 0 .. MaxCalls /\ calls' = calls
    BY DEF IInv, TypeOK, CompleteTransmit
  <2> QED
    BY <2>1, FaultTyped
<1> QED
  BY <1>3, <1>8, <1>9, RestoredSame
-----------------------------------------------------------------------------
(* Completions of the control request.                                       *)

LEMMA DoneGood ==
  ASSUME NEW d, NEW q, NEW p, Good(d, q, p), ~d.trapped
  PROVE  /\ Good(Done(d), q, p) /\ SameRing(Done(d), d) /\ SameStage(Done(d), d)
         /\ SameRest(Done(d), d) /\ Done(d).control = "none"
<1>1. d \in DeviceType
  BY DEF Good
<1>2. Done(d) \in DeviceType
  BY <1>1 DEF Done, DeviceType
<1>3. /\ SameRing(Done(d), d) /\ SameStage(Done(d), d) /\ SameRest(Done(d), d)
      /\ Done(d).control = "none"
  BY <1>1 DEF Done, DeviceType, SameRing, SameStage, SameRest
<1> QED
  BY <1>2, <1>3, ControlGood

LEMMA RetryGood ==
  ASSUME NEW d, NEW q, NEW p, Good(d, q, p)
  PROVE  Good(Retry(d), q, p) /\ Retry(d).callback = d.callback
<1> DEFINE r == Retry(d)
<1>1. d \in DeviceType
  BY DEF Good
<1>2. r \in DeviceType
  BY <1>1 DEF Retry, DeviceType
<1>3. /\ SameRing(r, d) /\ SameRest(r, d) /\ r.control = d.control
      /\ r.stage = d.stage /\ r.active = d.active /\ r.pending = d.pending
      /\ r.timer = "running"
  BY <1>1 DEF Retry, DeviceType, SameRing, SameRest
<1> HIDE DEF r
<1>4. Good(r, q, p)
  BY <1>2, <1>3 DEF Good, Linked, Ring, Alive, Quiescent, SameRing, SameRest
<1> QED
  BY <1>3, <1>4 DEF r, SameRest

(* The stages at which a request of the filter may complete.                 *)
LEMMA FilterStage ==
  ASSUME NEW d, NEW q, NEW p, Good(d, q, p), d.control \in {"stop", "hash", "rxControl"}
  PROVE  d.closing \/ d.stage \in {"start", "complete"}
  BY DEF Good, Linked, DeviceType

LEMMA Idle ==
  ASSUME IInv, pc = "idle"
  PROVE  /\ dev \in DeviceType /\ Good(dev, "idle", NoPacket) /\ ~dev.callback
         /\ packet = NoPacket /\ faults \in 0 .. MaxFaults /\ calls \in 0 .. MaxCalls
  BY DEF IInv, TypeOK

LEMMA CompleteStopReceivingStep ==
  ASSUME IInv, ~dev.trapped, NEW hash \in BOOLEAN, CompleteStopReceiving(hash)
  PROVE  IInv'
<1> DEFINE d == Done(dev)
           e == [d EXCEPT !.received = FALSE]
<1>1. /\ pc = "idle" /\ dev.control = "stop" /\ pc' = "idle" /\ packet' = packet
      /\ dev' = BeginFilterUpdate(e, TRUE, hash) /\ faults' = faults /\ calls' = calls
  BY DEF CompleteStopReceiving, Completed
<1>2. Good(d, "idle", NoPacket) /\ SameStage(d, dev) /\ SameRest(d, dev)
  BY <1>1, Idle, DoneGood
<1>3. dev.closing \/ dev.stage \in {"start", "complete"}
  BY <1>1, Idle, FilterStage
<1> HIDE DEF d
<1>4. d \in DeviceType
  BY <1>2 DEF Good
<1>5. e \in DeviceType
  BY <1>4 DEF DeviceType
<1>6. Same(e, d)
  BY <1>4 DEF DeviceType, Same, SameRing, SameStage, SameRest
<1> HIDE DEF e
<1>7. Good(e, "idle", NoPacket)
  BY <1>2, <1>5, <1>6, SameGood
<1>8. e.closing \/ e.stage \in {"start", "complete"}
  BY <1>2, <1>3, <1>6 DEF Same, SameStage, SameRest
<1>9. Good(dev', "idle", NoPacket) /\ SameRest(dev', e)
  BY <1>1, <1>7, <1>8, BeginFilterGood
<1>10. ~dev'.callback
  BY <1>1, <1>2, <1>6, <1>9, Idle DEF Same, SameRest
<1> QED
  BY <1>1, <1>9, <1>10, Idle, RestoredIdle

LEMMA CompleteFilterHashStep ==
  ASSUME IInv, ~dev.trapped, NEW succeeds \in BOOLEAN, CompleteFilterHash(succeeds)
  PROVE  IInv'
<1> DEFINE c == Done(dev)
           again == c.filterPending \/ ~succeeds
           d == [c EXCEPT !.filterPending = again]
           e == [d EXCEPT !.control = "rxControl"]
<1>1. /\ pc = "idle" /\ dev.control = "hash" /\ pc' = "idle" /\ packet' = packet
      /\ dev' = IF Free(d) THEN e ELSE Retry(d)
      /\ Fault(~succeeds) /\ calls' = calls
  BY DEF CompleteFilterHash, Completed
<1>2. Good(c, "idle", NoPacket) /\ SameStage(c, dev) /\ SameRest(c, dev)
  BY <1>1, Idle, DoneGood
<1>3. dev.closing \/ dev.stage \in {"start", "complete"}
  BY <1>1, Idle, FilterStage
<1> HIDE DEF c
<1>4. c \in DeviceType
  BY <1>2 DEF Good
<1>5. again \in BOOLEAN
  BY <1>4 DEF DeviceType
<1> HIDE DEF again
<1>6. d \in DeviceType
  BY <1>4, <1>5 DEF DeviceType
<1>7. Same(d, c)
  BY <1>4, <1>5 DEF DeviceType, Same, SameRing, SameStage, SameRest
<1> HIDE DEF d
<1>8. Good(d, "idle", NoPacket) /\ ~d.callback
  BY <1>1, <1>2, <1>6, <1>7, Idle, SameGood DEF Same, SameRest
<1>9. Good(e, "idle", NoPacket) /\ ~e.callback
  <2>1. e \in DeviceType
    BY <1>6 DEF DeviceType
  <2>2. SameRing(e, d) /\ SameStage(e, d) /\ SameRest(e, d) /\ e.control = "rxControl"
    BY <1>6 DEF DeviceType, SameRing, SameStage, SameRest
  <2> HIDE DEF e
  <2>3. d.closing \/ d.stage \in {"start", "complete"}
    BY <1>2, <1>3, <1>7 DEF Same, SameStage, SameRest
  <2>4. Good(e, "idle", NoPacket)
    BY <1>8, <2>1, <2>2, <2>3, ControlGood
  <2> QED
    BY <1>8, <2>2, <2>4 DEF SameRest
<1>10. Good(Retry(d), "idle", NoPacket) /\ ~Retry(d).callback
  BY <1>8, RetryGood
<1> HIDE DEF e
<1>11. Good(dev', "idle", NoPacket) /\ ~dev'.callback
  BY <1>1, <1>9, <1>10
<1>12. faults' \in 0 .. MaxFaults
  BY <1>1, Idle, FaultTyped
<1> QED
  BY <1>1, <1>11, <1>12, Idle, RestoredIdle

LEMMA CompletePhyStep ==
  ASSUME IInv, ~dev.trapped, CompletePhy
  PROVE  IInv'
<1>1. /\ pc = "idle" /\ pc' = "idle" /\ packet' = packet /\ calls' = calls /\ faults' = faults
      /\ dev' = Done(dev)
  BY DEF CompletePhy, Completed
<1>2. Good(dev', "idle", NoPacket) /\ ~dev'.callback
  BY <1>1, Idle, DoneGood DEF SameRest
<1> QED
  BY <1>1, <1>2, Idle, RestoredIdle
(* The ring starts while processor 2 has no request: nothing is trapped.     *)
LEMMA StartRingFields ==
  ASSUME NEW d \in DeviceType, ~d.trapped, ~d.callback
  PROVE  LET r == StartRing(d)
         IN  /\ r \in DeviceType
             /\ SameStage(r, d) /\ SameRest(r, d) /\ r.control = d.control
             /\ r.running /\ ~r.trapped /\ r.transmitting = d.transmitting
             /\ IF d.closing THEN r.inFlight = d.inFlight ELSE r.inFlight = RecvPackets
<1> DEFINE mark == d.restarted \/ d.pending
           e == [d EXCEPT !.running = TRUE, !.restarted = mark]
           r == SubmitReceive(e)
<1>1. mark \in BOOLEAN
  BY DEF DeviceType
<1>2. StartRing(d) = r
  BY DEF StartRing
<1> HIDE DEF mark
<1>3. e \in DeviceType
  BY <1>1 DEF DeviceType
<1>4. /\ SameStage(e, d) /\ SameRest(e, d) /\ e.control = d.control
      /\ e.running /\ e.trapped = d.trapped /\ e.transmitting = d.transmitting
      /\ e.inFlight = d.inFlight
  BY <1>1 DEF DeviceType, SameStage, SameRest
<1> HIDE DEF e
<1>5. /\ r \in DeviceType
      /\ SameStage(r, e) /\ SameRest(r, e) /\ r.control = e.control
      /\ r.running = e.running /\ r.transmitting = e.transmitting
      /\ e.closing => r = e
      /\ ~e.closing => r.inFlight = RecvPackets
      /\ r.trapped => e.trapped \/ (e.callback /\ ~e.closing /\ e.inFlight # RecvPackets)
  BY <1>3, SubmitReceiveFields
<1> HIDE DEF r
<1> QED
  BY <1>2, <1>4, <1>5 DEF SameStage, SameRest

LEMMA CompleteFilterUpdateStep ==
  ASSUME IInv, ~dev.trapped, NEW succeeds \in BOOLEAN, NEW hash \in BOOLEAN,
         CompleteFilterUpdate(succeeds, hash)
  PROVE  IInv'
<1> DEFINE d == Done(dev)
           s == IF d.submitRing /\ ~d.running THEN StartRing(d) ELSE d
           e == [s EXCEPT !.submitRing = FALSE]
           c == [e EXCEPT !.stage = "complete"]
<1>1. /\ pc = "idle" /\ dev.control = "rxControl" /\ pc' = "idle" /\ packet' = packet
      /\ Fault(~succeeds) /\ calls' = calls
  BY DEF CompleteFilterUpdate, Completed
<1>2. \/ dev' = Retry(d)
      \/ e.stage = "start" /\ e.closing /\ dev' = c
      \/ e.stage = "start" /\ ~e.closing /\ dev' = InitReady(e)
      \/ e.stage # "start" /\ dev' = BeginFilterUpdate(e, FALSE, hash)
      \/ e.stage # "start" /\ dev' = e
  BY DEF CompleteFilterUpdate
<1>3. /\ Good(d, "idle", NoPacket) /\ SameStage(d, dev) /\ SameRest(d, dev) /\ d.control = "none"
      /\ ~d.trapped /\ ~d.callback
  BY <1>1, Idle, DoneGood DEF SameRing, SameRest
<1>4. d.closing \/ d.stage \in {"start", "complete"}
  BY <1>1, <1>3, Idle, FilterStage DEF SameStage, SameRest
<1> HIDE DEF d
<1>5. d \in DeviceType
  BY <1>3 DEF Good
<1>6. /\ s \in DeviceType
      /\ SameStage(s, d) /\ SameRest(s, d) /\ s.control = d.control
      /\ ~s.trapped /\ s.transmitting = d.transmitting
      /\ d.closing => s.inFlight = d.inFlight
      /\ \/ s.running = d.running /\ s.inFlight = d.inFlight
         \/ d.closing
         \/ s.inFlight = RecvPackets
  <2>1. CASE s = StartRing(d)
    <3>1. /\ StartRing(d) \in DeviceType
          /\ SameStage(StartRing(d), d) /\ SameRest(StartRing(d), d)
          /\ StartRing(d).control = d.control
          /\ ~StartRing(d).trapped /\ StartRing(d).transmitting = d.transmitting
          /\ IF d.closing THEN StartRing(d).inFlight = d.inFlight
                          ELSE StartRing(d).inFlight = RecvPackets
      BY <1>3, <1>5, StartRingFields
    <3> HIDE DEF s
    <3> QED
      BY <2>1, <3>1
  <2>2. CASE s = d
    <3> HIDE DEF s
    <3> QED
      BY <1>3, <1>5, <2>2 DEF SameStage, SameRest
  <2> QED
    BY <2>1, <2>2
<1> HIDE DEF s
<1>7. e \in DeviceType /\ Same(e, s)
  <2>1. e \in DeviceType
    BY <1>6 DEF DeviceType
  <2>2. Same(e, s)
    BY <1>6 DEF DeviceType, Same, SameRing, SameStage, SameRest
  <2> QED
    BY <2>1, <2>2
<1> HIDE DEF e
<1>8. /\ SameStage(e, d) /\ SameRest(e, d) /\ e.control = "none"
      /\ ~e.trapped /\ e.transmitting = d.transmitting
      /\ d.closing => e.inFlight = d.inFlight
      /\ \/ e.running = d.running /\ e.inFlight = d.inFlight
         \/ d.closing
         \/ e.inFlight = RecvPackets
  BY <1>3, <1>6, <1>7 DEF Same, SameRing, SameStage, SameRest
<1>9. Ring(e, "idle", NoPacket)
  <2>1. e.running /\ ~e.closing => e.inFlight \cup ({NoPacket} \ {NoPacket}) = RecvPackets
    <3> SUFFICES ASSUME e.running, ~e.closing
                 PROVE  e.inFlight = RecvPackets
      OBVIOUS
    <3>1. CASE e.running = d.running /\ e.inFlight = d.inFlight
      BY <1>3, <1>8, <3>1 DEF Good, Ring, SameRest
    <3>2. CASE e.inFlight = RecvPackets
      BY <3>2
    <3> QED
      BY <1>8, <3>1, <3>2 DEF SameRest
  <2>2. NoPacket \notin e.inFlight
    BY <1>7 DEF DeviceType
  <2> QED
    BY <1>8, <2>1, <2>2 DEF Ring
<1>10. Linked(e) /\ Alive(e, "idle")
  BY <1>3, <1>8 DEF Good, Linked, Alive, SameStage, SameRest
<1>11. e.closing \/ e.stage # "start" => Good(e, "idle", NoPacket)
  <2> SUFFICES ASSUME e.closing \/ e.stage # "start"
               PROVE  Quiescent(e)
    BY <1>7, <1>9, <1>10 DEF Good
  <2>1. CASE e.closing
    BY <1>3, <1>8, <2>1 DEF Good, Quiescent, SameStage, SameRest
  <2>2. CASE ~e.closing /\ e.stage # "start"
    <3>1. e.stage = "complete"
      BY <1>4, <1>8, <2>2 DEF SameStage, SameRest
    <3>2. ~e.active
      BY <1>10, <2>2, <3>1 DEF Linked
    <3> QED
      BY <3>2 DEF Quiescent
  <2> QED
    BY <2>1, <2>2
<1>12. ~e.callback
  BY <1>3, <1>8 DEF SameRest
<1>13. Good(dev', "idle", NoPacket) /\ ~dev'.callback
  <2>1. CASE dev' = Retry(d)
    BY <1>3, <2>1, RetryGood
  <2>2. CASE e.stage = "start" /\ e.closing /\ dev' = c
    <3>1. c \in DeviceType
      BY <1>7 DEF DeviceType
    <3>2. /\ SameRing(c, e) /\ SameRest(c, e) /\ c.control = e.control /\ c.active = e.active
      BY <1>7 DEF DeviceType, SameRing, SameRest
    <3> HIDE DEF c
    <3>3. Good(c, "idle", NoPacket)
      BY <1>11, <2>2, <3>1, <3>2 DEF Good, Linked, Ring, Alive, Quiescent, SameRing, SameRest
    <3> QED
      BY <1>12, <2>2, <3>2, <3>3 DEF SameRest
  <2>3. CASE e.stage = "start" /\ ~e.closing /\ dev' = InitReady(e)
    BY <1>7, <1>8, <1>9, <1>12, <2>3, ReadyGood
  <2>4. CASE e.stage # "start" /\ dev' = BeginFilterUpdate(e, FALSE, hash)
    <3>1. e.closing \/ e.stage \in {"start", "complete"}
      BY <1>4, <1>8 DEF SameStage, SameRest
    <3>2. FALSE \in BOOLEAN /\ Good(e, "idle", NoPacket)
      BY <1>11, <2>4
    <3>3. /\ Good(BeginFilterUpdate(e, FALSE, hash), "idle", NoPacket)
          /\ SameRest(BeginFilterUpdate(e, FALSE, hash), e)
      BY <3>1, <3>2, BeginFilterGood
    <3> QED
      BY <1>12, <2>4, <3>3 DEF SameRest
  <2>5. CASE e.stage # "start" /\ dev' = e
    BY <1>11, <1>12, <2>5
  <2> QED
    BY <1>2, <2>1, <2>2, <2>3, <2>4, <2>5
<1>14. faults' \in 0 .. MaxFaults
  BY <1>1, Idle, FaultTyped
<1> QED
  BY <1>1, <1>13, <1>14, Idle, RestoredIdle

LEMMA CompleteInitStep ==
  ASSUME IInv, ~dev.trapped, NEW hash \in BOOLEAN, CompleteInit(hash)
  PROVE  IInv'
<1> DEFINE d == Done(dev)
           c == [d EXCEPT !.stage = "complete"]
           a == [d EXCEPT !.timer = "advance"]
           s == [d EXCEPT !.stage = "start"]
<1>1. /\ pc = "idle" /\ dev.control = "init" /\ pc' = "idle" /\ packet' = packet
      /\ faults' = faults /\ calls' = calls
  BY DEF CompleteInit, Completed
<1>2. \/ dev.closing /\ dev' = c
      \/ ~dev.closing /\ dev.stage = "replay" /\ dev' = a
      \/ ~dev.closing /\ dev.stage # "replay" /\ dev' = BeginFilterUpdate(s, TRUE, hash)
  BY DEF CompleteInit
<1>3. /\ Good(d, "idle", NoPacket) /\ SameStage(d, dev) /\ SameRest(d, dev) /\ d.control = "none"
      /\ ~d.trapped /\ ~d.callback
  BY <1>1, Idle, DoneGood DEF SameRing, SameRest
<1>4. dev.closing \/ dev.stage \in {"replay", "resume"}
  BY <1>1, Idle DEF Good, Linked
<1> HIDE DEF d
<1>5. d \in DeviceType
  BY <1>3 DEF Good
<1>6. Good(dev', "idle", NoPacket) /\ ~dev'.callback
  <2>1. CASE dev.closing /\ dev' = c
    <3>1. c \in DeviceType
      BY <1>5 DEF DeviceType
    <3>2. /\ SameRing(c, d) /\ SameRest(c, d) /\ c.control = d.control /\ c.active = d.active
      BY <1>5 DEF DeviceType, SameRing, SameRest
    <3> HIDE DEF c
    <3>3. Good(c, "idle", NoPacket)
      BY <1>3, <2>1, <3>1, <3>2 DEF Good, Linked, Ring, Alive, Quiescent, SameRing, SameRest
    <3> QED
      BY <1>3, <2>1, <3>2, <3>3 DEF SameRest
  <2>2. CASE ~dev.closing /\ dev.stage = "replay" /\ dev' = a
    <3>1. a \in DeviceType
      BY <1>5 DEF DeviceType
    <3>2. /\ SameRing(a, d) /\ SameRest(a, d) /\ a.control = d.control
          /\ a.stage = d.stage /\ a.active = d.active /\ a.pending = d.pending
      BY <1>5 DEF DeviceType, SameRing, SameRest
    <3>3. d.stage = "replay"
      BY <1>3, <2>2 DEF SameStage
    <3> HIDE DEF a
    <3>4. Good(a, "idle", NoPacket)
      BY <1>3, <3>1, <3>2, <3>3 DEF Good, Linked, Ring, Alive, Quiescent, SameRing, SameRest
    <3> QED
      BY <1>3, <2>2, <3>2, <3>4 DEF SameRest
  <2>3. CASE ~dev.closing /\ dev.stage # "replay" /\ dev' = BeginFilterUpdate(s, TRUE, hash)
    <3>1. s \in DeviceType
      BY <1>5 DEF DeviceType
    <3>2. /\ SameRing(s, d) /\ SameRest(s, d) /\ s.control = d.control /\ s.stage = "start"
          /\ s.active = d.active /\ s.pending = d.pending /\ s.timer = d.timer
      BY <1>5 DEF DeviceType, SameRing, SameRest
    <3>3. d.stage = "resume" /\ ~d.closing
      BY <1>3, <1>4, <2>3 DEF SameStage, SameRest
    <3> HIDE DEF s
    <3>4. Good(s, "idle", NoPacket)
      BY <1>3, <3>1, <3>2, <3>3 DEF Good, Linked, Ring, Alive, Quiescent, SameRing, SameRest
    <3>5. Good(dev', "idle", NoPacket) /\ SameRest(dev', s)
      BY <2>3, <3>2, <3>4, BeginFilterGood
    <3> QED
      BY <1>3, <3>2, <3>5 DEF SameRest
  <2> QED
    BY <1>2, <2>1, <2>2, <2>3
<1> QED
  BY <1>1, <1>6, Idle, RestoredIdle
-----------------------------------------------------------------------------
(* The timer.                                                                *)

LEMMA TimerAdvanceStep ==
  ASSUME IInv, ~dev.trapped, TimerAdvance
  PROVE  IInv'
<1> DEFINE d == [dev EXCEPT !.timer = "none"]
           c == [d EXCEPT !.stage = "complete"]
           op == IF Free(d) THEN "init" ELSE d.control
           r == [d EXCEPT !.stage = "resume", !.control = op]
<1>1. dev \in DeviceType /\ Good(dev, pc, packet) /\ dev.timer = "advance"
  BY DEF IInv, TimerAdvance, Good
<1>2. dev' = IF d.closing THEN c ELSE r
  BY DEF TimerAdvance
<1>3. d \in DeviceType
  BY <1>1 DEF DeviceType
<1>4. /\ SameRing(d, dev) /\ SameRest(d, dev) /\ d.control = dev.control
      /\ d.stage = dev.stage /\ d.active = dev.active /\ d.pending = dev.pending
      /\ d.timer = "none"
  BY <1>1 DEF DeviceType, SameRing, SameRest
<1>5. op = d.control \/ (op = "init" /\ d.control = "none")
  BY DEF Free
<1> HIDE DEF d, op
<1>6. Good(dev', pc, packet) /\ dev'.callback = dev.callback
  <2>1. CASE d.closing
    <3>1. c \in DeviceType
      BY <1>3 DEF DeviceType
    <3>2. /\ SameRing(c, d) /\ SameRest(c, d) /\ c.control = d.control /\ c.active = d.active
      BY <1>3 DEF DeviceType, SameRing, SameRest
    <3>3. dev' = c
      BY <1>2, <2>1
    <3> HIDE DEF c
    <3>4. Good(c, pc, packet)
      BY <1>1, <1>4, <2>1, <3>1, <3>2 DEF Good, Linked, Ring, Alive, Quiescent, SameRing, SameRest
    <3> QED
      BY <1>4, <3>2, <3>3, <3>4 DEF SameRest
  <2>2. CASE ~d.closing
    <3>1. op \in {"none", "stop", "hash", "rxControl", "phy", "init"}
      BY <1>3, <1>5 DEF DeviceType
    <3>2. r \in DeviceType
      BY <1>3, <3>1 DEF DeviceType
    <3>3. /\ SameRing(r, d) /\ SameRest(r, d) /\ r.control = op /\ r.active = d.active
          /\ r.stage = "resume" /\ r.timer = "none" /\ r.pending = d.pending
      BY <1>3, <1>4, <3>1 DEF DeviceType, SameRing, SameRest
    <3>4. dev' = r
      BY <1>2, <2>2
    <3> HIDE DEF r
    <3>5. dev.stage = "replay" /\ ~dev.closing
      BY <1>1, <1>4, <2>2 DEF Good, Linked, SameRest
    <3>6. Linked(r)
      BY <1>1, <1>4, <1>5, <3>3, <3>5 DEF Good, Linked, SameRest
    <3>7. Ring(r, pc, packet)
      BY <1>1, <1>4, <1>5, <3>3 DEF Good, Ring, SameRing, SameRest
    <3>8. Alive(r, pc) /\ Quiescent(r)
      BY <1>1, <1>4, <3>3 DEF Good, Alive, Quiescent, SameRing, SameRest
    <3> QED
      BY <1>4, <3>2, <3>3, <3>4, <3>6, <3>7, <3>8 DEF Good, SameRest
  <2> QED
    BY <2>1, <2>2
<1>7. /\ pc' = pc /\ packet' = packet
      /\ faults' \in 0 .. MaxFaults /\ calls' \in 0 .. MaxCalls
  BY DEF IInv, TypeOK, TimerAdvance
<1> QED
  BY <1>6, <1>7, RestoredSame

LEMMA RunningTickGood ==
  ASSUME NEW d, NEW q, NEW p, Good(d, q, p), d.stage = "complete",
         d.callback = (q = "receive"), q # "receive" => p = NoPacket,
         NEW silence \in BOOLEAN, NEW poll \in BOOLEAN, NEW hash \in BOOLEAN
  PROVE  /\ Good(RunningTick(d, silence, poll, hash), q, p)
         /\ RunningTick(d, silence, poll, hash).callback = d.callback
<1> DEFINE polled == [d EXCEPT !.control = "phy"]
           e == CASE silence -> RestartReceiving(d)
                  [] ~silence /\ poll /\ Free(d) -> polled
                  [] OTHER -> d
           f == IF e.filterPending /\ e.control = "none" THEN BeginFilterUpdate(e, FALSE, hash) ELSE e
           r == [f EXCEPT !.timer = "running"]
<1>1. d \in DeviceType
  BY DEF Good
<1>2. RunningTick(d, silence, poll, hash) = r
  BY DEF RunningTick
<1>3. e = RestartReceiving(d) \/ (Free(d) /\ e = polled) \/ e = d
  OBVIOUS
<1> HIDE DEF e, polled
<1>4. Good(e, q, p) /\ e.stage = "complete" /\ e.callback = d.callback
  <2>1. CASE e = RestartReceiving(d)
    <3>1. /\ Good(RestartReceiving(d), q, p)
          /\ SameStage(RestartReceiving(d), d) /\ SameRest(RestartReceiving(d), d)
      BY RestartGood
    <3> QED
      BY <2>1, <3>1 DEF SameStage, SameRest
  <2>2. CASE Free(d) /\ e = polled
    <3>1. e \in DeviceType
      BY <1>1, <2>2 DEF DeviceType, polled
    <3>2. SameRing(e, d) /\ SameStage(e, d) /\ SameRest(e, d) /\ e.control = "phy"
      BY <1>1, <2>2 DEF DeviceType, SameRing, SameStage, SameRest, polled
    <3>3. Good(e, q, p)
      BY <2>2, <3>1, <3>2, ControlGood
    <3> QED
      BY <3>2, <3>3 DEF SameStage, SameRest
  <2>3. CASE e = d
    BY <2>3
  <2> QED
    BY <1>3, <2>1, <2>2, <2>3
<1>5. Good(f, q, p) /\ f.stage = "complete" /\ f.callback = d.callback
  <2>1. CASE f = e
    <3> HIDE DEF f
    <3> QED
      BY <1>4, <2>1
  <2>2. CASE f = BeginFilterUpdate(e, FALSE, hash)
    <3>1. FALSE \in BOOLEAN /\ e.stage \in {"start", "complete"}
      BY <1>4
    <3>2. /\ Good(BeginFilterUpdate(e, FALSE, hash), q, p)
          /\ SameStage(BeginFilterUpdate(e, FALSE, hash), e)
          /\ SameRest(BeginFilterUpdate(e, FALSE, hash), e)
      BY <1>4, <3>1, BeginFilterGood
    <3> HIDE DEF f
    <3> QED
      BY <1>4, <2>2, <3>2 DEF SameStage, SameRest
  <2> QED
    BY <2>1, <2>2
<1> HIDE DEF f
<1>6. f \in DeviceType
  BY <1>5 DEF Good
<1>7. r \in DeviceType
  BY <1>6 DEF DeviceType
<1>8. /\ SameRing(r, f) /\ SameRest(r, f) /\ r.control = f.control /\ r.timer = "running"
      /\ r.stage = f.stage /\ r.active = f.active /\ r.pending = f.pending
  BY <1>6 DEF DeviceType, SameRing, SameRest
<1> HIDE DEF r
<1>9. Good(r, q, p)
  BY <1>5, <1>7, <1>8 DEF Good, Linked, Ring, Alive, Quiescent, SameRing, SameRest
<1> QED
  BY <1>2, <1>5, <1>8, <1>9 DEF SameRest

LEMMA TimeoutSame ==
  ASSUME NEW d \in DeviceType
  PROVE  TransmitTimesOut(d) \in DeviceType /\ Same(TransmitTimesOut(d), d)
<1> DEFINE count == Least(d.txTimeouts + 1, ResetDeviceErrors)
           level == LevelOf(count)
<1>1. d.txTimeouts \in 0 .. ResetDeviceErrors
  BY DEF DeviceType
<1>2. count \in 0 .. ResetDeviceErrors
  BY <1>1 DEF Least
<1>3. level \in 0 .. 3 /\ "transmit" \in Pipes
  BY <1>2 DEF LevelOf, Pipes
<1>4. TransmitTimesOut(d) =
        [d EXCEPT !.txTimeouts = count, !.level = level, !.pipe = "transmit"]
  BY DEF TransmitTimesOut
<1> HIDE DEF count, level
<1>5. TransmitTimesOut(d) \in DeviceType
  BY <1>2, <1>3, <1>4 DEF DeviceType
<1>6. Same(TransmitTimesOut(d), d)
  BY <1>2, <1>3, <1>4 DEF DeviceType, Same, SameRing, SameStage, SameRest
<1> QED
  BY <1>5, <1>6

LEMMA RunTimerStep ==
  ASSUME IInv, ~dev.trapped,
         NEW tick \in Ticks, NEW poll \in BOOLEAN, NEW hash \in BOOLEAN,
         RunTimer(tick, poll, hash)
  PROVE  IInv'
<1> DEFINE d == [dev EXCEPT !.timer = "none"]
           t == IF tick = "txTimeout" THEN TransmitTimesOut(d) ELSE d
           e == ProcessRecovery(t)
           silence == tick = "silence" /\ e.running
<1>1. /\ dev \in DeviceType /\ Good(dev, pc, packet)
      /\ dev.callback = (pc = "receive") /\ (pc # "receive" => packet = NoPacket)
  BY DEF IInv, TypeOK
<1>2. \/ dev' = d
      \/ d.stage = "start" /\ dev' = BeginFilterUpdate(d, TRUE, hash)
      \/ e.stage = "complete" /\ dev' = RunningTick(e, silence, poll, hash)
      \/ dev' = e
  BY DEF RunTimer
<1>3. d \in DeviceType
  BY <1>1 DEF DeviceType
<1>4. /\ SameRing(d, dev) /\ SameRest(d, dev) /\ d.control = dev.control
      /\ d.stage = dev.stage /\ d.active = dev.active /\ d.pending = dev.pending
      /\ d.timer = "none"
  BY <1>1 DEF DeviceType, SameRing, SameRest
<1> HIDE DEF d
<1>5. Good(d, pc, packet) /\ d.callback = dev.callback
  BY <1>1, <1>3, <1>4 DEF Good, Linked, Ring, Alive, Quiescent, SameRing, SameRest
<1>6. Good(t, pc, packet) /\ t.callback = dev.callback /\ t.timer = "none"
  <2>1. CASE t = d
    <3> HIDE DEF t
    <3> QED
      BY <1>4, <1>5, <2>1
  <2>2. CASE t = TransmitTimesOut(d)
    <3>1. t \in DeviceType /\ Same(t, d)
      BY <1>3, <2>2, TimeoutSame
    <3> HIDE DEF t
    <3> QED
      BY <1>4, <1>5, <3>1, SameGood DEF Same, SameStage, SameRest
  <2> QED
    BY <2>1, <2>2
<1> HIDE DEF t
<1>7. Good(e, pc, packet) /\ e.callback = dev.callback
  BY <1>1, <1>6, RecoveryGood
<1>8. silence \in BOOLEAN
  OBVIOUS
<1> HIDE DEF e, silence
<1>9. Good(dev', pc, packet) /\ dev'.callback = dev.callback
  <2>1. CASE d.stage = "start" /\ dev' = BeginFilterUpdate(d, TRUE, hash)
    <3>1. TRUE \in BOOLEAN /\ d.stage \in {"start", "complete"}
      BY <2>1
    <3>2. /\ Good(BeginFilterUpdate(d, TRUE, hash), pc, packet)
          /\ SameRest(BeginFilterUpdate(d, TRUE, hash), d)
      BY <1>5, <3>1, BeginFilterGood
    <3> QED
      BY <1>5, <2>1, <3>2 DEF SameRest
  <2>2. CASE e.stage = "complete" /\ dev' = RunningTick(e, silence, poll, hash)
    <3>1. /\ Good(RunningTick(e, silence, poll, hash), pc, packet)
          /\ RunningTick(e, silence, poll, hash).callback = e.callback
      BY <1>1, <1>7, <1>8, <2>2, RunningTickGood
    <3> QED
      BY <1>7, <2>2, <3>1
  <2> QED
    BY <1>2, <1>5, <1>7, <2>1, <2>2
<1>10. /\ pc' = pc /\ packet' = packet
       /\ faults' \in 0 .. MaxFaults /\ calls' \in 0 .. MaxCalls
  <2>1. /\ Fault(tick # "quiet") /\ faults \in 0 .. MaxFaults /\ calls \in 0 .. MaxCalls
        /\ calls' = calls /\ pc' = pc /\ packet' = packet
    BY DEF IInv, TypeOK, RunTimer
  <2> QED
    BY <2>1, FaultTyped
<1> QED
  BY <1>9, <1>10, RestoredSame

-----------------------------------------------------------------------------
(* Users.                                                                    *)

LEMMA CallTyped ==
  ASSUME IInv, Call
  PROVE  /\ dev \in DeviceType /\ Good(dev, pc, packet) /\ ~dev.closing
         /\ pc' = pc /\ packet' = packet
         /\ faults' \in 0 .. MaxFaults /\ calls' \in 0 .. MaxCalls
<1>1. /\ dev \in DeviceType /\ Good(dev, pc, packet) /\ ~dev.closing
      /\ pc' = pc /\ packet' = packet /\ faults' = faults /\ faults \in 0 .. MaxFaults
      /\ calls < MaxCalls /\ calls' = calls + 1 /\ calls \in 0 .. MaxCalls
  BY DEF IInv, TypeOK, Call
<1>2. calls' \in 0 .. MaxCalls
  BY <1>1
<1> QED
  BY <1>1, <1>2

LEMMA TransmitStep ==
  ASSUME IInv, ~dev.trapped, Transmit
  PROVE  IInv'
<1> DEFINE r == [dev EXCEPT !.transmitting = TRUE]
<1>1. Call /\ dev.stage = "complete" /\ dev' = r
  BY DEF Transmit
<1>2. dev \in DeviceType /\ Good(dev, pc, packet) /\ ~dev.closing
  BY <1>1, CallTyped
<1>3. r \in DeviceType
  BY <1>2 DEF DeviceType
<1>4. /\ SameStage(r, dev) /\ SameRest(r, dev) /\ r.control = dev.control
      /\ r.running = dev.running /\ r.trapped = dev.trapped /\ r.inFlight = dev.inFlight
  BY <1>2 DEF DeviceType, SameStage, SameRest
<1> HIDE DEF r
<1>5. Good(r, pc, packet)
  BY <1>1, <1>2, <1>3, <1>4 DEF Good, Linked, Ring, Alive, Quiescent, SameStage, SameRest
<1>6. Good(dev', pc, packet) /\ dev'.callback = dev.callback
  BY <1>1, <1>4, <1>5 DEF SameRest
<1> QED
  BY <1>1, <1>6, CallTyped, RestoredSame

LEMMA ChangeReceiveFilterStep ==
  ASSUME IInv, ~dev.trapped, NEW hash \in BOOLEAN, ChangeReceiveFilter(hash)
  PROVE  IInv'
<1>1. Call /\ dev' = UpdateReceiveFilter(dev, hash)
  BY DEF ChangeReceiveFilter
<1>2. dev \in DeviceType /\ Good(dev, pc, packet) /\ ~dev.closing
  BY <1>1, CallTyped
<1>3. Good(dev', pc, packet) /\ dev'.callback = dev.callback
  <2>1. CASE dev' = dev
    BY <1>2, <2>1
  <2>2. CASE dev.stage \notin {"replay", "resume"} /\ dev' = BeginFilterUpdate(dev, FALSE, hash)
    <3>1. FALSE \in BOOLEAN /\ dev.stage \in {"start", "complete"}
      BY <1>2, <2>2 DEF DeviceType
    <3>2. /\ Good(BeginFilterUpdate(dev, FALSE, hash), pc, packet)
          /\ SameRest(BeginFilterUpdate(dev, FALSE, hash), dev)
      BY <1>2, <3>1, BeginFilterGood
    <3> QED
      BY <2>2, <3>2 DEF SameRest
  <2> QED
    BY <1>1, <2>1, <2>2 DEF UpdateReceiveFilter
<1> QED
  BY <1>1, <1>3, CallTyped, RestoredSame

LEMMA BeginUserPhyTransferStep ==
  ASSUME IInv, ~dev.trapped, BeginUserPhyTransfer
  PROVE  IInv'
<1> DEFINE seen == dev.disturbed \/ dev.stage # "complete"
           r == [dev EXCEPT !.control = "phy", !.disturbed = seen]
<1>1. Call /\ dev' = r
  BY DEF BeginUserPhyTransfer
<1>2. dev \in DeviceType /\ Good(dev, pc, packet) /\ ~dev.closing
  BY <1>1, CallTyped
<1>3. seen \in BOOLEAN
  BY <1>2 DEF DeviceType
<1> HIDE DEF seen
<1>4. r \in DeviceType
  BY <1>2, <1>3 DEF DeviceType
<1>5. SameRing(r, dev) /\ SameStage(r, dev) /\ SameRest(r, dev) /\ r.control = "phy"
  BY <1>2, <1>3 DEF DeviceType, SameRing, SameStage, SameRest
<1> HIDE DEF r
<1>6. Good(r, pc, packet)
  BY <1>2, <1>4, <1>5, ControlGood
<1>7. Good(dev', pc, packet) /\ dev'.callback = dev.callback
  BY <1>1, <1>5, <1>6 DEF SameRest
<1> QED
  BY <1>1, <1>7, CallTyped, RestoredSame

LEMMA BeginCloseStep ==
  ASSUME IInv, ~dev.trapped, BeginClose
  PROVE  IInv'
<1> DEFINE r == [dev EXCEPT !.closing = TRUE, !.running = FALSE, !.timer = "none"]
<1>1. Call /\ dev' = r
  BY DEF BeginClose
<1>2. dev \in DeviceType /\ Good(dev, pc, packet) /\ ~dev.closing
  BY <1>1, CallTyped
<1>3. r \in DeviceType
  BY <1>2 DEF DeviceType
<1>4. /\ r.closing /\ ~r.running /\ r.trapped = dev.trapped /\ r.inFlight = dev.inFlight
      /\ r.transmitting = dev.transmitting /\ r.active = dev.active /\ r.control = dev.control
      /\ r.callback = dev.callback
  BY <1>2 DEF DeviceType
<1> HIDE DEF r
<1>5. Good(r, pc, packet)
  BY <1>2, <1>3, <1>4 DEF Good, Linked, Ring, Alive, Quiescent
<1>6. Good(dev', pc, packet) /\ dev'.callback = dev.callback
  BY <1>1, <1>4, <1>5
<1> QED
  BY <1>1, <1>6, CallTyped, RestoredSame

-----------------------------------------------------------------------------
(* The specification.                                                        *)

LEMMA InitGood == Init => IInv
<1> SUFFICES ASSUME Init PROVE IInv
  OBVIOUS
<1>1. dev = Device /\ pc = "idle" /\ packet = NoPacket /\ faults = 0 /\ calls = 0
  BY DEF Init
<1>2. [pipe \in Pipes |-> 0] \in [Pipes -> 0 .. ResetDeviceErrors]
  OBVIOUS
<1>3. Device \in DeviceType
  <2>1. "receive" \in Pipes
    BY DEF Pipes
  <2> QED
    BY <1>2, <2>1 DEF Device, DeviceType
<1>4. Good(dev, pc, packet)
  BY <1>1, <1>3 DEF Device, Good, Linked, Ring, Alive, Quiescent
<1>5. dev.callback = (pc = "receive")
  BY <1>1 DEF Device
<1> QED
  BY <1>1, <1>3, <1>4, <1>5 DEF IInv, TypeOK

LEMMA NextGood == IInv /\ [Next]_vars => IInv'
<1> SUFFICES ASSUME IInv, [Next]_vars PROVE IInv'
  OBVIOUS
<1>1. CASE UNCHANGED vars
  BY <1>1 DEF vars, IInv, TypeOK, Good, Linked, Ring, Alive, Quiescent
<1>2. CASE Next
  <2>1. ~dev.trapped
    BY <1>2 DEF Next
  <2>2. dev.errors \in [Pipes -> 0 .. ResetDeviceErrors]
    BY DEF IInv, TypeOK, DeviceType
  <2>3. \A pipe \in Pipes : Late(pipe) \subseteq BOOLEAN
    BY DEF Late
  <2>4. CASE Receive
    BY <2>1, <2>3, <2>4, CompleteReceiveStep DEF Receive, Pipes
  <2>5. CASE EndCallbacks
    BY <2>1, <2>5, EndCallbacksStep
  <2>6. CASE Interrupt
    BY <2>1, <2>3, <2>6, CompleteInterruptStep DEF Interrupt, Pipes
  <2>7. CASE ResubmitInterrupt
    BY <2>1, <2>7, ResubmitInterruptStep
  <2>8. CASE EndTransmit
    BY <2>1, <2>3, <2>8, CompleteTransmitStep DEF EndTransmit, Pipes
  <2>9. CASE CompleteControl
    BY <2>1, <2>9, CompleteStopReceivingStep, CompleteFilterHashStep, CompleteFilterUpdateStep,
       CompletePhyStep, CompleteInitStep DEF CompleteControl
  <2>10. CASE TimerAdvance
    BY <2>1, <2>10, TimerAdvanceStep
  <2>11. CASE \E tick \in Ticks, poll, hash \in BOOLEAN : RunTimer(tick, poll, hash)
    BY <2>1, <2>11, RunTimerStep
  <2>12. CASE Transmit
    BY <2>1, <2>12, TransmitStep
  <2>13. CASE \E hash \in BOOLEAN : ChangeReceiveFilter(hash)
    BY <2>1, <2>13, ChangeReceiveFilterStep
  <2>14. CASE BeginUserPhyTransfer
    BY <2>1, <2>14, BeginUserPhyTransferStep
  <2>15. CASE BeginClose
    BY <2>1, <2>15, BeginCloseStep
  <2> QED
    BY <1>2, <2>4, <2>5, <2>6, <2>7, <2>8, <2>9, <2>10, <2>11, <2>12, <2>13, <2>14, <2>15 DEF Next
<1> QED
  BY <1>1, <1>2

(* Types hold, and CALLBACK_IN_PROGRESS is set exactly while processor 2 is  *)
(* in callbacks with a receive request.                                      *)
THEOREM TypeCorrect == Spec => []TypeOK
<1>1. IInv => TypeOK
  BY DEF IInv
<1> QED
  BY <1>1, InitGood, NextGood, PTL DEF Spec

(* The ring loses no request while reception stops, is restarted and starts  *)
(* again, and submits none twice or under a callback but in the one case.    *)
THEOREM RingNeverLoses == Spec => []RingAccounted
<1>1. IInv => RingAccounted
  BY DEF IInv, Good, Ring, RingAccounted
<1> QED
  BY <1>1, InitGood, NextGood, PTL DEF Spec

(* No order of a pause of the interrupt and its resubmission stops it for    *)
(* good.                                                                     *)
THEOREM InterruptNeverLost == Spec => []InterruptAlive
<1>1. IInv => InterruptAlive
  BY DEF IInv, Good, Alive, InterruptAlive
<1> QED
  BY <1>1, InitGood, NextGood, PTL DEF Spec

(* The replay meets an adapter without bulk transfers.                       *)
THEOREM ReplayUndisturbed == Spec => []ReplayQuiescent
<1>1. IInv => ReplayQuiescent
  BY DEF IInv, Good, Quiescent, ReplayQuiescent
<1> QED
  BY <1>1, InitGood, NextGood, PTL DEF Spec
=============================================================================
