----------------------------- MODULE UsbEnetXmit -----------------------------
(***************************************************************************)
(* The transmit path of CUsbEnet: a ring of packet descriptors, a pool of  *)
(* trackers (one USB transfer and its DMA buffer each), the DPC that moves *)
(* a tracker to the USB processor, and the completion that refills the     *)
(* pipe.  Everything runs under NicLock, so every handler is one step; the *)
(* refill loop of a completion is taken one iteration per step while       *)
(* `refill' says that the completion still holds the lock, and then no     *)
(* other step is possible.                                                 *)
(***************************************************************************)
EXTENDS UsbEnetFraming, Sequences, FiniteSets

CONSTANTS
  Users,                        \* the attached CNicUser objects
  DebugUsers,                   \* those whose receive filter is 0x14
  LowLatencyUsers,              \* and with them, on a retail console, the title user
  Lengths,                      \* lengths of the frames users send
  Frames,                       \* identities of frames: bounds how many are held at once
  XMIT_PACKET_COUNT,
  XMIT_TRACKER_COUNT,
  MaximumFramesPerXmit,
  MaximumDebugFramesPerXmit,
  MaximumPendingXmitCount,
  MaximumTitlePendingXmitCount,
  DebugImmediateFrameSize,
  XmitSubmitThreshold,
  EnableDispatchLevelDirectXmit,  \* TRUE in the source
  NULL

ASSUME XmitAssumption ==
  /\ DebugUsers \subseteq LowLatencyUsers
  /\ LowLatencyUsers \subseteq Users
  /\ NULL \notin Users
  /\ Lengths \subseteq Nat
  /\ XMIT_PACKET_COUNT \in Nat \ {0}
  /\ XMIT_TRACKER_COUNT \in Nat \ {0}
  /\ NULL \notin 0 .. XMIT_PACKET_COUNT - 1
  /\ NULL \notin 0 .. XMIT_TRACKER_COUNT - 1
  /\ MaximumFramesPerXmit \in Nat \ {0}
  /\ MaximumDebugFramesPerXmit \in Nat \ {0}
  /\ MaximumTitlePendingXmitCount \in Nat \ {0}
  /\ MaximumPendingXmitCount = MaximumTitlePendingXmitCount + 1
  /\ DebugImmediateFrameSize \in Nat
  /\ XmitSubmitThreshold \in Nat
  /\ EnableDispatchLevelDirectXmit \in BOOLEAN

Packets  == 0 .. XMIT_PACKET_COUNT - 1
Trackers == 0 .. XMIT_TRACKER_COUNT - 1

IsDebugNicUser(user)      == user \in DebugUsers
IsLowLatencyNicUser(user) == user \in LowLatencyUsers

VARIABLES
  tx,        \* the transmit fields of the device extension (TxState)
  refill,    \* SearchStart of the refill loop that holds NicLock, or NULL
  closing    \* RESETTING or STOPPING is set in Flags

vars == <<tx, refill, closing>>

FreePacket == [user |-> NULL, tracker |-> NULL, length |-> 0]

TxState ==
  [ packet:      [Packets -> [user:    Users \cup {NULL},
                              tracker: Trackers \cup {NULL},
                              length:  Nat]],         \* XmitPackets
    first:       [Trackers -> Packets \cup {NULL}],   \* FirstPacket
    length:      [Trackers -> Int],                   \* Transfer.BufferLength
    buffer:      [Trackers -> Seq([user: Users, frame: Frames])], \* the DMA buffer
    padded:      SUBSET Trackers,                     \* XMIT_FLAG_CRC_PADDING
    waiting:     SUBSET Trackers,                     \* XMIT_FLAG_WAITING
    queued:      SUBSET Trackers,                     \* XMIT_FLAG_QUEUED
    busy:        SUBSET Trackers,                     \* XMIT_FLAG_BUSY, owned by USB
    dpcs:        Seq(Trackers),                       \* the DPC queue of processor 3
    nextPacket:  Packets,                             \* NextXmitPacket
    nextTracker: Trackers,                            \* NextXmitTracker
    pending:     Int,                                 \* PendingXmitCount
    active:      Int ]                                \* ActiveXmitCount

-----------------------------------------------------------------------------
(* Rings.                                                                    *)

Successor(i, size)    == (i + 1) % size
Predecessor(i, size)  == (i + size - 1) % size
Distance(i, j, size)  == (j + size - i) % size

(* The element of S met first when the ring is walked from i on.             *)
Nearest(i, S, size) ==
  CHOOSE j \in S : \A k \in S : Distance(i, j, size) <= Distance(i, k, size)

-----------------------------------------------------------------------------
(* What the code reads off a tracker through its packet descriptors.         *)

IsDebugXmitTracker(s, t) ==
  s.first[t] # NULL /\ IsDebugNicUser(s.packet[s.first[t]].user)

IsImmediateLowLatencyXmitTracker(s, t) ==
  /\ s.first[t] # NULL
  /\ IsLowLatencyNicUser(s.packet[s.first[t]].user)
  /\ s.packet[s.first[t]].length <= DebugImmediateFrameSize + GetTransmitHeaderSize

(* The bytes of the transfer without the terminator.                         *)
FrameBytes(s, t) ==
  s.length[t] - (IF t \in s.padded THEN GetTransmitTerminatorSize ELSE 0)

(* The i-th descriptor of the walk from FirstPacket round the ring.          *)
WalkPacket(s, t, i) == (s.first[t] + i) % XMIT_PACKET_COUNT

(* What is left of the transfer after i descriptors of the walk.             *)
WalkRemaining(s, t) ==
  LET remaining[i \in 0 .. XMIT_PACKET_COUNT] ==
        IF i = 0 THEN FrameBytes(s, t)
        ELSE remaining[i - 1] - s.packet[WalkPacket(s, t, i - 1)].length
  IN  remaining

(* Walk the descriptors until their lengths use up the transfer.  When they  *)
(* step over zero (the DWORD wraps), no ring of them comes back to zero and  *)
(* the walk ends at the size of the ring.                                    *)
CountXmitTrackerFrames(s, t) ==
  LET remaining == WalkRemaining(s, t)
      exact     == {i \in 0 .. XMIT_PACKET_COUNT : remaining[i] = 0}
  IN  IF exact = {} THEN XMIT_PACKET_COUNT
      ELSE CHOOSE i \in exact : \A j \in exact : i <= j

(* The descriptors that walk visits.                                         *)
WalkedPackets(s, t) ==
  LET count == CountXmitTrackerFrames(s, t)
  IN  {p \in Packets : Distance(s.first[t], p, XMIT_PACKET_COUNT) < count}

(* Mutants: the limit is passed by one, or is the same for every user.       *)
CanSubmitOneTooMany(s, t) ==
  s.pending <= (IF IsDebugXmitTracker(s, t) THEN MaximumPendingXmitCount
                ELSE MaximumTitlePendingXmitCount)
CanSubmitXmitTracker(s, t) ==
  s.pending < (IF IsDebugXmitTracker(s, t) THEN MaximumPendingXmitCount
               ELSE MaximumTitlePendingXmitCount)

-----------------------------------------------------------------------------
(* State changes of the helpers: each maps a TxState to the next one.        *)

ReleaseSubmittedXmitPackets(s, t) ==
  LET walked == WalkedPackets(s, t)
  IN  [s EXCEPT !.packet = [p \in Packets |-> IF p \in walked THEN FreePacket ELSE s.packet[p]]]

SubmitXmitTrackerLocked(s, t) ==
  [ReleaseSubmittedXmitPackets(s, t) EXCEPT
     !.busy    = @ \cup {t},
     !.pending = @ + 1]

(* KeInsertQueueDpc appends to the queue of the DPC's target, processor 3.   *)
QueueXmitTrackerDpc(s, t) ==
  IF t \in s.queued THEN s
  ELSE [s EXCEPT !.waiting = @ \ {t},
                 !.queued  = @ \cup {t},
                 !.dpcs    = Append(@, t)]

(* direct: the caller already runs at DISPATCH_LEVEL on USB processor 2.     *)
QueueOrSubmitXmitTrackerLocked(s, t, direct) ==
  IF ~(EnableDispatchLevelDirectXmit /\ direct) THEN QueueXmitTrackerDpc(s, t)
  ELSE IF CanSubmitXmitTracker(s, t) THEN SubmitXmitTrackerLocked(s, t)
  ELSE [s EXCEPT !.waiting = @ \cup {t}]

(* Mutant: only BUSY is looked at.                                           *)
UnscheduledBusyOnly(s, t) == t \notin s.busy

Unscheduled(s, t) == t \notin s.waiting \cup s.queued \cup s.busy

AllocateXmitTracker(s, t, p) ==
  [s EXCEPT !.first[t]    = p,
            !.nextTracker = Successor(t, XMIT_TRACKER_COUNT),
            !.active      = @ + 1]

ReleaseFailedXmitTracker(s, t) ==
  [s EXCEPT !.first[t] = NULL, !.active = @ - 1]

(* Copy the frame behind the `count' frames the tracker already holds, and   *)
(* fill the descriptor at NextXmitPacket.                                    *)
StoreFrame(s, t, count, offset, user, length, frame) ==
  LET content == [user |-> user, frame |-> frame]
  IN  [s EXCEPT
         !.length[t]  = offset + BytesWritten(offset, length),
         !.padded     = IF NeedsTerminator(offset, length) THEN @ \cup {t} ELSE @ \ {t},
         !.buffer[t]  = IF count = 0 THEN <<content>> ELSE Append(@, content),
         !.packet[s.nextPacket] =
            [user |-> user, tracker |-> t, length |-> FramedLength(offset, length)],
         !.nextPacket = Successor(@, XMIT_PACKET_COUNT)]

FillFrame(s, t, count, user, length, frame, submit, direct) ==
  LET offset == IF count = 0 THEN 0 ELSE FrameBytes(s, t)
      stored == StoreFrame(s, t, count, offset, user, length, frame)
      limit  == IF IsLowLatencyNicUser(user) THEN MaximumDebugFramesPerXmit ELSE MaximumFramesPerXmit
      full   == stored.length[t] >= XmitSubmitThreshold \/ count + 1 >= limit
  IN  IF ~FrameAppended(offset, length)
      THEN IF count = 0 THEN ReleaseFailedXmitTracker(s, t) ELSE s
      ELSE IF (submit \/ full) /\ Unscheduled(stored, t)
      THEN QueueOrSubmitXmitTrackerLocked(stored, t, direct)
      ELSE stored

-----------------------------------------------------------------------------
(* NicXmit.                                                                  *)

HeldTrackers(s) == {t \in Trackers : s.first[t] # NULL}

FrameInUse(s, frame) ==
  \E t \in HeldTrackers(s) : \E i \in DOMAIN s.buffer[t] : s.buffer[t][i].frame = frame

FreePackets(s)  == {p \in Packets : s.packet[p].user = NULL}
(* Mutant: a tracker without flags counts as free.                           *)
UnflaggedTrackers(s) == {t \in Trackers : Unscheduled(s, t)}

FreeTrackers(s) == {t \in Trackers : s.first[t] = NULL /\ Unscheduled(s, t)}

IsImmediate(user, length) == IsLowLatencyNicUser(user) /\ length <= DebugImmediateFrameSize

(* Mutant: the user of the previous frame is not compared.                   *)
PreviousTrackerAnyUser(s, packet, user) ==
  LET previous == s.packet[Predecessor(packet, XMIT_PACKET_COUNT)]
  IN  IF packet = s.nextPacket /\ previous.user # NULL /\ previous.tracker \notin s.busy
      THEN previous.tracker ELSE NULL

(* The tracker of the descriptor just before the new one, when that frame    *)
(* has the same user and no descriptor in use was skipped to find a free one.*)
PreviousTracker(s, packet, user) ==
  LET previous == s.packet[Predecessor(packet, XMIT_PACKET_COUNT)]
  IN  IF packet = s.nextPacket /\ previous.user = user /\ previous.tracker \notin s.busy
      THEN previous.tracker ELSE NULL

CanAppend(s, t, user, length) ==
  LET count == CountXmitTrackerFrames(s, t)
  IN  /\ SupportsTransmitAggregation
      /\ FrameBytes(s, t) + length + GetTransmitHeaderSize <= GetMaximumAggregateTransferSize
      /\ count < MaximumFramesPerXmit
      /\ IsLowLatencyNicUser(user) =>
           /\ ~IsImmediate(user, length)
           /\ ~IsImmediateLowLatencyXmitTracker(s, t)
           /\ count < MaximumDebugFramesPerXmit

(* An open tracker that cannot take the frame is sent on its way first.      *)
CloseXmitTracker(s, t, direct) ==
  IF t # NULL /\ t \notin s.waiting \cup s.queued
  THEN QueueOrSubmitXmitTrackerLocked(s, t, direct) ELSE s

(* The pipe is idle: no transfer is pending, queued or waiting.              *)
PipeIdle(s) == s.pending = 0 /\ s.queued = {} /\ s.waiting = {}

NicXmitAppend(user, length, direct, frame, packet, previous) ==
  tx' = FillFrame([tx EXCEPT !.nextPacket = packet], previous,
                  CountXmitTrackerFrames(tx, previous), user, length, frame, FALSE, direct)

NicXmitAllocate(user, length, direct, frame, packet, previous) ==
  LET closed == CloseXmitTracker([tx EXCEPT !.nextPacket = packet], previous, direct)
      t      == Nearest(closed.nextTracker, FreeTrackers(closed), XMIT_TRACKER_COUNT)
      opened == AllocateXmitTracker(closed, t, packet)
      submit == IsImmediate(user, length) \/ PipeIdle(closed)
  IN  /\ FreeTrackers(closed) # {}
      /\ tx' = FillFrame(opened, t, 0, user, length, frame, submit, direct)

(* Transmit tracker pool full: the frame is dropped, NextXmitPacket has moved. *)
NicXmitDrop(user, length, direct, packet, previous) ==
  LET closed == CloseXmitTracker([tx EXCEPT !.nextPacket = packet], previous, direct)
  IN  /\ FreeTrackers(closed) = {}
      /\ tx' = closed

(* A frame that meets a full packet ring, a device that is not ready or is    *)
(* closing, or that is too long, is dropped without a state change.           *)
NicXmit(user, length, direct, frame) ==
  /\ refill = NULL
  /\ ~closing
  /\ length <= GetMaximumFrameSize
  /\ ~FrameInUse(tx, frame)
  /\ FreePackets(tx) # {}
  /\ LET packet   == Nearest(tx.nextPacket, FreePackets(tx), XMIT_PACKET_COUNT)
         previous == PreviousTracker(tx, packet, user)
     IN  IF previous # NULL /\ CanAppend(tx, previous, user, length)
         THEN NicXmitAppend(user, length, direct, frame, packet, previous)
         ELSE \/ NicXmitAllocate(user, length, direct, frame, packet, previous)
              \/ NicXmitDrop(user, length, direct, packet, previous)
  /\ UNCHANGED <<refill, closing>>

-----------------------------------------------------------------------------
(* The DPC of a tracker, on processor 3.                                     *)
BulkXmitSwitchProcs ==
  /\ refill = NULL
  /\ tx.dpcs # <<>>
  /\ \E t \in {Head(tx.dpcs)} :
       \E s \in {[tx EXCEPT !.dpcs = Tail(@), !.queued = @ \ {t}]} :
         tx' = IF closing \/ ~CanSubmitXmitTracker(s, t)
               THEN [s EXCEPT !.waiting = @ \cup {t}]
               ELSE SubmitXmitTrackerLocked([s EXCEPT !.waiting = @ \ {t}], t)
  /\ UNCHANGED <<refill, closing>>

(* The completion of a transfer, on processor 2: it takes NicLock, and goes   *)
(* on to refill the pipe unless the device is closing.                        *)
CompleteTransmit(t) ==
  /\ refill = NULL
  /\ t \in tx.busy
  /\ tx' = [tx EXCEPT !.first[t]  = NULL,
                      !.buffer[t] = <<>>,
                      !.length[t] = 0,
                      !.busy      = @ \ {t},
                      !.padded    = @ \ {t},
                      !.pending   = @ - 1,
                      !.active    = @ - 1]
  /\ refill' = IF closing THEN NULL ELSE t
  /\ UNCHANGED closing

ReadyXmitTrackers(s, debug, wait) ==
  {t \in HeldTrackers(s) : /\ t \notin s.busy \cup s.queued
                           /\ (t \in s.waiting) = wait
                           /\ IsDebugXmitTracker(s, t) = debug}

(* Mutant: open aggregates are left to NicXmit.                              *)
SelectableWaitingXmitTrackers(s) ==
  IF s.pending < MaximumPendingXmitCount /\ ReadyXmitTrackers(s, TRUE, TRUE) # {}
  THEN ReadyXmitTrackers(s, TRUE, TRUE)
  ELSE IF s.pending < MaximumTitlePendingXmitCount
  THEN ReadyXmitTrackers(s, FALSE, TRUE) ELSE {}

(* Where FindReadyXmitTracker searches, by priority: waiting debug trackers,  *)
(* an open debug aggregate when nothing is pending, waiting title trackers,   *)
(* open title aggregates.                                                     *)
SelectableXmitTrackers(s) ==
  LET debug == s.pending < MaximumPendingXmitCount
      title == s.pending < MaximumTitlePendingXmitCount
      classes == << IF debug                   THEN ReadyXmitTrackers(s, TRUE, TRUE)   ELSE {},
                    IF debug /\ s.pending = 0  THEN ReadyXmitTrackers(s, TRUE, FALSE)  ELSE {},
                    IF title                   THEN ReadyXmitTrackers(s, FALSE, TRUE)  ELSE {},
                    IF title                   THEN ReadyXmitTrackers(s, FALSE, FALSE) ELSE {} >>
      first == {i \in 1 .. 4 : classes[i] # {} /\ \A j \in 1 .. i - 1 : classes[j] = {}}
  IN  UNION {classes[i] : i \in first}

(* FindReadyXmitTracker starts behind StartAfter and looks at it last.        *)
FindReadyXmitTracker(s, after) ==
  Nearest(Successor(after, XMIT_TRACKER_COUNT), SelectableXmitTrackers(s), XMIT_TRACKER_COUNT)

(* One iteration of the refill loop.                                          *)
ScheduleReadyXmitTrackers ==
  /\ refill # NULL
  /\ \/ /\ SelectableXmitTrackers(tx) # {}
        /\ \E t \in {FindReadyXmitTracker(tx, refill)} :
               /\ tx' = SubmitXmitTrackerLocked([tx EXCEPT !.waiting = @ \ {t}], t)
               /\ refill' = t
     \/ /\ SelectableXmitTrackers(tx) = {}
        /\ refill' = NULL
        /\ UNCHANGED tx
  /\ UNCHANGED closing

(* BeginPowerDownAndClose and BeginRemove set STOPPING and RESETTING under    *)
(* NicLock; the transmit path sees no more than that they are set.            *)
BeginClose ==
  /\ refill = NULL
  /\ ~closing
  /\ closing' = TRUE
  /\ UNCHANGED <<tx, refill>>

-----------------------------------------------------------------------------
Init ==
  /\ tx = [ packet      |-> [p \in Packets |-> FreePacket],
            first       |-> [t \in Trackers |-> NULL],
            length      |-> [t \in Trackers |-> 0],
            buffer      |-> [t \in Trackers |-> <<>>],
            padded      |-> {},
            waiting     |-> {},
            queued      |-> {},
            busy        |-> {},
            dpcs        |-> <<>>,
            nextPacket  |-> 0,
            nextTracker |-> 0,
            pending     |-> 0,
            active      |-> 0 ]
  /\ refill = NULL
  /\ closing = FALSE

Next ==
  \/ \E user \in Users, length \in Lengths, direct \in BOOLEAN, frame \in Frames :
       NicXmit(user, length, direct, frame)
  \/ BulkXmitSwitchProcs
  \/ \E t \in Trackers : CompleteTransmit(t)
  \/ ScheduleReadyXmitTrackers
  \/ BeginClose

Spec == Init /\ [][Next]_vars

(* The kernel runs every queued DPC, the USB stack completes every transfer,  *)
(* and a completion that took the lock finishes its loop.                     *)
Fairness ==
  /\ WF_vars(BulkXmitSwitchProcs)
  /\ WF_vars(ScheduleReadyXmitTrackers)
  /\ \A t \in Trackers : WF_vars(CompleteTransmit(t))

FairSpec == Spec /\ Fairness

-----------------------------------------------------------------------------
(* Properties.                                                               *)

(* The fields of the device extension hold values of their types.            *)
TypeOK ==
  /\ tx \in TxState
  /\ refill \in Trackers \cup {NULL}
  /\ closing \in BOOLEAN

(* A tracker is never in two scheduling states at once, and QUEUED stands    *)
(* for exactly one entry of the DPC queue: no tracker is handed to USB twice *)
(* and no DPC meets a tracker that is already with USB (the assertions on    *)
(* the flags in SubmitXmitTrackerLocked, QueueOrSubmitXmitTrackerLocked,     *)
(* CompleteTransmit and BulkXmitSwitchProcs).                                *)
ScheduledOnce ==
  /\ tx.waiting \cap tx.queued = {}
  /\ tx.waiting \cap tx.busy = {}
  /\ tx.queued \cap tx.busy = {}
  /\ tx.queued = {tx.dpcs[i] : i \in DOMAIN tx.dpcs}
  /\ \A i, j \in DOMAIN tx.dpcs : tx.dpcs[i] = tx.dpcs[j] => i = j

(* PendingXmitCount is the number of transfers USB holds, and never passes   *)
(* MaximumPendingXmitCount, whichever of the three paths submits.            *)
PendingBounded ==
  /\ tx.pending = Cardinality(tx.busy)
  /\ tx.pending <= MaximumPendingXmitCount

(* No lost wakeup: whenever NicLock is free and the device stays open, a     *)
(* tracker waits only while title traffic has used up its transfers, and     *)
(* frames are held only while a transfer or a DPC that will look at them is  *)
(* outstanding.                                                              *)
NoStrandedTracker ==
  (refill = NULL /\ ~closing) =>
    /\ tx.waiting # {} => tx.pending >= MaximumTitlePendingXmitCount
    /\ HeldTrackers(tx) # {} => tx.busy \cup tx.queued # {}

(* The descriptor walk of a tracker that is not yet submitted visits exactly *)
(* the frames in its DMA buffer, all of them its own, and every descriptor   *)
(* in use belongs to such a walk: submitting a tracker releases its          *)
(* descriptors, all of them, and no other's (the assertions of               *)
(* CountXmitTrackerFrames and ReleaseSubmittedXmitPackets).                  *)
WalkMatchesBuffer ==
  LET open == HeldTrackers(tx) \ tx.busy
  IN  /\ \A t \in open :
           /\ CountXmitTrackerFrames(tx, t) = Len(tx.buffer[t])
           /\ \A i \in DOMAIN tx.buffer[t] :
                LET descriptor == tx.packet[WalkPacket(tx, t, i - 1)]
                IN  descriptor.tracker = t /\ descriptor.user = tx.buffer[t][i].user
      /\ \A p \in Packets \ FreePackets(tx) : \E t \in open : p \in WalkedPackets(tx, t)

(* TRAP_ASSERT(Remaining == 0) (CUsbEnet.cpp:294): the descriptors of a      *)
(* tracker that is not yet submitted use up its transfer exactly.            *)
WalkUsesUpTransfer ==
  \A t \in HeldTrackers(tx) \ tx.busy :
    \E i \in 0 .. XMIT_PACKET_COUNT : WalkRemaining(tx, t)[i] = 0

(* "Never mix users in one USB transfer" (CUsbEnet.cpp:1222), also when an   *)
(* append, a drop and a reuse of the ring interleave; and title traffic      *)
(* never takes the transfer that the limits reserve for the debug user,      *)
(* although the class of a tracker is read off a descriptor that other       *)
(* submissions release and reuse.                                            *)
UsersKeptApart ==
  /\ \A t \in HeldTrackers(tx) : \A i, j \in DOMAIN tx.buffer[t] :
       tx.buffer[t][i].user = tx.buffer[t][j].user
  /\ Cardinality({t \in tx.busy :
       \E i \in DOMAIN tx.buffer[t] : ~IsDebugNicUser(tx.buffer[t][i].user)})
         <= MaximumTitlePendingXmitCount

(* A frame that NicXmit decides to append fits the DMA buffer together with  *)
(* its padding and terminator (the assertion on FrameAppended).              *)
AppendFits ==
  \A t \in HeldTrackers(tx) \ tx.busy, user \in Users, length \in Lengths :
    CanAppend(tx, t, user, length) => FrameAppended(FrameBytes(tx, t), length)

(* The frames in the DMA buffer of a tracker.                                *)
BufferedFrames(t) == {tx.buffer[t][i].frame : i \in DOMAIN tx.buffer[t]}

(* The transmit path implements XmitService: no accepted frame is lost,      *)
(* overwritten in its DMA buffer or sent twice, and no transfer beyond the   *)
(* limit is started.                                                         *)
Service == INSTANCE XmitService WITH
  Limit <- MaximumPendingXmitCount,
  held  <- UNION {BufferedFrames(t) : t \in HeldTrackers(tx) \ tx.busy},
  wire  <- {BufferedFrames(t) : t \in tx.busy}
EachFrameSentOnce == Service!Spec

(* Once users stop sending, and the device stays open, every frame the       *)
(* driver accepted is handed to USB and completes.                           *)
Sending == \E frame \in Frames : ~FrameInUse(tx, frame) /\ FrameInUse(tx', frame)
Drains ==
  (<>[][~Sending]_vars) => []<>(closing \/ HeldTrackers(tx) = {})
=============================================================================
