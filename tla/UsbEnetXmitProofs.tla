-------------------------- MODULE UsbEnetXmitProofs --------------------------
(***************************************************************************)
(* Proofs about the transmit path, for every number of packets, trackers,  *)
(* users and frames.                                                       *)
(*                                                                         *)
(* The first part, for every chipset, is about scheduling: IInv.  The      *)
(* second part is about what the descriptors, the DMA buffers and the      *)
(* frames have to do with each other: WInv.  It needs the descriptor walk  *)
(* to be exact, so it leaves out the RTL8153, which pads in front of a     *)
(* frame without counting the padding.  The last part shows that the path  *)
(* implements XmitService.                                                 *)
(***************************************************************************)
EXTENDS UsbEnetXmit, FiniteSetTheorems, SequenceTheorems, WellFoundedInduction, TLAPS

-----------------------------------------------------------------------------
(* Sets of numbers and queues.                                               *)

(* There is a least element: induction, without an operator parameter.       *)
LEMMA LeastElement ==
  ASSUME NEW S \in SUBSET Nat, S # {}
  PROVE  \E m \in S : \A k \in S : m <= k
<1> DEFINE less == {pair \in Nat \X Nat : pair[1] < pair[2]}
<1>1. IsWellFoundedOn(less, Nat)
  BY NatLessThanWellFounded DEF OpToRel
<1>2. \A d, e \in Nat : <<e, d>> \notin less => d <= e
  OBVIOUS
<1> HIDE DEF less
<1>3. PICK m \in S : \A k \in S : <<k, m>> \notin less
  BY <1>1, WFMin
<1> QED
  BY <1>2, <1>3

(* What a queue holds after an insertion.                                    *)
LEMMA AppendElements ==
  ASSUME NEW S, NEW d \in Seq(S), NEW t \in S
  PROVE  /\ Len(d) \in Nat
         /\ DOMAIN d = 1 .. Len(d)
         /\ DOMAIN Append(d, t) = 1 .. Len(d) + 1
         /\ \A i \in 1 .. Len(d) : Append(d, t)[i] = d[i]
         /\ Append(d, t)[Len(d) + 1] = t
  OBVIOUS

(* Dequeuing from a queue without duplicates removes exactly its head.       *)
LEMMA TailElements ==
  ASSUME NEW S, NEW d \in Seq(S), d # <<>>,
         \A i, j \in DOMAIN d : d[i] = d[j] => i = j
  PROVE  /\ {Tail(d)[i] : i \in DOMAIN Tail(d)} = {d[i] : i \in DOMAIN d} \ {Head(d)}
         /\ \A i, j \in DOMAIN Tail(d) : Tail(d)[i] = Tail(d)[j] => i = j
<1> DEFINE n == Len(d)
           e == Tail(d)
<1>1. /\ n \in Nat /\ n > 0
      /\ DOMAIN d = 1 .. n
      /\ DOMAIN e = 1 .. n - 1
      /\ \A i \in 1 .. n - 1 : e[i] = d[i + 1]
      /\ Head(d) = d[1]
  OBVIOUS
<1> HIDE DEF n, e
<1>2. ASSUME NEW i \in 1 .. n, i # 1
      PROVE  \E k \in 1 .. n - 1 : d[i] = e[k]
  <2>1. i - 1 \in 1 .. n - 1 /\ (i - 1) + 1 = i
    BY <1>1, <1>2
  <2> QED
    BY <1>1, <2>1
<1>3. \A k \in 1 .. n - 1 : k + 1 \in 1 .. n /\ e[k] = d[k + 1] /\ d[k + 1] # d[1]
  BY <1>1
<1>4. {e[k] : k \in 1 .. n - 1} = {d[i] : i \in 1 .. n} \ {d[1]}
  BY <1>1, <1>2, <1>3
<1>5. ASSUME NEW i \in 1 .. n - 1, NEW j \in 1 .. n - 1, e[i] = e[j]
      PROVE  i = j
  <2>1. i + 1 \in DOMAIN d /\ j + 1 \in DOMAIN d /\ d[i + 1] = d[j + 1]
    BY <1>1, <1>5
  <2>2. i + 1 = j + 1
    BY <2>1
  <2> QED
    BY <1>1, <2>2
<1> QED
  BY <1>1, <1>4, <1>5 DEF e

USE FramingAssumption, XmitAssumption

-----------------------------------------------------------------------------
(* Framing: what AppendTransmitFrame reports are natural numbers.            *)

LEMMA PaddingNatural ==
  ASSUME NEW n \in Int, NEW k \in Nat \ {0}
  PROVE  RoundUp(n, k) - n \in Nat
<1>1. n % k \in 0 .. k - 1
  OBVIOUS
<1>2. (k - (n % k)) % k \in 0 .. k - 1
  BY <1>1
<1> QED
  BY <1>2 DEF RoundUp

LEMMA FramingNatural ==
  ASSUME NEW offset \in Int, NEW length \in Nat
  PROVE  /\ Required(offset, length) \in Nat
         /\ BytesWritten(offset, length) \in Nat
         /\ FramedLength(offset, length) \in Nat
<1>1. GetTransmitHeaderSize \in Nat /\ GetTransmitTerminatorSize \in Nat
  BY DEF GetTransmitHeaderSize, GetTransmitTerminatorSize, Chipsets
<1>2. LeadingPadding(offset) \in Nat
  BY PaddingNatural DEF LeadingPadding
<1>3. RoundUp(GetTransmitHeaderSize + length, 8) \in Nat
  <2>1. GetTransmitHeaderSize + length \in Nat
    BY <1>1
  <2>2. RoundUp(GetTransmitHeaderSize + length, 8) - (GetTransmitHeaderSize + length) \in Nat
    BY <2>1, PaddingNatural
  <2>3. RoundUp(GetTransmitHeaderSize + length, 8) \in Int
    BY <2>1 DEF RoundUp
  <2> QED
    BY <2>1, <2>2, <2>3
<1>4. Required(offset, length) \in Nat
  BY <1>1, <1>2, <1>3 DEF Required
<1> QED
  BY <1>1, <1>4 DEF BytesWritten, FramedLength

-----------------------------------------------------------------------------
(* The inductive invariant, as a predicate on the transmit state, so that    *)
(* it can be followed through the helpers a handler is composed of.          *)

Scheduled(s) ==
  /\ s.waiting \cap s.queued = {}
  /\ s.waiting \cap s.busy = {}
  /\ s.queued \cap s.busy = {}
  /\ s.queued = {s.dpcs[i] : i \in DOMAIN s.dpcs}
  /\ \A i, j \in DOMAIN s.dpcs : s.dpcs[i] = s.dpcs[j] => i = j

PendingWithin(s) ==
  /\ s.pending = Cardinality(s.busy)
  /\ s.pending <= MaximumPendingXmitCount

Good(s) == s \in TxState /\ Scheduled(s) /\ PendingWithin(s)

IInv ==
  /\ Good(tx)
  /\ refill \in Trackers \cup {NULL}
  /\ closing \in BOOLEAN

LEMMA RingTyped ==
  /\ \A p \in Packets : Successor(p, XMIT_PACKET_COUNT) \in Packets
  /\ \A t \in Trackers : Successor(t, XMIT_TRACKER_COUNT) \in Trackers
  BY DEF Successor, Packets, Trackers

LEMMA BusyFinite ==
  ASSUME NEW T \in SUBSET Trackers
  PROVE  IsFiniteSet(T) /\ Cardinality(T) \in Nat
<1>1. IsFiniteSet(Trackers)
  BY FS_Interval DEF Trackers
<1> QED
  BY <1>1, FS_Subset, FS_CardinalityType

(* The types of the fields, as a predicate: a state with typed fields whose  *)
(* domain is that of a TxState is one.                                       *)
FieldsTyped(u) ==
  /\ u.packet \in [Packets -> [user: Users \cup {NULL}, tracker: Trackers \cup {NULL}, length: Nat]]
  /\ u.first \in [Trackers -> Packets \cup {NULL}]
  /\ u.length \in [Trackers -> Int]
  /\ u.buffer \in [Trackers -> Seq([user: Users, frame: Frames])]
  /\ u.padded \in SUBSET Trackers
  /\ u.waiting \in SUBSET Trackers
  /\ u.queued \in SUBSET Trackers
  /\ u.busy \in SUBSET Trackers
  /\ u.dpcs \in Seq(Trackers)
  /\ u.nextPacket \in Packets
  /\ u.nextTracker \in Trackers
  /\ u.pending \in Int
  /\ u.active \in Int

LEMMA Fields ==
  ASSUME NEW s \in TxState
  PROVE  FieldsTyped(s)
  BY DEF FieldsTyped, TxState

LEMMA Refield ==
  ASSUME NEW s \in TxState, NEW u, u = [f \in DOMAIN s |-> u[f]], FieldsTyped(u)
  PROVE  u \in TxState
<1>1. DOMAIN s = {"packet", "first", "length", "buffer", "padded", "waiting", "queued",
                  "busy", "dpcs", "nextPacket", "nextTracker", "pending", "active"}
  BY DEF TxState
<1>2. u = [ packet |-> u.packet, first |-> u.first, length |-> u.length, buffer |-> u.buffer,
            padded |-> u.padded, waiting |-> u.waiting, queued |-> u.queued, busy |-> u.busy,
            dpcs |-> u.dpcs, nextPacket |-> u.nextPacket, nextTracker |-> u.nextTracker,
            pending |-> u.pending, active |-> u.active ]
  BY <1>1
<1> QED
  BY <1>2 DEF TxState, FieldsTyped

(* The fields the invariant relates.                                         *)
SameSchedule(u, s) ==
  /\ u.waiting = s.waiting /\ u.queued = s.queued /\ u.busy = s.busy
  /\ u.dpcs = s.dpcs /\ u.pending = s.pending

LEMMA SameScheduleGood ==
  ASSUME NEW s, NEW u, Good(s), u \in TxState, SameSchedule(u, s)
  PROVE  Good(u)
  BY DEF Good, Scheduled, PendingWithin, SameSchedule

(* Releasing descriptors changes nothing else.                               *)
LEMMA ReleaseGood ==
  ASSUME NEW s, NEW t \in Trackers, Good(s)
  PROVE  /\ Good(ReleaseSubmittedXmitPackets(s, t))
         /\ SameSchedule(ReleaseSubmittedXmitPackets(s, t), s)
<1> DEFINE r == ReleaseSubmittedXmitPackets(s, t)
           released == [p \in Packets |-> IF p \in WalkedPackets(s, t) THEN FreePacket ELSE s.packet[p]]
<1>1. s \in TxState
  BY DEF Good
<1>2. released \in [Packets -> [user: Users \cup {NULL}, tracker: Trackers \cup {NULL}, length: Nat]]
  <2>1. FreePacket \in [user: Users \cup {NULL}, tracker: Trackers \cup {NULL}, length: Nat]
    BY DEF FreePacket
  <2> QED
    BY <1>1, <2>1 DEF TxState
<1>3. r = [s EXCEPT !.packet = released]
  BY DEF ReleaseSubmittedXmitPackets
<1> HIDE DEF released, r
<1>4. r \in TxState /\ SameSchedule(r, s)
  BY <1>1, <1>2, <1>3 DEF TxState, SameSchedule
<1> QED
  BY <1>4, SameScheduleGood DEF r

(* Submitting a tracker that is in no scheduling state, below the limit.     *)
LEMMA SubmitGood ==
  ASSUME NEW s, NEW t \in Trackers, Good(s), Unscheduled(s, t),
         s.pending < MaximumPendingXmitCount
  PROVE  Good(SubmitXmitTrackerLocked(s, t))
<1> DEFINE r == ReleaseSubmittedXmitPackets(s, t)
           u == SubmitXmitTrackerLocked(s, t)
<1>1. Good(r) /\ SameSchedule(r, s)
  BY ReleaseGood
<1>2. u = [r EXCEPT !.busy = r.busy \cup {t}, !.pending = r.pending + 1]
  BY DEF SubmitXmitTrackerLocked
<1>3. r \in TxState /\ s \in TxState
  BY <1>1 DEF Good
<1> HIDE DEF r, u
<1>4. /\ u.packet = r.packet /\ u.first = r.first /\ u.length = r.length /\ u.buffer = r.buffer
      /\ u.padded = r.padded /\ u.waiting = r.waiting /\ u.queued = r.queued
      /\ u.busy = r.busy \cup {t} /\ u.dpcs = r.dpcs /\ u.nextPacket = r.nextPacket
      /\ u.nextTracker = r.nextTracker /\ u.pending = r.pending + 1 /\ u.active = r.active
      /\ u = [f \in DOMAIN r |-> u[f]]
  BY <1>2, <1>3 DEF TxState
<1>5. u \in TxState
  <2>1. r.busy \cup {t} \in SUBSET Trackers /\ r.pending + 1 \in Int
    BY <1>3, Fields DEF FieldsTyped
  <2>2. FieldsTyped(u)
    BY <1>3, <1>4, <2>1, Fields DEF FieldsTyped
  <2> QED
    BY <1>3, <1>4, <2>2, Refield
<1>6. Scheduled(u)
  BY <1>1, <1>4 DEF Scheduled, Good, Unscheduled, SameSchedule
<1>7. PendingWithin(u)
  <2>1. s.busy \in SUBSET Trackers /\ s.pending \in Int
    BY <1>3 DEF TxState
  <2>2. Cardinality(s.busy \cup {t}) = Cardinality(s.busy) + 1
    BY <2>1, BusyFinite, FS_AddElement DEF Unscheduled
  <2> QED
    BY <1>1, <1>4, <2>1, <2>2 DEF PendingWithin, Good, SameSchedule
<1> QED
  BY <1>5, <1>6, <1>7 DEF Good, u

(* Queueing its DPC.                                                         *)
LEMMA QueueGood ==
  ASSUME NEW s, NEW t \in Trackers, Good(s), Unscheduled(s, t)
  PROVE  Good(QueueXmitTrackerDpc(s, t))
<1> DEFINE u == QueueXmitTrackerDpc(s, t)
<1>1. u = [s EXCEPT !.waiting = s.waiting \ {t}, !.queued = s.queued \cup {t},
                    !.dpcs = Append(s.dpcs, t)]
  BY DEF QueueXmitTrackerDpc, Unscheduled
<1>2. s \in TxState /\ s.dpcs \in Seq(Trackers)
  BY DEF Good, TxState
<1> HIDE DEF u
<1>3. /\ u.packet = s.packet /\ u.first = s.first /\ u.length = s.length /\ u.buffer = s.buffer
      /\ u.padded = s.padded /\ u.waiting = s.waiting \ {t} /\ u.queued = s.queued \cup {t}
      /\ u.busy = s.busy /\ u.dpcs = Append(s.dpcs, t) /\ u.nextPacket = s.nextPacket
      /\ u.nextTracker = s.nextTracker /\ u.pending = s.pending /\ u.active = s.active
      /\ u = [f \in DOMAIN s |-> u[f]]
  BY <1>1, <1>2 DEF TxState
<1>4. Append(s.dpcs, t) \in Seq(Trackers)
  BY <1>2
<1>5. u \in TxState
  <2>1. s.waiting \ {t} \in SUBSET Trackers /\ s.queued \cup {t} \in SUBSET Trackers
    BY <1>2, Fields DEF FieldsTyped
  <2>2. FieldsTyped(u)
    BY <1>2, <1>3, <1>4, <2>1, Fields DEF FieldsTyped
  <2> QED
    BY <1>2, <1>3, <2>2, Refield
<1>6. /\ Len(s.dpcs) \in Nat
      /\ DOMAIN s.dpcs = 1 .. Len(s.dpcs)
      /\ DOMAIN u.dpcs = 1 .. Len(s.dpcs) + 1
      /\ \A i \in 1 .. Len(s.dpcs) : u.dpcs[i] = s.dpcs[i]
      /\ u.dpcs[Len(s.dpcs) + 1] = t
  <2>1. u.dpcs = Append(s.dpcs, t)
    BY <1>3
  <2> QED
    BY <1>2, <2>1, AppendElements
<1>7. \A i \in DOMAIN s.dpcs : s.dpcs[i] # t
  BY DEF Good, Scheduled, Unscheduled
<1>8. u.queued = {u.dpcs[i] : i \in DOMAIN u.dpcs}
  <2>1. s.queued = {s.dpcs[i] : i \in 1 .. Len(s.dpcs)}
    BY <1>6 DEF Good, Scheduled
  <2>2. {u.dpcs[i] : i \in 1 .. Len(s.dpcs) + 1} = {u.dpcs[i] : i \in 1 .. Len(s.dpcs)} \cup {t}
    BY <1>6
  <2>3. {u.dpcs[i] : i \in 1 .. Len(s.dpcs)} = {s.dpcs[i] : i \in 1 .. Len(s.dpcs)}
    BY <1>6
  <2> QED
    BY <1>3, <1>6, <2>1, <2>2, <2>3
<1>9. \A i, j \in DOMAIN u.dpcs : u.dpcs[i] = u.dpcs[j] => i = j
  BY SMTT(40), <1>6, <1>7 DEF Good, Scheduled
<1>10. Scheduled(u) /\ PendingWithin(u)
  BY ZenonT(40), <1>3, <1>8, <1>9 DEF Good, Scheduled, PendingWithin, Unscheduled
<1> QED
  BY <1>5, <1>10 DEF Good, u

LEMMA CanSubmitBelowLimit ==
  ASSUME NEW s, NEW t, Good(s), CanSubmitXmitTracker(s, t)
  PROVE  s.pending < MaximumPendingXmitCount
<1>1. s.pending \in Int
  BY DEF Good, TxState
<1> QED
  BY <1>1 DEF CanSubmitXmitTracker

(* Marking it as waiting.                                                    *)
LEMMA WaitGood ==
  ASSUME NEW s, NEW t \in Trackers, Good(s), t \notin s.queued \cup s.busy
  PROVE  Good([s EXCEPT !.waiting = @ \cup {t}])
<1> DEFINE u == [s EXCEPT !.waiting = @ \cup {t}]
<1>1. s \in TxState
  BY DEF Good
<1>2. s.waiting \cup {t} \in SUBSET Trackers
  BY <1>1 DEF TxState
<1>3. /\ u \in TxState
      /\ u.waiting = s.waiting \cup {t} /\ u.queued = s.queued /\ u.busy = s.busy
      /\ u.dpcs = s.dpcs /\ u.pending = s.pending
  BY <1>1, <1>2 DEF TxState
<1> HIDE DEF u
<1>4. Scheduled(u) /\ PendingWithin(u)
  BY <1>3 DEF Good, Scheduled, PendingWithin
<1> QED
  BY <1>3, <1>4 DEF Good, u

(* No longer marking it.                                                     *)
LEMMA UnwaitGood ==
  ASSUME NEW s, NEW t \in Trackers, Good(s)
  PROVE  /\ Good([s EXCEPT !.waiting = @ \ {t}])
         /\ [s EXCEPT !.waiting = @ \ {t}].waiting = s.waiting \ {t}
         /\ [s EXCEPT !.waiting = @ \ {t}].queued = s.queued
         /\ [s EXCEPT !.waiting = @ \ {t}].busy = s.busy
         /\ [s EXCEPT !.waiting = @ \ {t}].pending = s.pending
<1> DEFINE u == [s EXCEPT !.waiting = @ \ {t}]
<1>1. s \in TxState
  BY DEF Good
<1>2. s.waiting \ {t} \in SUBSET Trackers
  BY <1>1 DEF TxState
<1>3. /\ u \in TxState
      /\ u.waiting = s.waiting \ {t} /\ u.queued = s.queued /\ u.busy = s.busy
      /\ u.dpcs = s.dpcs /\ u.pending = s.pending
  BY <1>1, <1>2 DEF TxState
<1> HIDE DEF u
<1>4. Scheduled(u) /\ PendingWithin(u)
  BY <1>3 DEF Good, Scheduled, PendingWithin
<1> QED
  BY <1>3, <1>4 DEF Good, u

LEMMA QueueOrSubmitGood ==
  ASSUME NEW s, NEW t \in Trackers, NEW direct, Good(s), Unscheduled(s, t)
  PROVE  Good(QueueOrSubmitXmitTrackerLocked(s, t, direct))
<1>1. CASE ~(EnableDispatchLevelDirectXmit /\ direct)
  BY <1>1, QueueGood DEF QueueOrSubmitXmitTrackerLocked
<1>2. CASE (EnableDispatchLevelDirectXmit /\ direct) /\ CanSubmitXmitTracker(s, t)
  BY <1>2, SubmitGood, CanSubmitBelowLimit DEF QueueOrSubmitXmitTrackerLocked
<1>3. CASE (EnableDispatchLevelDirectXmit /\ direct) /\ ~CanSubmitXmitTracker(s, t)
  BY <1>3, WaitGood DEF QueueOrSubmitXmitTrackerLocked, Unscheduled
<1> QED
  BY <1>1, <1>2, <1>3
-----------------------------------------------------------------------------
(* Searching a ring.                                                         *)

(* The nearest element of a set exists: its distance is the least one.       *)
LEMMA NearestElement ==
  ASSUME NEW size \in Nat \ {0}, NEW i \in Int, NEW S \in SUBSET (0 .. size - 1), S # {}
  PROVE  Nearest(i, S, size) \in S
<1> DEFINE distances == {Distance(i, j, size) : j \in S}
<1>1. \A j \in S : Distance(i, j, size) \in Nat
  BY DEF Distance
<1>2. distances \in SUBSET Nat /\ distances # {}
  BY <1>1
<1> HIDE DEF distances
<1>3. PICK d \in distances : \A e \in distances : d <= e
  BY <1>2, LeastElement
<1>4. PICK j \in S : d = Distance(i, j, size)
  BY <1>3 DEF distances
<1>5. \A k \in S : Distance(i, j, size) <= Distance(i, k, size)
  BY <1>3, <1>4 DEF distances
<1> QED
  BY <1>5 DEF Nearest

-----------------------------------------------------------------------------
(* NicXmit.                                                                  *)

LEMMA NextPacketGood ==
  ASSUME NEW s, NEW p \in Packets, Good(s)
  PROVE  /\ Good([s EXCEPT !.nextPacket = p])
         /\ SameSchedule([s EXCEPT !.nextPacket = p], s)
         /\ [s EXCEPT !.nextPacket = p].packet = s.packet
         /\ [s EXCEPT !.nextPacket = p].first = s.first
<1> DEFINE u == [s EXCEPT !.nextPacket = p]
<1>1. s \in TxState
  BY DEF Good
<1>2. u \in TxState /\ SameSchedule(u, s) /\ u.packet = s.packet /\ u.first = s.first
  BY <1>1 DEF TxState, SameSchedule
<1> HIDE DEF u
<1> QED
  BY <1>2, SameScheduleGood DEF u

LEMMA AllocateGood ==
  ASSUME NEW s, NEW t \in Trackers, NEW p \in Packets, Good(s)
  PROVE  /\ Good(AllocateXmitTracker(s, t, p))
         /\ SameSchedule(AllocateXmitTracker(s, t, p), s)
<1> DEFINE u == AllocateXmitTracker(s, t, p)
<1>1. s \in TxState
  BY DEF Good
<1>2. /\ [s.first EXCEPT ![t] = p] \in [Trackers -> Packets \cup {NULL}]
      /\ Successor(t, XMIT_TRACKER_COUNT) \in Trackers
      /\ s.active + 1 \in Int
  BY <1>1, RingTyped, Fields DEF FieldsTyped
<1>3. u = [s EXCEPT !.first = [s.first EXCEPT ![t] = p],
                    !.nextTracker = Successor(t, XMIT_TRACKER_COUNT), !.active = s.active + 1]
  BY <1>1 DEF AllocateXmitTracker, TxState
<1> HIDE DEF u
<1>4. /\ u.packet = s.packet /\ u.first = [s.first EXCEPT ![t] = p] /\ u.length = s.length
      /\ u.buffer = s.buffer /\ u.padded = s.padded /\ u.nextPacket = s.nextPacket
      /\ u.nextTracker = Successor(t, XMIT_TRACKER_COUNT) /\ u.active = s.active + 1
      /\ SameSchedule(u, s)
      /\ u = [f \in DOMAIN s |-> u[f]]
  BY <1>1, <1>3 DEF TxState, SameSchedule
<1>5. FieldsTyped(u)
  BY <1>1, <1>2, <1>4, Fields DEF FieldsTyped, SameSchedule
<1>6. u \in TxState
  BY <1>1, <1>4, <1>5, Refield
<1> QED
  BY <1>4, <1>6, SameScheduleGood DEF u

LEMMA ReleaseFailedGood ==
  ASSUME NEW s, NEW t \in Trackers, Good(s)
  PROVE  Good(ReleaseFailedXmitTracker(s, t))
<1> DEFINE u == ReleaseFailedXmitTracker(s, t)
<1>1. s \in TxState
  BY DEF Good
<1>2. /\ [s.first EXCEPT ![t] = NULL] \in [Trackers -> Packets \cup {NULL}]
      /\ s.active - 1 \in Int
  BY <1>1, Fields DEF FieldsTyped
<1>3. u = [s EXCEPT !.first = [s.first EXCEPT ![t] = NULL], !.active = s.active - 1]
  BY <1>1 DEF ReleaseFailedXmitTracker, TxState
<1> HIDE DEF u
<1>4. /\ u.packet = s.packet /\ u.first = [s.first EXCEPT ![t] = NULL] /\ u.length = s.length
      /\ u.buffer = s.buffer /\ u.padded = s.padded /\ u.nextPacket = s.nextPacket
      /\ u.nextTracker = s.nextTracker /\ u.active = s.active - 1
      /\ SameSchedule(u, s)
      /\ u = [f \in DOMAIN s |-> u[f]]
  BY <1>1, <1>3 DEF TxState, SameSchedule
<1>5. FieldsTyped(u)
  BY <1>1, <1>2, <1>4, Fields DEF FieldsTyped, SameSchedule
<1>6. u \in TxState
  BY <1>1, <1>4, <1>5, Refield
<1> QED
  BY <1>4, <1>6, SameScheduleGood DEF u

LEMMA StoreGood ==
  ASSUME NEW s, NEW t \in Trackers, NEW count, NEW offset \in Int, NEW user \in Users,
         NEW length \in Nat, NEW frame \in Frames, Good(s)
  PROVE  /\ Good(StoreFrame(s, t, count, offset, user, length, frame))
         /\ SameSchedule(StoreFrame(s, t, count, offset, user, length, frame), s)
<1> DEFINE u       == StoreFrame(s, t, count, offset, user, length, frame)
           content == [user |-> user, frame |-> frame]
           lengths == [s.length EXCEPT ![t] = offset + BytesWritten(offset, length)]
           padded  == IF NeedsTerminator(offset, length) THEN s.padded \cup {t} ELSE s.padded \ {t}
           frames  == IF count = 0 THEN <<content>> ELSE Append(s.buffer[t], content)
           buffers == [s.buffer EXCEPT ![t] = frames]
           packets == [s.packet EXCEPT ![s.nextPacket] =
                         [user |-> user, tracker |-> t, length |-> FramedLength(offset, length)]]
           next    == Successor(s.nextPacket, XMIT_PACKET_COUNT)
<1>1. s \in TxState
  BY DEF Good
<1>2. lengths \in [Trackers -> Int]
  <2>1. offset + BytesWritten(offset, length) \in Int
    BY FramingNatural
  <2> QED
    BY <1>1, <2>1, Fields DEF FieldsTyped
<1>3. padded \in SUBSET Trackers
  BY <1>1, Fields DEF FieldsTyped
<1>4. buffers \in [Trackers -> Seq([user: Users, frame: Frames])]
  <2>1. content \in [user: Users, frame: Frames]
    OBVIOUS
  <2>2. s.buffer[t] \in Seq([user: Users, frame: Frames])
    BY <1>1, Fields DEF FieldsTyped
  <2> HIDE DEF content
  <2>3. frames \in Seq([user: Users, frame: Frames])
    <3>1. <<content>> \in Seq([user: Users, frame: Frames])
      BY <2>1
    <3>2. Append(s.buffer[t], content) \in Seq([user: Users, frame: Frames])
      BY <2>1, <2>2
    <3> QED
      BY <3>1, <3>2, Zenon
  <2> HIDE DEF frames
  <2> QED
    BY <1>1, <2>3, Fields DEF FieldsTyped
<1>5. packets \in [Packets -> [user: Users \cup {NULL}, tracker: Trackers \cup {NULL}, length: Nat]]
  <2>1. [user |-> user, tracker |-> t, length |-> FramedLength(offset, length)]
          \in [user: Users \cup {NULL}, tracker: Trackers \cup {NULL}, length: Nat]
    BY FramingNatural
  <2> QED
    BY <1>1, <2>1, Fields DEF FieldsTyped
<1>6. next \in Packets
  BY <1>1, RingTyped, Fields DEF FieldsTyped
<1>7. u = [s EXCEPT !.length = lengths, !.padded = padded, !.buffer = buffers,
                    !.packet = packets, !.nextPacket = next]
  BY <1>1 DEF StoreFrame, TxState
<1> HIDE DEF u, lengths, padded, buffers, packets, next
<1>8. /\ u.packet = packets /\ u.first = s.first /\ u.length = lengths /\ u.buffer = buffers
      /\ u.padded = padded /\ u.nextPacket = next
      /\ u.nextTracker = s.nextTracker /\ u.active = s.active
      /\ SameSchedule(u, s)
      /\ u = [f \in DOMAIN s |-> u[f]]
  BY <1>1, <1>7 DEF TxState, SameSchedule
<1>9. FieldsTyped(u)
  BY <1>1, <1>2, <1>3, <1>4, <1>5, <1>6, <1>8, Fields DEF FieldsTyped, SameSchedule
<1>10. u \in TxState
  BY <1>1, <1>8, <1>9, Refield
<1> QED
  BY <1>8, <1>10, SameScheduleGood DEF u

LEMMA FillGood ==
  ASSUME NEW s, NEW t \in Trackers, NEW count, NEW user \in Users, NEW length \in Nat,
         NEW frame \in Frames, NEW submit, NEW direct, Good(s)
  PROVE  Good(FillFrame(s, t, count, user, length, frame, submit, direct))
<1> DEFINE offset == IF count = 0 THEN 0 ELSE FrameBytes(s, t)
           stored == StoreFrame(s, t, count, offset, user, length, frame)
<1>1. offset \in Int
  <2>1. s \in TxState
    BY DEF Good
  <2>2. s.length[t] \in Int
    BY <2>1, Fields DEF FieldsTyped
  <2>3. FrameBytes(s, t) \in Int
    <3>1. GetTransmitTerminatorSize \in Int
      BY DEF GetTransmitTerminatorSize
    <3> QED
      BY <2>2, <3>1 DEF FrameBytes
  <2>4. 0 \in Int
    OBVIOUS
  <2> QED
    BY <2>3, <2>4, Zenon
<1> HIDE DEF offset
<1>2. Good(stored)
  BY <1>1, StoreGood
<1> HIDE DEF stored
<1>3. Unscheduled(stored, t) => Good(QueueOrSubmitXmitTrackerLocked(stored, t, direct))
  BY <1>2, QueueOrSubmitGood
<1>4. Good(ReleaseFailedXmitTracker(s, t))
  BY ReleaseFailedGood
<1> QED
  BY <1>2, <1>3, <1>4, Zenon DEF FillFrame, offset, stored

LEMMA CloseGood ==
  ASSUME NEW s, NEW t \in Trackers \cup {NULL}, NEW direct, Good(s), t \notin s.busy
  PROVE  Good(CloseXmitTracker(s, t, direct))
<1>1. CASE t # NULL /\ t \notin s.waiting \cup s.queued
  <2>1. t \in Trackers /\ Unscheduled(s, t)
    BY <1>1 DEF Unscheduled
  <2> QED
    BY <1>1, <2>1, QueueOrSubmitGood DEF CloseXmitTracker
<1>2. CASE ~ (t # NULL /\ t \notin s.waiting \cup s.queued)
  BY <1>2 DEF CloseXmitTracker
<1> QED
  BY <1>1, <1>2

(* The previous tracker is a tracker that USB does not own, or none.         *)
LEMMA PreviousTrackerTyped ==
  ASSUME NEW s, NEW packet \in Packets, NEW user, Good(s)
  PROVE  /\ PreviousTracker(s, packet, user) \in Trackers \cup {NULL}
         /\ PreviousTracker(s, packet, user) \notin s.busy
<1>1. s \in TxState
  BY DEF Good
<1>2. Predecessor(packet, XMIT_PACKET_COUNT) \in Packets
  BY DEF Predecessor, Packets
<1>3. s.packet[Predecessor(packet, XMIT_PACKET_COUNT)].tracker \in Trackers \cup {NULL}
  BY <1>1, <1>2, Fields DEF FieldsTyped
<1>4. NULL \notin s.busy
  BY <1>1, Fields DEF FieldsTyped, Trackers
<1> QED
  BY <1>3, <1>4, Zenon DEF PreviousTracker

LEMMA NicXmitGood ==
  ASSUME IInv, NEW user \in Users, NEW length \in Nat, NEW direct, NEW frame \in Frames,
         NicXmit(user, length, direct, frame)
  PROVE  Good(tx')
<1> DEFINE packet   == Nearest(tx.nextPacket, FreePackets(tx), XMIT_PACKET_COUNT)
           previous == PreviousTracker(tx, packet, user)
           moved    == [tx EXCEPT !.nextPacket = packet]
           closed   == CloseXmitTracker(moved, previous, direct)
<1>1. Good(tx)
  BY DEF IInv
<1>2. packet \in Packets
  <2>1. FreePackets(tx) # {} /\ FreePackets(tx) \in SUBSET Packets
    BY DEF NicXmit, FreePackets
  <2>2. tx.nextPacket \in Int
    BY <1>1, Fields DEF Good, FieldsTyped, Packets
  <2>3. packet \in FreePackets(tx)
    BY <2>1, <2>2, NearestElement DEF Packets
  <2> QED
    BY <2>1, <2>3
<1>3. /\ IF previous # NULL /\ CanAppend(tx, previous, user, length)
         THEN NicXmitAppend(user, length, direct, frame, packet, previous)
         ELSE \/ NicXmitAllocate(user, length, direct, frame, packet, previous)
              \/ NicXmitDrop(user, length, direct, packet, previous)
  BY DEF NicXmit
<1> HIDE DEF packet
<1>4. previous \in Trackers \cup {NULL} /\ previous \notin tx.busy
  BY <1>1, <1>2, PreviousTrackerTyped
<1> HIDE DEF previous
<1>5. Good(moved) /\ previous \notin moved.busy
  BY <1>1, <1>2, <1>4, NextPacketGood DEF SameSchedule
<1>6. Good(closed)
  BY <1>4, <1>5, CloseGood
<1>7. CASE previous # NULL /\ NicXmitAppend(user, length, direct, frame, packet, previous)
  <2>1. previous \in Trackers
    BY <1>4, <1>7
  <2> QED
    BY <1>5, <1>7, <2>1, FillGood DEF NicXmitAppend
<1>8. CASE NicXmitAllocate(user, length, direct, frame, packet, previous)
  <2> DEFINE t == Nearest(closed.nextTracker, FreeTrackers(closed), XMIT_TRACKER_COUNT)
             opened == AllocateXmitTracker(closed, t, packet)
  <2>1. FreeTrackers(closed) # {} /\ FreeTrackers(closed) \in SUBSET Trackers
    BY <1>8 DEF NicXmitAllocate, FreeTrackers
  <2>2. closed.nextTracker \in Int
    BY SMTT(40), <1>6, Fields DEF Good, FieldsTyped, Trackers
  <2> HIDE DEF closed
  <2>3. t \in Trackers
    BY <2>1, <2>2, NearestElement DEF Trackers
  <2> HIDE DEF t
  <2>4. Good(opened)
    BY <1>2, <1>6, <2>3, AllocateGood
  <2> HIDE DEF opened
  <2>5. tx' = FillFrame(opened, t, 0, user, length, frame,
                        IsImmediate(user, length) \/ PipeIdle(closed), direct)
    BY <1>8 DEF NicXmitAllocate, opened, t, closed
  <2> QED
    BY <2>3, <2>4, <2>5, FillGood
<1>9. CASE NicXmitDrop(user, length, direct, packet, previous)
  BY <1>6, <1>9 DEF NicXmitDrop
<1> QED
  BY <1>3, <1>7, <1>8, <1>9

-----------------------------------------------------------------------------
(* The DPC, the completion and the refill loop.                              *)

(* The fields a tracker's layout is read off.                                *)
SameLayout(u, s) ==
  /\ u.packet = s.packet /\ u.first = s.first /\ u.length = s.length
  /\ u.buffer = s.buffer /\ u.padded = s.padded

(* u is s without t in the DPC queue.                                        *)
Dequeued(s, u, t) ==
  /\ SameLayout(u, s) /\ u.waiting = s.waiting /\ u.queued = s.queued \ {t}
  /\ u.busy = s.busy /\ u.nextPacket = s.nextPacket /\ u.pending = s.pending

LEMMA DequeueGood ==
  ASSUME NEW s, Good(s), s.dpcs # <<>>
  PROVE  LET t == Head(s.dpcs)
             u == [s EXCEPT !.dpcs = Tail(@), !.queued = @ \ {t}]
         IN  t \in Trackers /\ t \in s.queued /\ Good(u) /\ Dequeued(s, u, t)
<1> DEFINE t == Head(s.dpcs)
           u == [s EXCEPT !.dpcs = Tail(@), !.queued = @ \ {t}]
<1>1. s \in TxState /\ s.dpcs \in Seq(Trackers)
  BY DEF Good, TxState
<1>2. /\ Len(s.dpcs) \in Nat /\ Len(s.dpcs) > 0
      /\ DOMAIN s.dpcs = 1 .. Len(s.dpcs)
      /\ t = s.dpcs[1] /\ t \in Trackers
      /\ Tail(s.dpcs) \in Seq(Trackers)
      /\ DOMAIN Tail(s.dpcs) = 1 .. Len(s.dpcs) - 1
      /\ \A i \in 1 .. Len(s.dpcs) - 1 : Tail(s.dpcs)[i] = s.dpcs[i + 1]
  BY <1>1
<1>3. t \in s.queued
  BY <1>2 DEF Good, Scheduled
<1> HIDE DEF t
<1>4. /\ u.packet = s.packet /\ u.first = s.first /\ u.length = s.length
      /\ u.buffer = s.buffer /\ u.padded = s.padded /\ u.waiting = s.waiting
      /\ u.queued = s.queued \ {t} /\ u.busy = s.busy /\ u.dpcs = Tail(s.dpcs)
      /\ u.nextPacket = s.nextPacket /\ u.nextTracker = s.nextTracker
      /\ u.pending = s.pending /\ u.active = s.active
      /\ u = [f \in DOMAIN s |-> u[f]]
  BY <1>1 DEF TxState
<1> HIDE DEF u
<1>5. u \in TxState
  <2>1. s.queued \ {t} \in SUBSET Trackers
    BY <1>1, Fields DEF FieldsTyped
  <2>2. FieldsTyped(u)
    BY <1>1, <1>2, <1>4, <2>1, Fields DEF FieldsTyped
  <2> QED
    BY <1>1, <1>4, <2>2, Refield
<1>6. s.queued = {s.dpcs[i] : i \in DOMAIN s.dpcs}
  BY DEF Good, Scheduled
<1>7. u.queued = {u.dpcs[i] : i \in DOMAIN u.dpcs}
  <2>1. u.queued = s.queued \ {Head(s.dpcs)} /\ u.dpcs = Tail(s.dpcs)
    BY <1>4 DEF t
  <2>2. \A i, j \in DOMAIN s.dpcs : s.dpcs[i] = s.dpcs[j] => i = j
    BY DEF Good, Scheduled
  <2>3. {Tail(s.dpcs)[i] : i \in DOMAIN Tail(s.dpcs)}
          = {s.dpcs[i] : i \in DOMAIN s.dpcs} \ {Head(s.dpcs)}
    BY <1>1, <2>2, TailElements
  <2> QED
    BY <1>6, <2>1, <2>3, Zenon
<1>8. \A i, j \in DOMAIN u.dpcs : u.dpcs[i] = u.dpcs[j] => i = j
  <2>1. u.dpcs = Tail(s.dpcs)
    BY <1>4
  <2> QED
    BY <1>1, <2>1, TailElements DEF Good, Scheduled
<1>9. Good(u)
  BY <1>4, <1>5, <1>7, <1>8 DEF Good, Scheduled, PendingWithin
<1>10. Dequeued(s, u, t)
  BY <1>4 DEF Dequeued, SameLayout
<1> QED
  BY <1>2, <1>3, <1>9, <1>10 DEF u, t

LEMMA BulkXmitSwitchProcsGood ==
  ASSUME IInv, BulkXmitSwitchProcs
  PROVE  Good(tx')
<1> DEFINE t == Head(tx.dpcs)
           u == [tx EXCEPT !.dpcs = Tail(@), !.queued = @ \ {t}]
           v == [u EXCEPT !.waiting = @ \ {t}]
<1>1. Good(tx) /\ tx.dpcs # <<>>
  BY DEF IInv, BulkXmitSwitchProcs
<1>2. t \in Trackers /\ t \in tx.queued /\ Good(u) /\ Dequeued(tx, u, t)
  BY <1>1, DequeueGood, Zenon
<1>3. tx' = IF closing \/ ~CanSubmitXmitTracker(u, t)
            THEN [u EXCEPT !.waiting = @ \cup {t}]
            ELSE SubmitXmitTrackerLocked(v, t)
  BY DEF BulkXmitSwitchProcs
<1> HIDE DEF t, u
<1>4. Unscheduled(u, t)
  BY <1>1, <1>2 DEF Unscheduled, Dequeued, Good, Scheduled
<1>5. Good([u EXCEPT !.waiting = @ \cup {t}])
  BY <1>2, <1>4, WaitGood DEF Unscheduled
<1>6. ASSUME CanSubmitXmitTracker(u, t)
      PROVE  Good(SubmitXmitTrackerLocked(v, t))
  <2>1. /\ Good(v) /\ v.waiting = u.waiting \ {t} /\ v.queued = u.queued
        /\ v.busy = u.busy /\ v.pending = u.pending
    BY <1>2, UnwaitGood
  <2> HIDE DEF v
  <2>2. Unscheduled(v, t) /\ v.pending < MaximumPendingXmitCount
    BY <1>2, <1>4, <1>6, <2>1, CanSubmitBelowLimit DEF Unscheduled
  <2> QED
    BY <1>2, <2>1, <2>2, SubmitGood
<1> QED
  BY <1>3, <1>5, <1>6

LEMMA CompleteTransmitGood ==
  ASSUME IInv, NEW t \in Trackers, CompleteTransmit(t)
  PROVE  Good(tx')
<1>1. tx \in TxState
  BY DEF IInv, Good
<1>2. tx' = [tx EXCEPT !.first  = [tx.first EXCEPT ![t] = NULL],
                       !.buffer = [tx.buffer EXCEPT ![t] = <<>>],
                       !.length = [tx.length EXCEPT ![t] = 0],
                       !.busy   = tx.busy \ {t}, !.padded = tx.padded \ {t},
                       !.pending = tx.pending - 1, !.active = tx.active - 1]
  BY <1>1 DEF CompleteTransmit, TxState
<1>3. /\ tx'.packet = tx.packet /\ tx'.first = [tx.first EXCEPT ![t] = NULL]
      /\ tx'.length = [tx.length EXCEPT ![t] = 0]
      /\ tx'.buffer = [tx.buffer EXCEPT ![t] = <<>>] /\ tx'.padded = tx.padded \ {t}
      /\ tx'.waiting = tx.waiting /\ tx'.queued = tx.queued /\ tx'.busy = tx.busy \ {t}
      /\ tx'.dpcs = tx.dpcs /\ tx'.nextPacket = tx.nextPacket
      /\ tx'.nextTracker = tx.nextTracker /\ tx'.pending = tx.pending - 1
      /\ tx'.active = tx.active - 1
      /\ tx' = [f \in DOMAIN tx |-> tx'[f]]
  BY <1>1, <1>2 DEF TxState
<1>4. /\ tx'.first \in [Trackers -> Packets \cup {NULL}]
      /\ tx'.length \in [Trackers -> Int]
      /\ tx'.buffer \in [Trackers -> Seq([user: Users, frame: Frames])]
      /\ tx'.padded \in SUBSET Trackers /\ tx'.busy \in SUBSET Trackers
      /\ tx'.pending \in Int /\ tx'.active \in Int
  <2>1. /\ [tx.first EXCEPT ![t] = NULL] \in [Trackers -> Packets \cup {NULL}]
        /\ [tx.length EXCEPT ![t] = 0] \in [Trackers -> Int]
    BY <1>1, Fields DEF FieldsTyped
  <2>2. [tx.buffer EXCEPT ![t] = <<>>] \in [Trackers -> Seq([user: Users, frame: Frames])]
    <3>1. <<>> \in Seq([user: Users, frame: Frames])
      OBVIOUS
    <3> QED
      BY <1>1, <3>1, Fields DEF FieldsTyped
  <2>3. /\ tx.padded \ {t} \in SUBSET Trackers /\ tx.busy \ {t} \in SUBSET Trackers
        /\ tx.pending - 1 \in Int /\ tx.active - 1 \in Int
    BY <1>1, Fields DEF FieldsTyped
  <2> QED
    BY <1>3, <2>1, <2>2, <2>3
<1>5. FieldsTyped(tx')
  BY <1>1, <1>3, <1>4, Fields DEF FieldsTyped
<1>6. tx' \in TxState
  BY <1>1, <1>3, <1>5, Refield
<1>7. Scheduled(tx')
  BY SMTT(40), <1>3 DEF IInv, Good, Scheduled
<1>8. PendingWithin(tx')
  <2>1. tx.busy \in SUBSET Trackers /\ tx.pending \in Int
    BY <1>1, Fields DEF FieldsTyped
  <2>2. Cardinality(tx.busy \ {t}) = Cardinality(tx.busy) - 1
    BY <2>1, BusyFinite, FS_RemoveElement DEF CompleteTransmit
  <2> QED
    BY SMTT(40), <1>3, <2>1, <2>2 DEF PendingWithin, IInv, Good
<1> QED
  BY <1>6, <1>7, <1>8 DEF Good

(* What the refill loop selects may be submitted.                            *)
LEMMA SelectableCanSubmit ==
  ASSUME NEW s, NEW t \in SelectableXmitTrackers(s), Good(s)
  PROVE  /\ t \in HeldTrackers(s) /\ t \notin s.busy \cup s.queued
         /\ CanSubmitXmitTracker(s, t)
<1>1. s.pending \in Int
  BY DEF Good, TxState
<1> DEFINE debugFree == s.pending < MaximumPendingXmitCount
           titleFree == s.pending < MaximumTitlePendingXmitCount
           classes == << IF debugFree THEN ReadyXmitTrackers(s, TRUE, TRUE) ELSE {},
                         IF debugFree /\ s.pending = 0
                           THEN ReadyXmitTrackers(s, TRUE, FALSE) ELSE {},
                         IF titleFree THEN ReadyXmitTrackers(s, FALSE, TRUE) ELSE {},
                         IF titleFree THEN ReadyXmitTrackers(s, FALSE, FALSE) ELSE {} >>
<1>2. PICK i \in 1 .. 4 : t \in classes[i]
  BY Zenon DEF SelectableXmitTrackers
<1> HIDE DEF debugFree, titleFree
<1>3. /\ classes[1] = IF debugFree THEN ReadyXmitTrackers(s, TRUE, TRUE) ELSE {}
      /\ classes[2] = IF debugFree /\ s.pending = 0
                        THEN ReadyXmitTrackers(s, TRUE, FALSE) ELSE {}
      /\ classes[3] = IF titleFree THEN ReadyXmitTrackers(s, FALSE, TRUE) ELSE {}
      /\ classes[4] = IF titleFree THEN ReadyXmitTrackers(s, FALSE, FALSE) ELSE {}
  OBVIOUS
<1> HIDE DEF classes
<1>4. i = 1 \/ i = 2 \/ i = 3 \/ i = 4
  OBVIOUS
<1>5. \/ debugFree /\ \E wait \in BOOLEAN : t \in ReadyXmitTrackers(s, TRUE, wait)
      \/ titleFree /\ \E wait \in BOOLEAN : t \in ReadyXmitTrackers(s, FALSE, wait)
  BY <1>2, <1>3, <1>4, Zenon
<1>6. CASE debugFree /\ \E wait \in BOOLEAN : t \in ReadyXmitTrackers(s, TRUE, wait)
  BY <1>6 DEF ReadyXmitTrackers, CanSubmitXmitTracker, debugFree
<1>7. CASE titleFree /\ \E wait \in BOOLEAN : t \in ReadyXmitTrackers(s, FALSE, wait)
  BY <1>7 DEF ReadyXmitTrackers, CanSubmitXmitTracker, titleFree
<1> QED
  BY <1>5, <1>6, <1>7

LEMMA ScheduleReadyXmitTrackersGood ==
  ASSUME IInv, ScheduleReadyXmitTrackers
  PROVE  Good(tx') /\ refill' \in Trackers \cup {NULL}
<1> DEFINE t == FindReadyXmitTracker(tx, refill)
           u == [tx EXCEPT !.waiting = @ \ {t}]
<1>1. CASE SelectableXmitTrackers(tx) = {}
  BY <1>1 DEF ScheduleReadyXmitTrackers, IInv
<1>2. CASE SelectableXmitTrackers(tx) # {}
  <2>1. Good(tx) /\ refill \in Trackers
    BY DEF IInv, ScheduleReadyXmitTrackers
  <2>2. SelectableXmitTrackers(tx) \in SUBSET Trackers
    BY <2>1, SelectableCanSubmit DEF HeldTrackers
  <2>3. Successor(refill, XMIT_TRACKER_COUNT) \in Int
    BY <2>1, RingTyped DEF Trackers
  <2>4. t \in SelectableXmitTrackers(tx)
    BY <1>2, <2>2, <2>3, NearestElement DEF FindReadyXmitTracker, Trackers
  <2>5. tx' = SubmitXmitTrackerLocked(u, t) /\ refill' = t
    BY <1>2 DEF ScheduleReadyXmitTrackers
  <2> HIDE DEF t
  <2>6. t \in Trackers /\ t \notin tx.busy \cup tx.queued /\ tx.pending < MaximumPendingXmitCount
    BY <2>1, <2>4, SelectableCanSubmit, CanSubmitBelowLimit DEF HeldTrackers
  <2>7. /\ Good(u) /\ u.waiting = tx.waiting \ {t} /\ u.queued = tx.queued
        /\ u.busy = tx.busy /\ u.pending = tx.pending
    BY <2>1, <2>6, UnwaitGood
  <2> HIDE DEF u
  <2>8. Unscheduled(u, t) /\ u.pending < MaximumPendingXmitCount
    BY <2>6, <2>7 DEF Unscheduled
  <2> QED
    BY <2>5, <2>6, <2>7, <2>8, SubmitGood
<1> QED
  BY <1>1, <1>2

-----------------------------------------------------------------------------
(* The theorems about scheduling, for every chipset.                         *)

LEMMA InitInvariant == Init => IInv
<1> SUFFICES ASSUME Init PROVE IInv
  OBVIOUS
<1>1. /\ FreePacket \in [user: Users \cup {NULL}, tracker: Trackers \cup {NULL}, length: Nat]
      /\ 0 \in Packets /\ 0 \in Trackers
      /\ <<>> \in Seq([user: Users, frame: Frames]) /\ <<>> \in Seq(Trackers)
  BY DEF FreePacket, Packets, Trackers
<1>2. tx \in TxState
  BY <1>1 DEF Init, TxState
<1>3. Scheduled(tx)
  BY DEF Init, Scheduled
<1>4. PendingWithin(tx)
  BY FS_EmptySet DEF Init, PendingWithin
<1> QED
  BY <1>2, <1>3, <1>4 DEF Init, IInv, Good

LEMMA NextInvariant == IInv /\ [Next]_vars => IInv'
<1> SUFFICES ASSUME IInv, [Next]_vars PROVE IInv'
  OBVIOUS
<1>1. ASSUME NEW user \in Users, NEW length \in Lengths, NEW direct \in BOOLEAN,
             NEW frame \in Frames, NicXmit(user, length, direct, frame)
      PROVE  IInv'
  <2>1. Good(tx')
    BY <1>1, NicXmitGood
  <2> QED
    BY <1>1, <2>1 DEF IInv, NicXmit, Good, TxState, Scheduled, PendingWithin
<1>2. CASE BulkXmitSwitchProcs
  BY <1>2, BulkXmitSwitchProcsGood DEF IInv, BulkXmitSwitchProcs
<1>3. ASSUME NEW t \in Trackers, CompleteTransmit(t) PROVE IInv'
  BY <1>3, CompleteTransmitGood DEF IInv, CompleteTransmit
<1>4. CASE ScheduleReadyXmitTrackers
  BY <1>4, ScheduleReadyXmitTrackersGood DEF IInv, ScheduleReadyXmitTrackers
<1>5. CASE BeginClose
  BY <1>5 DEF IInv, BeginClose
<1>6. CASE UNCHANGED vars
  BY <1>6 DEF IInv, vars
<1> QED
  BY <1>1, <1>2, <1>3, <1>4, <1>5, <1>6 DEF Next

(* Every reachable state satisfies the inductive invariant.                  *)
THEOREM Invariant == Spec => []IInv
  BY InitInvariant, NextInvariant, PTL DEF Spec

(* The transmit fields of the device extension keep their types: the ring    *)
(* cursors stay inside their rings and a recorded length is never negative.  *)
THEOREM TypeCorrect == Spec => []TypeOK
<1>1. IInv => TypeOK
  BY DEF IInv, TypeOK, Good
<1> QED
  BY <1>1, Invariant, PTL

(* No tracker is ever waiting, queued and with USB at once, and QUEUED stands *)
(* for one entry of the DPC queue, for every number of trackers and users.    *)
THEOREM NeverScheduledTwice == Spec => []ScheduledOnce
<1>1. IInv => ScheduledOnce
  BY DEF IInv, ScheduledOnce, Good, Scheduled
<1> QED
  BY <1>1, Invariant, PTL

(* PendingXmitCount is the number of transfers with USB and within the limit, *)
(* whichever of NicXmit, the DPC and the refill loop submits.                 *)
THEOREM NeverOverCommitted == Spec => []PendingBounded
<1>1. IInv => PendingBounded
  BY DEF IInv, PendingBounded, Good, PendingWithin
<1> QED
  BY <1>1, Invariant, PTL

-----------------------------------------------------------------------------
(* The walk round the ring.                                                  *)

(* Steps round a ring, and how far they lead.                                *)
LEMMA RingStep ==
  ASSUME NEW n \in Nat \ {0}, NEW f \in 0 .. n - 1, NEW i \in 0 .. n
  PROVE  (f + i) % n = IF f + i < n THEN f + i ELSE f + i - n
<1>1. CASE f + i < n
  BY <1>1
<1>2. CASE ~(f + i < n)
  <2>1. f + i - n \in 0 .. n - 1 /\ f + i = (f + i - n) + n
    BY <1>2
  <2> QED
    BY <1>2, <2>1
<1> QED
  BY <1>1, <1>2

LEMMA RingDistance ==
  ASSUME NEW n \in Nat \ {0}, NEW f \in 0 .. n - 1, NEW p \in 0 .. n - 1
  PROVE  Distance(f, p, n) = IF p < f THEN p + n - f ELSE p - f
<1>1. CASE p < f
  <2>1. p + n - f \in 0 .. n - 1
    BY <1>1
  <2> QED
    BY <1>1, <2>1 DEF Distance
<1>2. CASE ~(p < f)
  <2>1. p - f \in 0 .. n - 1 /\ p + n - f = (p - f) + n
    BY <1>2
  <2>2. (p + n - f) % n = p - f
    BY <2>1
  <2> QED
    BY <1>2, <2>2 DEF Distance
<1> QED
  BY <1>1, <1>2

LEMMA RingInverse ==
  ASSUME NEW n \in Nat \ {0}, NEW f \in 0 .. n - 1
  PROVE  /\ \A i \in 0 .. n - 1 : /\ (f + i) % n \in 0 .. n - 1
                                  /\ Distance(f, (f + i) % n, n) = i
         /\ \A p \in 0 .. n - 1 : /\ Distance(f, p, n) \in 0 .. n - 1
                                  /\ (f + Distance(f, p, n)) % n = p
<1>1. ASSUME NEW i \in 0 .. n - 1
      PROVE  (f + i) % n \in 0 .. n - 1 /\ Distance(f, (f + i) % n, n) = i
  <2> DEFINE q == (f + i) % n
  <2>0. i \in 0 .. n
    OBVIOUS
  <2>1. q = IF f + i < n THEN f + i ELSE f + i - n
    BY <2>0, RingStep
  <2> HIDE DEF q
  <2>2. q \in 0 .. n - 1
    BY <2>1
  <2>3. Distance(f, q, n) = IF q < f THEN q + n - f ELSE q - f
    BY <2>2, RingDistance
  <2>4. Distance(f, q, n) = i
    BY <2>1, <2>2, <2>3
  <2> QED
    BY <2>2, <2>4 DEF q
<1>2. ASSUME NEW p \in 0 .. n - 1
      PROVE  Distance(f, p, n) \in 0 .. n - 1 /\ (f + Distance(f, p, n)) % n = p
  <2> DEFINE d == Distance(f, p, n)
  <2>1. d = IF p < f THEN p + n - f ELSE p - f
    BY RingDistance
  <2> HIDE DEF d
  <2>2. d \in 0 .. n - 1
    BY <2>1
  <2>3. (f + d) % n = IF f + d < n THEN f + d ELSE f + d - n
    <3>1. d \in 0 .. n
      BY <2>2
    <3> QED
      BY <3>1, RingStep
  <2>4. (f + d) % n = p
    BY <2>1, <2>2, <2>3
  <2> QED
    BY <2>2, <2>4 DEF d
<1> QED
  BY <1>1, <1>2

LEMMA WalkPosition ==
  ASSUME NEW s \in TxState, NEW t \in Trackers, s.first[t] # NULL
  PROVE  /\ \A i \in 0 .. XMIT_PACKET_COUNT - 1 :
              /\ WalkPacket(s, t, i) \in Packets
              /\ Distance(s.first[t], WalkPacket(s, t, i), XMIT_PACKET_COUNT) = i
         /\ \A p \in Packets :
              /\ Distance(s.first[t], p, XMIT_PACKET_COUNT) \in 0 .. XMIT_PACKET_COUNT - 1
              /\ WalkPacket(s, t, Distance(s.first[t], p, XMIT_PACKET_COUNT)) = p
<1>1. s.first[t] \in 0 .. XMIT_PACKET_COUNT - 1
  BY Fields DEF FieldsTyped, Packets
<1>2. XMIT_PACKET_COUNT \in Nat \ {0}
  OBVIOUS
<1> QED
  BY <1>1, <1>2, RingInverse, Zenon DEF WalkPacket, Packets

(* The recursive definition of the walk is well founded.                     *)
LEMMA Countdown ==
  ASSUME NEW a \in Int, NEW w \in [1 .. XMIT_PACKET_COUNT -> Int]
  PROVE  \E r \in [0 .. XMIT_PACKET_COUNT -> Int] :
           r = [i \in 0 .. XMIT_PACKET_COUNT |-> IF i = 0 THEN a ELSE r[i - 1] - w[i]]
<1> DEFINE Exists(n) == \E r \in [0 .. n -> Int] :
                          r = [i \in 0 .. n |-> IF i = 0 THEN a ELSE r[i - 1] - w[i]]
           gaps == {n \in 0 .. XMIT_PACKET_COUNT : ~Exists(n)}
<1>1. Exists(0)
  <2> DEFINE r == [i \in 0 .. 0 |-> a]
  <2>1. r \in [0 .. 0 -> Int]
    OBVIOUS
  <2>2. r = [i \in 0 .. 0 |-> IF i = 0 THEN a ELSE r[i - 1] - w[i]]
    OBVIOUS
  <2> QED
    BY <2>1, <2>2
<1>2. ASSUME NEW n \in 0 .. XMIT_PACKET_COUNT, n > 0, Exists(n - 1)
      PROVE  Exists(n)
  <2>1. PICK r \in [0 .. n - 1 -> Int] :
          r = [i \in 0 .. n - 1 |-> IF i = 0 THEN a ELSE r[i - 1] - w[i]]
    BY <1>2
  <2> DEFINE q == [i \in 0 .. n |-> IF i = n THEN r[n - 1] - w[n] ELSE r[i]]
  <2>2. /\ n - 1 \in 0 .. n - 1 /\ n \in 1 .. XMIT_PACKET_COUNT
        /\ \A i \in 0 .. n : i = n \/ i \in 0 .. n - 1
        /\ \A i \in 0 .. n : i # 0 => i - 1 \in 0 .. n - 1 /\ i - 1 # n
    BY <1>2
  <2>3. q \in [0 .. n -> Int]
    BY <2>2
  <2>4. ASSUME NEW i \in 0 .. n
        PROVE  q[i] = IF i = 0 THEN a ELSE q[i - 1] - w[i]
    <3>1. \A k \in 0 .. n - 1 : r[k] = IF k = 0 THEN a ELSE r[k - 1] - w[k]
      BY <2>1
    <3>2. i # 0 => q[i - 1] = r[i - 1]
      BY <2>2
    <3>3. CASE i = n
      BY <1>2, <2>2, <3>2, <3>3
    <3>4. CASE i \in 0 .. n - 1
      <4>1. q[i] = r[i]
        BY <3>4
      <4> QED
        BY <3>1, <3>2, <3>4, <4>1
    <3> QED
      BY <2>2, <3>3, <3>4
  <2> HIDE DEF q
  <2>5. q = [i \in 0 .. n |-> IF i = 0 THEN a ELSE q[i - 1] - w[i]]
    BY <2>3, <2>4
  <2> QED
    BY <2>3, <2>5
<1>3. gaps = {}
  <2> SUFFICES ASSUME gaps # {} PROVE FALSE
    OBVIOUS
  <2>1. gaps \in SUBSET Nat
    OBVIOUS
  <2> HIDE DEF Exists
  <2>2. PICK m \in gaps : \A k \in gaps : m <= k
    BY <2>1, LeastElement
  <2>3. m # 0
    BY <1>1, <2>2
  <2>4. m - 1 \in 0 .. XMIT_PACKET_COUNT /\ m - 1 \notin gaps
    BY <2>2, <2>3
  <2> QED
    BY <1>2, <2>2, <2>3, <2>4
<1>4. Exists(XMIT_PACKET_COUNT)
  <2> HIDE DEF Exists
  <2> QED
    BY <1>3
<1> QED
  BY <1>4

LEMMA FrameBytesTyped ==
  ASSUME NEW s \in TxState, NEW t \in Trackers
  PROVE  FrameBytes(s, t) \in Int
<1>1. s.length[t] \in Int
  BY Fields DEF FieldsTyped
<1>2. GetTransmitTerminatorSize \in Int
  BY DEF GetTransmitTerminatorSize
<1> QED
  BY <1>1, <1>2 DEF FrameBytes

LEMMA WalkUnfolds ==
  ASSUME NEW s \in TxState, NEW t \in Trackers, s.first[t] # NULL
  PROVE  LET r == WalkRemaining(s, t)
         IN  /\ r \in [0 .. XMIT_PACKET_COUNT -> Int]
             /\ r[0] = FrameBytes(s, t)
             /\ \A i \in 1 .. XMIT_PACKET_COUNT :
                  r[i] = r[i - 1] - s.packet[WalkPacket(s, t, i - 1)].length
<1> DEFINE w == [i \in 1 .. XMIT_PACKET_COUNT |-> s.packet[WalkPacket(s, t, i - 1)].length]
           P(r) == r = [i \in 0 .. XMIT_PACKET_COUNT |->
                          IF i = 0 THEN FrameBytes(s, t)
                          ELSE r[i - 1] - s.packet[WalkPacket(s, t, i - 1)].length]
<1>1. w \in [1 .. XMIT_PACKET_COUNT -> Int]
  <2>1. ASSUME NEW i \in 1 .. XMIT_PACKET_COUNT
        PROVE  s.packet[WalkPacket(s, t, i - 1)].length \in Int
    <3>1. WalkPacket(s, t, i - 1) \in Packets
      <4>1. i - 1 \in 0 .. XMIT_PACKET_COUNT - 1
        OBVIOUS
      <4> QED
        BY <4>1, WalkPosition
    <3> QED
      BY <3>1, Fields DEF FieldsTyped
  <2> QED
    BY <2>1
<1>2. FrameBytes(s, t) \in Int
  BY FrameBytesTyped
<1>3. PICK q \in [0 .. XMIT_PACKET_COUNT -> Int] :
        q = [i \in 0 .. XMIT_PACKET_COUNT |-> IF i = 0 THEN FrameBytes(s, t) ELSE q[i - 1] - w[i]]
  <2> HIDE DEF w
  <2> QED
    BY <1>1, <1>2, Countdown
<1>4. P(q)
  <2>1. \A i \in 0 .. XMIT_PACKET_COUNT : i # 0 => w[i] = s.packet[WalkPacket(s, t, i - 1)].length
    OBVIOUS
  <2> HIDE DEF w
  <2> QED
    BY <1>3, <2>1
<1>5. WalkRemaining(s, t) = CHOOSE r : P(r)
  BY DEF WalkRemaining
<1>6. P(WalkRemaining(s, t))
  <2> HIDE DEF P
  <2> QED
    BY <1>4, <1>5
<1> DEFINE r == WalkRemaining(s, t)
<1>7. ASSUME NEW i \in 0 .. XMIT_PACKET_COUNT
      PROVE  /\ r[i] = IF i = 0 THEN FrameBytes(s, t)
                       ELSE r[i - 1] - s.packet[WalkPacket(s, t, i - 1)].length
             /\ q[i] = IF i = 0 THEN FrameBytes(s, t)
                       ELSE q[i - 1] - s.packet[WalkPacket(s, t, i - 1)].length
  BY <1>4, <1>6
<1>8. DOMAIN r = 0 .. XMIT_PACKET_COUNT
  BY <1>6
<1> HIDE DEF r, P
<1>9. ASSUME NEW i \in 0 .. XMIT_PACKET_COUNT, r[i] # q[i] PROVE FALSE
  <2> DEFINE differ == {k \in 0 .. XMIT_PACKET_COUNT : r[k] # q[k]}
  <2>1. differ \in SUBSET Nat /\ differ # {}
    BY <1>9
  <2>2. PICK m \in differ : \A k \in differ : m <= k
    BY <2>1, LeastElement
  <2>3. m \in 0 .. XMIT_PACKET_COUNT /\ r[m] # q[m]
    BY <2>2
  <2>4. m # 0
    BY <1>7, <2>3
  <2>5. m - 1 \in 0 .. XMIT_PACKET_COUNT /\ r[m - 1] = q[m - 1]
    BY <2>2, <2>4
  <2> QED
    BY <1>7, <2>3, <2>4, <2>5
<1>10. r = q
  <2>1. r = [i \in 0 .. XMIT_PACKET_COUNT |-> r[i]]
    BY <1>6, <1>8 DEF P, r
  <2> QED
    BY <1>8, <1>9, <2>1
<1>11. /\ r \in [0 .. XMIT_PACKET_COUNT -> Int] /\ r[0] = FrameBytes(s, t)
       /\ \A i \in 1 .. XMIT_PACKET_COUNT :
            r[i] = r[i - 1] - s.packet[WalkPacket(s, t, i - 1)].length
  <2>1. \A i \in 1 .. XMIT_PACKET_COUNT : i \in 0 .. XMIT_PACKET_COUNT /\ i # 0
    OBVIOUS
  <2>2. 0 \in 0 .. XMIT_PACKET_COUNT
    OBVIOUS
  <2> QED
    BY <1>7, <1>10, <2>1, <2>2, Zenon
<1> QED
  BY <1>11 DEF r

-----------------------------------------------------------------------------
(* The second part of the inductive invariant: who owns which descriptor.    *)

OpenTrackers(s) == HeldTrackers(s) \ s.busy

(* The descriptors that the frames in the buffer of a tracker should have.   *)
OwnPackets(s, t) == {WalkPacket(s, t, i - 1) : i \in 1 .. Len(s.buffer[t])}

Described(s, t) ==
  \A i \in 1 .. Len(s.buffer[t]) :
    LET descriptor == s.packet[WalkPacket(s, t, i - 1)]
    IN  /\ descriptor.tracker = t
        /\ descriptor.user = s.buffer[t][i].user
        /\ descriptor.length > 0

(* Their lengths use up the transfer: `rest' is what is left after each.     *)
UsedUp(s, t) ==
  \E rest \in [0 .. Len(s.buffer[t]) -> Int] :
    /\ rest[0] = FrameBytes(s, t)
    /\ rest[Len(s.buffer[t])] = 0
    /\ \A i \in 1 .. Len(s.buffer[t]) :
         rest[i] = rest[i - 1] - s.packet[WalkPacket(s, t, i - 1)].length

LaidOut(s, t) ==
  /\ Len(s.buffer[t]) \in 1 .. XMIT_PACKET_COUNT
  /\ Described(s, t)
  /\ UsedUp(s, t)
  /\ Chipset = "AX179A" => FrameBytes(s, t) % 8 = 0

Owned(s) ==
  /\ s.waiting \cup s.queued \subseteq OpenTrackers(s)
  /\ s.busy \subseteq HeldTrackers(s)
  /\ \A t \in OpenTrackers(s) : LaidOut(s, t)
  /\ \A p \in Packets \ FreePackets(s) :
       /\ s.packet[p].tracker \in OpenTrackers(s)
       /\ p \in OwnPackets(s, s.packet[p].tracker)

(* What is left of an open transfer is positive until its last descriptor.   *)
LEMMA WalkExact ==
  ASSUME NEW s \in TxState, NEW t \in Trackers, s.first[t] # NULL, LaidOut(s, t)
  PROVE  /\ CountXmitTrackerFrames(s, t) = Len(s.buffer[t])
         /\ WalkedPackets(s, t) = OwnPackets(s, t)
<1> DEFINE n    == Len(s.buffer[t])
           r    == WalkRemaining(s, t)
           w(i) == s.packet[WalkPacket(s, t, i - 1)].length
<1>1. n \in 1 .. XMIT_PACKET_COUNT /\ \A i \in 1 .. n : w(i) > 0
  BY DEF LaidOut, Described
<1>2. PICK rest \in [0 .. n -> Int] :
        /\ rest[0] = FrameBytes(s, t) /\ rest[n] = 0
        /\ \A i \in 1 .. n : rest[i] = rest[i - 1] - w(i)
  BY DEF LaidOut, UsedUp
<1>3. /\ r \in [0 .. XMIT_PACKET_COUNT -> Int] /\ r[0] = FrameBytes(s, t)
      /\ \A i \in 1 .. XMIT_PACKET_COUNT : r[i] = r[i - 1] - w(i)
  BY WalkUnfolds
<1>4. \A i \in 1 .. XMIT_PACKET_COUNT : w(i) \in Int
  <2>1. \A i \in 1 .. XMIT_PACKET_COUNT : i - 1 \in 0 .. XMIT_PACKET_COUNT - 1
    OBVIOUS
  <2>2. \A i \in 1 .. XMIT_PACKET_COUNT : WalkPacket(s, t, i - 1) \in Packets
    BY <2>1, WalkPosition
  <2> QED
    BY <2>2, Fields DEF FieldsTyped
<1>5. WalkedPackets(s, t)
        = {p \in Packets : Distance(s.first[t], p, XMIT_PACKET_COUNT) < CountXmitTrackerFrames(s, t)}
  BY DEF WalkedPackets
<1>6. CountXmitTrackerFrames(s, t) =
        LET exact == {i \in 0 .. XMIT_PACKET_COUNT : r[i] = 0}
        IN  IF exact = {} THEN XMIT_PACKET_COUNT
            ELSE CHOOSE i \in exact : \A j \in exact : i <= j
  BY DEF CountXmitTrackerFrames
<1>7. OwnPackets(s, t) = {WalkPacket(s, t, i - 1) : i \in 1 .. n}
  BY DEF OwnPackets
<1> HIDE DEF n, r, w
<1>8. ASSUME NEW i \in 0 .. n PROVE r[i] = rest[i]
  <2> DEFINE differ == {k \in 0 .. n : r[k] # rest[k]}
  <2> SUFFICES ASSUME differ # {} PROVE FALSE
    OBVIOUS
  <2>1. differ \in SUBSET Nat
    BY <1>1
  <2>2. PICK m \in differ : \A k \in differ : m <= k
    BY <2>1, LeastElement
  <2>3. m \in 0 .. n /\ r[m] # rest[m]
    BY <2>2
  <2>4. m # 0
    BY <1>2, <1>3, <2>3
  <2>5. m - 1 \in 0 .. n /\ r[m - 1] = rest[m - 1]
    BY <1>1, <2>2, <2>4
  <2>6. m \in 1 .. n /\ m \in 1 .. XMIT_PACKET_COUNT
    BY <1>1, <2>3, <2>4
  <2> QED
    BY <1>2, <1>3, <2>3, <2>5, <2>6
<1>9. ASSUME NEW i \in 0 .. n - 1 PROVE rest[i] > 0
  <2> DEFINE low == {k \in 1 .. n : rest[n - k] <= 0}
  <2>0. n - i \in 1 .. n /\ n - (n - i) = i /\ rest[i] \in Int
    BY <1>1
  <2> SUFFICES ASSUME low # {} PROVE FALSE
    BY <2>0
  <2>1. low \in SUBSET Nat
    BY <1>1
  <2>2. PICK m \in low : \A k \in low : m <= k
    BY <2>1, LeastElement
  <2>3. m \in 1 .. n /\ rest[n - m] <= 0
    BY <2>2
  <2>4. n - m + 1 \in 1 .. n /\ n - m \in 0 .. n /\ n - m + 1 \in 0 .. n
    BY <1>1, <2>3
  <2>5. rest[n - m + 1] = rest[n - m] - w(n - m + 1)
    <3>1. (n - m + 1) - 1 = n - m
      BY <1>1, <2>3
    <3> QED
      BY <1>2, <2>4, <3>1
  <2>6. w(n - m + 1) > 0 /\ w(n - m + 1) \in Int
    BY <1>1, <1>4, <2>4
  <2>7. rest[n - m] \in Int /\ rest[n - m + 1] \in Int
    BY <1>2, <2>4
  <2>8. rest[n - m + 1] < 0
    BY <2>3, <2>5, <2>6, <2>7
  <2>9. m # 1
    BY <1>1, <1>2, <2>8
  <2>10. m - 1 \in 1 .. n /\ n - (m - 1) = n - m + 1
    BY <1>1, <2>3, <2>9
  <2>11. m - 1 \in low
    BY <2>8, <2>10, <2>7
  <2> QED
    BY <2>2, <2>3, <2>11
<1>10. CountXmitTrackerFrames(s, t) = n
  <2> DEFINE exact == {i \in 0 .. XMIT_PACKET_COUNT : r[i] = 0}
  <2>1. n \in exact
    BY <1>1, <1>2, <1>8
  <2>2. \A j \in exact : n <= j
    BY <1>1, <1>8, <1>9
  <2>3. exact \subseteq Int /\ exact # {}
    BY <2>1
  <2>4. CountXmitTrackerFrames(s, t) = CHOOSE i \in exact : \A j \in exact : i <= j
    BY <1>6, <2>3
  <2> HIDE DEF exact
  <2>5. \A i \in exact : (\A j \in exact : i <= j) => i = n
    BY <2>1, <2>2, <2>3
  <2> QED
    BY <2>1, <2>2, <2>4, <2>5
<1>11. WalkedPackets(s, t) \subseteq OwnPackets(s, t)
  <2> SUFFICES ASSUME NEW p \in WalkedPackets(s, t) PROVE p \in OwnPackets(s, t)
    OBVIOUS
  <2> DEFINE d == Distance(s.first[t], p, XMIT_PACKET_COUNT)
  <2>1. d \in 0 .. XMIT_PACKET_COUNT - 1 /\ WalkPacket(s, t, d) = p /\ d < n
    BY <1>5, <1>10, WalkPosition
  <2> HIDE DEF d
  <2>2. d + 1 \in 1 .. n /\ (d + 1) - 1 = d
    BY <1>1, <2>1
  <2> QED
    BY <1>7, <2>1, <2>2
<1>12. OwnPackets(s, t) \subseteq WalkedPackets(s, t)
  <2> SUFFICES ASSUME NEW i \in 1 .. n PROVE WalkPacket(s, t, i - 1) \in WalkedPackets(s, t)
    BY <1>7
  <2>1. i - 1 \in 0 .. XMIT_PACKET_COUNT - 1 /\ i - 1 < n
    BY <1>1
  <2> QED
    BY <1>5, <1>10, <2>1, WalkPosition
<1> QED
  BY <1>10, <1>11, <1>12 DEF n

(* A tracker keeps its layout while what the layout is read off is kept.     *)
LEMMA LaidOutKept ==
  ASSUME NEW s, NEW u, NEW t, LaidOut(s, t),
         u.first[t] = s.first[t], FrameBytes(u, t) = FrameBytes(s, t),
         u.buffer[t] = s.buffer[t],
         \A p \in OwnPackets(s, t) : u.packet[p] = s.packet[p]
  PROVE  LaidOut(u, t) /\ OwnPackets(u, t) = OwnPackets(s, t)
<1>1. \A i \in 1 .. Len(s.buffer[t]) :
        /\ WalkPacket(u, t, i - 1) = WalkPacket(s, t, i - 1)
        /\ u.packet[WalkPacket(u, t, i - 1)] = s.packet[WalkPacket(s, t, i - 1)]
  BY DEF WalkPacket, OwnPackets
<1>2. OwnPackets(u, t) = OwnPackets(s, t)
  BY <1>1 DEF OwnPackets
<1>3. Described(u, t)
  BY <1>1 DEF LaidOut, Described
<1>4. UsedUp(u, t)
  <2>1. PICK rest \in [0 .. Len(s.buffer[t]) -> Int] :
          /\ rest[0] = FrameBytes(s, t)
          /\ rest[Len(s.buffer[t])] = 0
          /\ \A i \in 1 .. Len(s.buffer[t]) :
               rest[i] = rest[i - 1] - s.packet[WalkPacket(s, t, i - 1)].length
    BY DEF LaidOut, UsedUp
  <2>2. \A i \in 1 .. Len(s.buffer[t]) :
          rest[i] = rest[i - 1] - u.packet[WalkPacket(u, t, i - 1)].length
    BY <1>1, <2>1
  <2> QED
    BY <2>1, <2>2 DEF UsedUp
<1> QED
  BY <1>2, <1>3, <1>4 DEF LaidOut

-----------------------------------------------------------------------------
(* The frames and the users of a tracker.                                    *)

Content(s, t) == {s.buffer[t][i].frame : i \in DOMAIN s.buffer[t]}

TitleTransfers(s) ==
  {t \in s.busy : \E i \in DOMAIN s.buffer[t] : ~IsDebugNicUser(s.buffer[t][i].user)}

Apart(s) ==
  /\ \A t \in HeldTrackers(s) :
       /\ s.buffer[t] # <<>>
       /\ \A i, j \in DOMAIN s.buffer[t] : s.buffer[t][i].user = s.buffer[t][j].user
  /\ \A t, r \in HeldTrackers(s) : Content(s, t) \cap Content(s, r) # {} => t = r
  /\ Cardinality(TitleTransfers(s)) <= MaximumTitlePendingXmitCount

Whole(s) == Good(s) /\ Owned(s) /\ Apart(s)

(* From s to u trackers were scheduled, and descriptors released, no more.   *)
Handed(s, u) ==
  /\ u.first = s.first /\ u.length = s.length /\ u.buffer = s.buffer
  /\ u.padded = s.padded /\ u.nextPacket = s.nextPacket
  /\ s.busy \subseteq u.busy
  /\ \A p \in Packets : u.packet[p] = s.packet[p] \/ u.packet[p] = FreePacket

LEMMA SameLayoutWhole ==
  ASSUME NEW s, NEW u, Whole(s), Good(u), SameLayout(u, s), u.busy = s.busy,
         u.waiting \cup u.queued \subseteq OpenTrackers(s)
  PROVE  Whole(u)
<1>1. HeldTrackers(u) = HeldTrackers(s) /\ OpenTrackers(u) = OpenTrackers(s)
  BY DEF HeldTrackers, OpenTrackers, SameLayout
<1>2. FreePackets(u) = FreePackets(s)
  BY DEF FreePackets, SameLayout
<1>3. \A t \in OpenTrackers(s) : LaidOut(u, t)
  <2>1. \A t \in OpenTrackers(s) : LaidOut(s, t)
    BY DEF Whole, Owned
  <2>2. \A t : FrameBytes(u, t) = FrameBytes(s, t)
    BY DEF FrameBytes, SameLayout
  <2> QED
    BY <2>1, <2>2, LaidOutKept DEF SameLayout
<1>4. \A t : OwnPackets(u, t) = OwnPackets(s, t)
  BY DEF OwnPackets, SameLayout, WalkPacket
<1>5. Owned(u)
  BY <1>1, <1>2, <1>3, <1>4, Zenon DEF Whole, Owned, SameLayout
<1>6. TitleTransfers(u) = TitleTransfers(s)
  BY DEF TitleTransfers, SameLayout
<1>7. \A t : Content(u, t) = Content(s, t)
  BY DEF Content, SameLayout
<1>8. Apart(u)
  BY <1>1, <1>6, <1>7 DEF Whole, Apart, SameLayout
<1> QED
  BY <1>5, <1>8 DEF Whole

-----------------------------------------------------------------------------
(* What each helper writes.                                                  *)

LEMMA SubmitFields ==
  ASSUME NEW s \in TxState, NEW t \in Trackers
  PROVE  LET u == SubmitXmitTrackerLocked(s, t)
         IN  /\ u.packet = [p \in Packets |->
                              IF p \in WalkedPackets(s, t) THEN FreePacket ELSE s.packet[p]]
             /\ u.first = s.first /\ u.length = s.length /\ u.buffer = s.buffer
             /\ u.padded = s.padded /\ u.waiting = s.waiting /\ u.queued = s.queued
             /\ u.busy = s.busy \cup {t} /\ u.nextPacket = s.nextPacket
             /\ u.pending = s.pending + 1
<1> DEFINE u == SubmitXmitTrackerLocked(s, t)
           released == [p \in Packets |-> IF p \in WalkedPackets(s, t) THEN FreePacket ELSE s.packet[p]]
<1>1. u = [[s EXCEPT !.packet = released] EXCEPT !.busy = @ \cup {t}, !.pending = @ + 1]
  BY DEF SubmitXmitTrackerLocked, ReleaseSubmittedXmitPackets
<1> HIDE DEF released, u
<1>2. /\ u.packet = released
      /\ u.first = s.first /\ u.length = s.length /\ u.buffer = s.buffer
      /\ u.padded = s.padded /\ u.waiting = s.waiting /\ u.queued = s.queued
      /\ u.busy = s.busy \cup {t} /\ u.nextPacket = s.nextPacket
      /\ u.pending = s.pending + 1
  BY <1>1 DEF TxState
<1> QED
  BY <1>2 DEF u, released

LEMMA QueueFields ==
  ASSUME NEW s \in TxState, NEW t \in Trackers, t \notin s.queued
  PROVE  LET u == QueueXmitTrackerDpc(s, t)
         IN  /\ SameLayout(u, s) /\ u.waiting = s.waiting \ {t} /\ u.queued = s.queued \cup {t}
             /\ u.busy = s.busy /\ u.nextPacket = s.nextPacket /\ u.pending = s.pending
<1> DEFINE u == QueueXmitTrackerDpc(s, t)
<1>1. u = [s EXCEPT !.waiting = s.waiting \ {t}, !.queued = s.queued \cup {t},
                    !.dpcs = Append(s.dpcs, t)]
  BY DEF QueueXmitTrackerDpc
<1> HIDE DEF u
<1>2. /\ SameLayout(u, s) /\ u.waiting = s.waiting \ {t} /\ u.queued = s.queued \cup {t}
      /\ u.busy = s.busy /\ u.nextPacket = s.nextPacket /\ u.pending = s.pending
  BY <1>1 DEF TxState, SameLayout
<1> QED
  BY <1>2 DEF u

LEMMA WaitFields ==
  ASSUME NEW s \in TxState, NEW t \in Trackers
  PROVE  LET u == [s EXCEPT !.waiting = @ \cup {t}]
         IN  /\ SameLayout(u, s) /\ u.waiting = s.waiting \cup {t} /\ u.queued = s.queued
             /\ u.busy = s.busy /\ u.nextPacket = s.nextPacket /\ u.pending = s.pending
  BY DEF TxState, SameLayout

LEMMA UnwaitFields ==
  ASSUME NEW s \in TxState, NEW t \in Trackers
  PROVE  LET u == [s EXCEPT !.waiting = @ \ {t}]
         IN  /\ SameLayout(u, s) /\ u.waiting = s.waiting \ {t} /\ u.queued = s.queued
             /\ u.busy = s.busy /\ u.nextPacket = s.nextPacket /\ u.pending = s.pending
  BY DEF TxState, SameLayout

LEMMA SameLayoutHanded ==
  ASSUME NEW s, NEW u, SameLayout(u, s), s.busy \subseteq u.busy, u.nextPacket = s.nextPacket
  PROVE  Handed(s, u)
  BY DEF SameLayout, Handed

-----------------------------------------------------------------------------
(* Handing an open tracker on keeps the state whole.                         *)

LEMMA OwnTyped ==
  ASSUME NEW s \in TxState, NEW t \in Trackers, s.first[t] # NULL, LaidOut(s, t)
  PROVE  OwnPackets(s, t) \in SUBSET Packets
<1>1. \A i \in 1 .. Len(s.buffer[t]) : i - 1 \in 0 .. XMIT_PACKET_COUNT - 1
  BY DEF LaidOut
<1>2. \A i \in 1 .. Len(s.buffer[t]) : WalkPacket(s, t, i - 1) \in Packets
  BY <1>1, WalkPosition
<1> QED
  BY <1>2 DEF OwnPackets

(* The user of a tracker's first descriptor is the user of all its frames.   *)
LEMMA FirstUser ==
  ASSUME NEW s, NEW t \in Trackers, Good(s), t \in HeldTrackers(s), LaidOut(s, t)
  PROVE  IsDebugXmitTracker(s, t) <=> IsDebugNicUser(s.buffer[t][1].user)
<1>1. 1 \in 1 .. Len(s.buffer[t])
  BY DEF LaidOut
<1>2. s \in TxState /\ s.first[t] # NULL /\ s.first[t] \in Packets
  BY Fields DEF Good, HeldTrackers, FieldsTyped
<1>3. WalkPacket(s, t, 1 - 1) = s.first[t]
  <2>1. s.first[t] \in 0 .. XMIT_PACKET_COUNT - 1 /\ 1 - 1 = 0
    BY <1>2 DEF Packets
  <2> QED
    BY <2>1 DEF WalkPacket
<1>4. s.packet[s.first[t]].user = s.buffer[t][1].user
  BY <1>1, <1>3 DEF LaidOut, Described
<1> QED
  BY <1>2, <1>4 DEF IsDebugXmitTracker

LEMMA SubmitWhole ==
  ASSUME NEW s, NEW t \in OpenTrackers(s), Whole(s), Unscheduled(s, t),
         CanSubmitXmitTracker(s, t)
  PROVE  Whole(SubmitXmitTrackerLocked(s, t)) /\ Handed(s, SubmitXmitTrackerLocked(s, t))
<1> DEFINE u == SubmitXmitTrackerLocked(s, t)
<1>1. /\ s \in TxState /\ Good(s) /\ t \in Trackers /\ s.first[t] # NULL /\ t \notin s.busy
      /\ LaidOut(s, t)
  BY DEF Whole, Good, OpenTrackers, HeldTrackers, Owned
<1>2. Good(u)
  BY <1>1, SubmitGood, CanSubmitBelowLimit
<1>3. WalkedPackets(s, t) = OwnPackets(s, t)
  BY <1>1, WalkExact
<1>4. /\ u.packet = [p \in Packets |-> IF p \in OwnPackets(s, t) THEN FreePacket ELSE s.packet[p]]
      /\ u.first = s.first /\ u.length = s.length /\ u.buffer = s.buffer
      /\ u.padded = s.padded /\ u.waiting = s.waiting /\ u.queued = s.queued
      /\ u.busy = s.busy \cup {t} /\ u.nextPacket = s.nextPacket
      /\ u.pending = s.pending + 1
  BY <1>1, <1>3, SubmitFields
<1> HIDE DEF u
<1>5. HeldTrackers(u) = HeldTrackers(s) /\ OpenTrackers(u) = OpenTrackers(s) \ {t}
  BY <1>4 DEF HeldTrackers, OpenTrackers
<1>6. \A r : FrameBytes(u, r) = FrameBytes(s, r) /\ OwnPackets(u, r) = OwnPackets(s, r)
  BY <1>4 DEF FrameBytes, OwnPackets, WalkPacket
<1>7. ASSUME NEW r \in OpenTrackers(u) PROVE LaidOut(u, r)
  <2>1. r \in OpenTrackers(s) /\ r # t /\ LaidOut(s, r)
    BY <1>5 DEF Whole, Owned
  <2>2. ASSUME NEW p \in OwnPackets(s, r) PROVE u.packet[p] = s.packet[p]
    <3>1. s.packet[p].tracker = r
      BY <2>1 DEF LaidOut, Described, OwnPackets
    <3>2. \A q \in OwnPackets(s, t) : s.packet[q].tracker = t
      BY <1>1 DEF LaidOut, Described, OwnPackets
    <3>3. p \in Packets
      BY <1>1, <2>1, OwnTyped DEF OpenTrackers, HeldTrackers
    <3> QED
      BY <1>4, <2>1, <3>1, <3>2, <3>3
  <2> QED
    BY <1>4, <1>6, <2>1, <2>2, LaidOutKept
<1>8. ASSUME NEW p \in Packets \ FreePackets(u)
      PROVE  u.packet[p].tracker \in OpenTrackers(u) /\ p \in OwnPackets(u, u.packet[p].tracker)
  <2>1. p \notin OwnPackets(s, t) /\ u.packet[p] = s.packet[p]
    BY <1>4 DEF FreePackets, FreePacket
  <2>2. p \in Packets \ FreePackets(s)
    BY <2>1 DEF FreePackets
  <2>3. s.packet[p].tracker \in OpenTrackers(s) /\ p \in OwnPackets(s, s.packet[p].tracker)
    BY <2>2 DEF Whole, Owned
  <2> QED
    BY <1>5, <1>6, <2>1, <2>3
<1>9. Owned(u)
  <2>1. u.waiting \cup u.queued \subseteq OpenTrackers(u)
    BY <1>4, <1>5 DEF Whole, Owned, Unscheduled
  <2>2. u.busy \subseteq HeldTrackers(u)
    BY <1>1, <1>4, <1>5 DEF Whole, Owned, HeldTrackers
  <2> QED
    BY <1>7, <1>8, <2>1, <2>2 DEF Owned
<1>10. Cardinality(TitleTransfers(u)) <= MaximumTitlePendingXmitCount
  <2>1. s.busy \in SUBSET Trackers /\ u.busy \in SUBSET Trackers
    BY <1>1, <1>4, Fields DEF FieldsTyped
  <2>2. Cardinality(s.busy) \in Nat /\ s.pending = Cardinality(s.busy)
    BY <1>1, <2>1, BusyFinite DEF Good, PendingWithin
  <2>3. CASE IsDebugXmitTracker(s, t)
    <3>1. t \in HeldTrackers(s)
      BY <1>1 DEF HeldTrackers
    <3>2. \A i \in DOMAIN s.buffer[t] : s.buffer[t][i].user = s.buffer[t][1].user
      <4>1. 1 \in DOMAIN s.buffer[t]
        <5>1. s.buffer[t] \in Seq([user: Users, frame: Frames])
          BY <1>1, Fields DEF FieldsTyped
        <5> QED
          BY <1>1, <5>1 DEF LaidOut
      <4> QED
        BY <3>1, <4>1 DEF Whole, Apart
    <3>3. \A i \in DOMAIN u.buffer[t] : IsDebugNicUser(u.buffer[t][i].user)
      BY <1>1, <1>4, <2>3, <3>1, <3>2, FirstUser
    <3>4. TitleTransfers(u) = TitleTransfers(s)
      BY <1>4, <3>3 DEF TitleTransfers
    <3> QED
      BY <3>4 DEF Whole, Apart
  <2>4. CASE ~IsDebugXmitTracker(s, t)
    <3>1. s.pending < MaximumTitlePendingXmitCount
      BY <2>4 DEF CanSubmitXmitTracker
    <3>2. Cardinality(u.busy) = Cardinality(s.busy) + 1
      BY <1>1, <1>4, <2>1, BusyFinite, FS_AddElement
    <3>3. TitleTransfers(u) \subseteq u.busy
      BY DEF TitleTransfers
    <3>4. Cardinality(TitleTransfers(u)) <= Cardinality(u.busy)
      BY <2>1, <3>3, BusyFinite, FS_Subset
    <3>5. Cardinality(TitleTransfers(u)) \in Nat
      BY <2>1, <3>3, BusyFinite
    <3> QED
      BY <2>2, <3>1, <3>2, <3>4, <3>5
  <2> QED
    BY <2>3, <2>4
<1>11. \A r : Content(u, r) = Content(s, r)
  BY <1>4 DEF Content
<1>12. Apart(u)
  BY <1>4, <1>5, <1>10, <1>11 DEF Whole, Apart
<1>13. Handed(s, u)
  BY <1>4 DEF Handed
<1> QED
  BY <1>2, <1>9, <1>12, <1>13 DEF Whole, u

(* What QueueOrSubmitXmitTrackerLocked brings about besides: what waits still *)
(* has a reason to, and somebody will look at what is held.                  *)
Heeded(s) == s.waiting # {} => s.pending >= MaximumTitlePendingXmitCount
Stirring(s) == s.busy \cup s.queued # {}

LEMMA PendingStirs ==
  ASSUME NEW s, Good(s), s.pending # 0
  PROVE  Stirring(s)
<1>1. s.pending = Cardinality(s.busy)
  BY DEF Good, PendingWithin
<1>2. s.busy # {}
  BY <1>1, FS_EmptySet
<1> QED
  BY <1>2 DEF Stirring

LEMMA QueueWhole ==
  ASSUME NEW s, NEW t \in OpenTrackers(s), Whole(s), Unscheduled(s, t)
  PROVE  LET u == QueueXmitTrackerDpc(s, t)
         IN  Whole(u) /\ Handed(s, u) /\ (Heeded(s) => Heeded(u)) /\ Stirring(u)
<1> DEFINE u == QueueXmitTrackerDpc(s, t)
<1>1. s \in TxState /\ Good(s) /\ t \in Trackers
  BY DEF Whole, Good, OpenTrackers, HeldTrackers
<1>2. Good(u)
  BY <1>1, QueueGood
<1>3. /\ SameLayout(u, s) /\ u.waiting = s.waiting \ {t} /\ u.queued = s.queued \cup {t}
      /\ u.busy = s.busy /\ u.nextPacket = s.nextPacket /\ u.pending = s.pending
  BY <1>1, QueueFields DEF Unscheduled
<1> HIDE DEF u
<1>4. u.waiting \cup u.queued \subseteq OpenTrackers(s)
  BY <1>3 DEF Whole, Owned
<1>5. Whole(u) /\ Handed(s, u)
  BY <1>2, <1>3, <1>4, SameLayoutWhole, SameLayoutHanded
<1>6. (Heeded(s) => Heeded(u)) /\ Stirring(u)
  BY <1>3 DEF Heeded, Stirring
<1> QED
  BY <1>5, <1>6 DEF u

LEMMA WaitWhole ==
  ASSUME NEW s, NEW t \in OpenTrackers(s), Whole(s), Unscheduled(s, t)
  PROVE  LET u == [s EXCEPT !.waiting = @ \cup {t}]
         IN  /\ Whole(u) /\ Handed(s, u)
             /\ ~CanSubmitXmitTracker(s, t) => Heeded(u) /\ Stirring(u)
<1> DEFINE u == [s EXCEPT !.waiting = @ \cup {t}]
<1>1. s \in TxState /\ Good(s) /\ t \in Trackers /\ s.pending \in Int
  BY Fields DEF Whole, Good, OpenTrackers, HeldTrackers, FieldsTyped
<1>2. Good(u)
  BY <1>1, WaitGood DEF Unscheduled
<1>3. /\ SameLayout(u, s) /\ u.waiting = s.waiting \cup {t} /\ u.queued = s.queued
      /\ u.busy = s.busy /\ u.nextPacket = s.nextPacket /\ u.pending = s.pending
  BY <1>1, WaitFields
<1> HIDE DEF u
<1>4. u.waiting \cup u.queued \subseteq OpenTrackers(s)
  BY <1>3 DEF Whole, Owned
<1>5. Whole(u) /\ Handed(s, u)
  BY <1>2, <1>3, <1>4, SameLayoutWhole, SameLayoutHanded
<1>6. ASSUME ~CanSubmitXmitTracker(s, t) PROVE Heeded(u) /\ Stirring(u)
  <2>1. u.pending >= MaximumTitlePendingXmitCount /\ u.pending # 0
    BY <1>1, <1>3, <1>6 DEF CanSubmitXmitTracker
  <2> QED
    BY <1>2, <2>1, PendingStirs DEF Heeded
<1> QED
  BY <1>5, <1>6 DEF u

LEMMA SubmitHeeds ==
  ASSUME NEW s \in TxState, NEW t \in Trackers
  PROVE  LET u == SubmitXmitTrackerLocked(s, t)
         IN  (Heeded(s) => Heeded(u)) /\ Stirring(u)
<1> DEFINE u == SubmitXmitTrackerLocked(s, t)
<1>1. /\ u.waiting = s.waiting /\ u.busy = s.busy \cup {t} /\ u.pending = s.pending + 1
      /\ s.pending \in Int
  BY SubmitFields, Fields DEF FieldsTyped
<1> HIDE DEF u
<1>2. (Heeded(s) => Heeded(u)) /\ Stirring(u)
  BY <1>1 DEF Heeded, Stirring
<1> QED
  BY <1>2 DEF u

LEMMA QueueOrSubmitWhole ==
  ASSUME NEW s, NEW t \in OpenTrackers(s), NEW direct, Whole(s), Unscheduled(s, t)
  PROVE  LET u == QueueOrSubmitXmitTrackerLocked(s, t, direct)
         IN  Whole(u) /\ Handed(s, u) /\ (Heeded(s) => Heeded(u)) /\ Stirring(u)
<1>1. CASE ~(EnableDispatchLevelDirectXmit /\ direct)
  BY <1>1, QueueWhole DEF QueueOrSubmitXmitTrackerLocked
<1>2. CASE (EnableDispatchLevelDirectXmit /\ direct) /\ CanSubmitXmitTracker(s, t)
  <2>1. s \in TxState /\ t \in Trackers
    BY DEF Whole, Good, OpenTrackers, HeldTrackers
  <2> QED
    BY <1>2, <2>1, SubmitWhole, SubmitHeeds DEF QueueOrSubmitXmitTrackerLocked
<1>3. CASE (EnableDispatchLevelDirectXmit /\ direct) /\ ~CanSubmitXmitTracker(s, t)
  BY <1>3, WaitWhole DEF QueueOrSubmitXmitTrackerLocked
<1> QED
  BY <1>1, <1>2, <1>3

-----------------------------------------------------------------------------
(* Storing a frame.                                                          *)

LEMMA EightFold ==
  ASSUME NEW k \in Int, k % 8 = 0, NEW m \in Int
  PROVE  (k + RoundUp(m, 8)) % 8 = 0
<1> DEFINE a == m % 8
<1>1. a \in 0 .. 7 /\ (m - a) % 8 = 0
  OBVIOUS
<1>2. RoundUp(m, 8) = IF a = 0 THEN m ELSE m - a + 8
  <2>1. RoundUp(m, 8) = m + ((8 - a) % 8)
    BY DEF RoundUp
  <2> QED
    BY <1>1, <2>1
<1> QED
  BY <1>1, <1>2

(* Every frame adds to its transfer, and the AX179A family adds eights.      *)
LEMMA FramedLengthFits ==
  ASSUME NEW offset \in Int, NEW length \in Nat
  PROVE  /\ Chipset # "RTL8153" =>
              /\ FramedLength(offset, length) = Required(offset, length)
              /\ Required(offset, length) > 0
         /\ Chipset = "AX179A" /\ offset % 8 = 0 => (offset + Required(offset, length)) % 8 = 0
<1>1. GetTransmitHeaderSize \in Nat \ {0}
  BY DEF GetTransmitHeaderSize, Chipsets
<1>2. LeadingPadding(offset) \in Nat
  BY PaddingNatural DEF LeadingPadding
<1>3. RoundUp(GetTransmitHeaderSize + length, 8) - (GetTransmitHeaderSize + length) \in Nat
  <2>1. GetTransmitHeaderSize + length \in Int
    BY <1>1
  <2> QED
    BY <2>1, PaddingNatural
<1>4. RoundUp(GetTransmitHeaderSize + length, 8) \in Int
  BY <1>1 DEF RoundUp
<1>5. Required(offset, length) > 0
  BY <1>1, <1>2, <1>3, <1>4 DEF Required
<1>6. Chipset = "AX179A" /\ offset % 8 = 0 => (offset + Required(offset, length)) % 8 = 0
  <2>1. GetTransmitHeaderSize + length \in Int
    BY <1>1
  <2> QED
    BY <2>1, EightFold DEF Required
<1> QED
  BY <1>5, <1>6 DEF FramedLength

(* What StoreFrame writes: u is s afterwards.                                *)
FrameStored(s, u, t, count, offset, user, length, frame) ==
  /\ SameSchedule(u, s)
  /\ u.first = s.first
  /\ u.packet[s.nextPacket] =
       [user |-> user, tracker |-> t, length |-> FramedLength(offset, length)]
  /\ \A q \in Packets \ {s.nextPacket} : u.packet[q] = s.packet[q]
  /\ u.buffer[t] = IF count = 0 THEN <<[user |-> user, frame |-> frame]>>
                   ELSE Append(s.buffer[t], [user |-> user, frame |-> frame])
  /\ \A r \in Trackers \ {t} : u.buffer[r] = s.buffer[r]
  /\ FrameBytes(u, t) = offset + Required(offset, length)
  /\ \A r \in Trackers \ {t} : FrameBytes(u, r) = FrameBytes(s, r)

LEMMA StoreFields ==
  ASSUME NEW s \in TxState, NEW t \in Trackers, NEW count, NEW offset \in Int, NEW user,
         NEW length \in Nat, NEW frame
  PROVE  FrameStored(s, StoreFrame(s, t, count, offset, user, length, frame),
                     t, count, offset, user, length, frame)
<1> DEFINE u       == StoreFrame(s, t, count, offset, user, length, frame)
           content == [user |-> user, frame |-> frame]
           lengths == [s.length EXCEPT ![t] = offset + BytesWritten(offset, length)]
           padded  == IF NeedsTerminator(offset, length) THEN s.padded \cup {t} ELSE s.padded \ {t}
           buffers == [s.buffer EXCEPT
                        ![t] = IF count = 0 THEN <<content>> ELSE Append(s.buffer[t], content)]
           packets == [s.packet EXCEPT ![s.nextPacket] =
                         [user |-> user, tracker |-> t, length |-> FramedLength(offset, length)]]
           next    == Successor(s.nextPacket, XMIT_PACKET_COUNT)
<1>1. u = [s EXCEPT !.length = lengths, !.padded = padded, !.buffer = buffers,
                    !.packet = packets, !.nextPacket = next]
  BY DEF StoreFrame, TxState
<1>2. /\ lengths[t] = offset + BytesWritten(offset, length)
      /\ \A r \in Trackers \ {t} : lengths[r] = s.length[r]
  BY Fields DEF FieldsTyped
<1>3. /\ t \in padded <=> NeedsTerminator(offset, length)
      /\ \A r \in Trackers \ {t} : r \in padded <=> r \in s.padded
  OBVIOUS
<1>7. /\ packets[s.nextPacket] =
            [user |-> user, tracker |-> t, length |-> FramedLength(offset, length)]
      /\ \A q \in Packets \ {s.nextPacket} : packets[q] = s.packet[q]
  BY Fields DEF FieldsTyped
<1>8. /\ buffers[t] = IF count = 0 THEN <<content>> ELSE Append(s.buffer[t], content)
      /\ \A r \in Trackers \ {t} : buffers[r] = s.buffer[r]
  <2> HIDE DEF content
  <2> QED
    BY Fields DEF FieldsTyped
<1> HIDE DEF u, lengths, padded, buffers, packets, next
<1>4. /\ u.packet = packets /\ u.first = s.first /\ u.length = lengths /\ u.buffer = buffers
      /\ u.padded = padded /\ SameSchedule(u, s)
  BY <1>1 DEF TxState, SameSchedule
<1>5. FrameBytes(u, t) = offset + Required(offset, length)
  <2>1. Required(offset, length) \in Int /\ GetTransmitTerminatorSize \in Int
    BY FramingNatural DEF GetTransmitTerminatorSize
  <2> QED
    BY <1>2, <1>3, <1>4, <2>1 DEF FrameBytes, BytesWritten
<1>6. \A r \in Trackers \ {t} : FrameBytes(u, r) = FrameBytes(s, r)
  BY <1>2, <1>3, <1>4 DEF FrameBytes
<1> QED
  BY <1>4, <1>5, <1>6, <1>7, <1>8 DEF FrameStored, u

LEMMA ElementTyped ==
  ASSUME NEW S, NEW q \in Seq(S), NEW i \in 1 .. Len(q)
  PROVE  q[i] \in S
  OBVIOUS

LEMMA BufferedTyped ==
  ASSUME NEW s \in TxState, NEW t \in Trackers, NEW i \in 1 .. Len(s.buffer[t])
  PROVE  s.buffer[t][i].user \in Users /\ s.buffer[t][i].frame \in Frames
<1>1. s.buffer[t] \in Seq([user: Users, frame: Frames])
  BY Fields DEF FieldsTyped
<1>2. s.buffer[t][i] \in [user: Users, frame: Frames]
  BY <1>1, ElementTyped
<1> QED
  BY <1>2

(* u is s with one more frame, in the descriptor p and the buffer of t, which *)
(* is open in s or free.                                                     *)
Stored(s, u, t, p, frame) ==
  /\ SameSchedule(u, s)
  /\ t \notin s.busy /\ u.first[t] # NULL
  /\ \A r \in Trackers \ {t} :
       u.first[r] = s.first[r] /\ u.buffer[r] = s.buffer[r] /\ FrameBytes(u, r) = FrameBytes(s, r)
  /\ p \in FreePackets(s) /\ u.packet[p].tracker = t /\ p \in OwnPackets(u, t)
  /\ \A q \in Packets \ {p} : u.packet[q] = s.packet[q]
  /\ LaidOut(u, t)
  /\ \A i, j \in DOMAIN u.buffer[t] : u.buffer[t][i].user = u.buffer[t][j].user
  /\ s.first[t] # NULL =>
       OwnPackets(s, t) \subseteq OwnPackets(u, t) /\ Content(s, t) \subseteq Content(u, t)
  /\ Content(u, t) \subseteq {frame} \cup (IF s.first[t] # NULL THEN Content(s, t) ELSE {})

LEMMA StoredWhole ==
  ASSUME NEW s, NEW u, NEW t \in Trackers, NEW p, NEW frame, Whole(s), Good(u),
         Stored(s, u, t, p, frame), ~FrameInUse(s, frame)
  PROVE  Whole(u)
<1>1. s \in TxState /\ u \in TxState
  BY DEF Whole, Good
<1>2. /\ HeldTrackers(u) = HeldTrackers(s) \cup {t}
      /\ OpenTrackers(u) = OpenTrackers(s) \cup {t}
  BY DEF HeldTrackers, OpenTrackers, Stored, SameSchedule
<1>3. \A r \in Trackers \ {t} : OwnPackets(u, r) = OwnPackets(s, r) /\ Content(u, r) = Content(s, r)
  BY DEF OwnPackets, Content, WalkPacket, Stored
<1>4. ASSUME NEW r \in OpenTrackers(u) PROVE LaidOut(u, r)
  <2>1. CASE r = t
    BY <2>1 DEF Stored
  <2>2. CASE r # t
    <3>1. r \in OpenTrackers(s) /\ r \in Trackers \ {t} /\ LaidOut(s, r) /\ s.first[r] # NULL
      BY <1>2, <2>2 DEF Whole, Owned, OpenTrackers, HeldTrackers
    <3>2. ASSUME NEW q \in OwnPackets(s, r) PROVE u.packet[q] = s.packet[q]
      <4>1. q \in Packets
        BY <1>1, <3>1, OwnTyped
      <4>2. s.packet[q].user # NULL
        <5>1. PICK i \in 1 .. Len(s.buffer[r]) : q = WalkPacket(s, r, i - 1)
          BY DEF OwnPackets
        <5>2. s.packet[q].user = s.buffer[r][i].user
          BY <3>1, <5>1 DEF LaidOut, Described
        <5>3. s.buffer[r][i].user \in Users
          BY <1>1, <3>1, BufferedTyped
        <5> QED
          BY <5>2, <5>3
      <4> QED
        BY <4>1, <4>2 DEF Stored, FreePackets
    <3> QED
      BY <3>1, <3>2, LaidOutKept DEF Stored
  <2> QED
    BY <2>1, <2>2
<1>5. ASSUME NEW q \in Packets \ FreePackets(u)
      PROVE  u.packet[q].tracker \in OpenTrackers(u) /\ q \in OwnPackets(u, u.packet[q].tracker)
  <2>1. CASE q = p
    BY <1>2, <2>1 DEF Stored
  <2>2. CASE q # p
    <3>1. u.packet[q] = s.packet[q] /\ q \in Packets \ FreePackets(s)
      BY <2>2 DEF Stored, FreePackets
    <3>2. s.packet[q].tracker \in OpenTrackers(s) /\ q \in OwnPackets(s, s.packet[q].tracker)
      BY <3>1 DEF Whole, Owned
    <3>3. q \in OwnPackets(u, s.packet[q].tracker)
      BY <1>3, <3>2 DEF Stored, OpenTrackers, HeldTrackers
    <3> QED
      BY <1>2, <3>1, <3>2, <3>3
  <2> QED
    BY <2>1, <2>2
<1>6. Owned(u)
  <2>1. u.waiting \cup u.queued \subseteq OpenTrackers(u) /\ u.busy \subseteq HeldTrackers(u)
    BY <1>2 DEF Whole, Owned, Stored, SameSchedule
  <2> QED
    BY <1>4, <1>5, <2>1 DEF Owned
<1>7. TitleTransfers(u) = TitleTransfers(s)
  <2>1. s.busy \subseteq Trackers \ {t} /\ u.busy = s.busy
    BY <1>1, Fields DEF Stored, SameSchedule, FieldsTyped
  <2> QED
    BY <2>1 DEF TitleTransfers, Stored
<1>8. \A r \in HeldTrackers(u) :
        /\ u.buffer[r] # <<>>
        /\ \A i, j \in DOMAIN u.buffer[r] : u.buffer[r][i].user = u.buffer[r][j].user
  <2>1. u.buffer[t] # <<>>
    BY DEF Stored, LaidOut
  <2> QED
    BY <1>2, <2>1 DEF Whole, Apart, Stored, HeldTrackers
<1>9. \A r \in HeldTrackers(s) : frame \notin Content(s, r)
  BY DEF FrameInUse, Content
<1>10. \A r \in HeldTrackers(s) \ {t} : Content(u, r) = Content(s, r) /\ Content(s, r) \cap Content(u, t) = {}
  <2> SUFFICES ASSUME NEW r \in HeldTrackers(s) \ {t}
               PROVE  Content(u, r) = Content(s, r) /\ Content(s, r) \cap Content(u, t) = {}
    OBVIOUS
  <2>1. Content(u, r) = Content(s, r) /\ frame \notin Content(s, r)
    BY <1>3, <1>9 DEF HeldTrackers
  <2>2. s.first[t] # NULL => Content(s, r) \cap Content(s, t) = {}
    BY DEF HeldTrackers, Whole, Apart
  <2>3. Content(u, t) \subseteq {frame} \cup (IF s.first[t] # NULL THEN Content(s, t) ELSE {})
    BY DEF Stored
  <2> QED
    BY <2>1, <2>2, <2>3
<1>11. \A a, b \in HeldTrackers(u) : Content(u, a) \cap Content(u, b) # {} => a = b
  BY <1>2, <1>10 DEF Whole, Apart
<1>12. Apart(u)
  BY <1>7, <1>8, <1>11 DEF Whole, Apart
<1> QED
  BY <1>6, <1>12 DEF Whole

(* The descriptors of an open tracker are in use.                            *)
LEMMA OwnInUse ==
  ASSUME NEW s, NEW t \in OpenTrackers(s), Whole(s)
  PROVE  /\ OwnPackets(s, t) \in SUBSET Packets
         /\ \A p \in OwnPackets(s, t) : s.packet[p].tracker = t /\ s.packet[p].user \in Users
         /\ LaidOut(s, t) /\ t \in Trackers /\ s.first[t] # NULL /\ s \in TxState
<1>1. LaidOut(s, t) /\ t \in Trackers /\ s.first[t] # NULL /\ s \in TxState
  BY DEF Whole, Good, Owned, OpenTrackers, HeldTrackers
<1>2. OwnPackets(s, t) \in SUBSET Packets
  BY <1>1, OwnTyped
<1>3. \A i \in 1 .. Len(s.buffer[t]) :
        /\ s.packet[WalkPacket(s, t, i - 1)].tracker = t
        /\ s.packet[WalkPacket(s, t, i - 1)].user \in Users
  BY <1>1, BufferedTyped DEF LaidOut, Described
<1> QED
  BY <1>1, <1>2, <1>3 DEF OwnPackets

(* Appending to an open tracker whose last descriptor is just before p.      *)
LEMMA AppendStored ==
  ASSUME NEW s, NEW t \in OpenTrackers(s), NEW user \in Users, NEW length \in Nat,
         NEW frame \in Frames, Whole(s), Chipset # "RTL8153",
         s.nextPacket \in FreePackets(s),
         Len(s.buffer[t]) < XMIT_PACKET_COUNT,
         s.nextPacket = WalkPacket(s, t, Len(s.buffer[t])),
         s.buffer[t][Len(s.buffer[t])].user = user
  PROVE  Stored(s, StoreFrame(s, t, Len(s.buffer[t]), FrameBytes(s, t), user, length, frame),
                t, s.nextPacket, frame)
<1> DEFINE n == Len(s.buffer[t])
           p == s.nextPacket
           a == FrameBytes(s, t)
           L == Required(a, length)
           content == [user |-> user, frame |-> frame]
           u == StoreFrame(s, t, n, a, user, length, frame)
<1>1. /\ OwnPackets(s, t) \in SUBSET Packets
      /\ \A q \in OwnPackets(s, t) : s.packet[q].tracker = t /\ s.packet[q].user \in Users
      /\ LaidOut(s, t) /\ t \in Trackers /\ s.first[t] # NULL /\ s \in TxState /\ t \notin s.busy
  BY OwnInUse DEF OpenTrackers
<1>2. a \in Int /\ n \in 1 .. XMIT_PACKET_COUNT - 1 /\ L \in Int
  <2>1. a \in Int
    BY <1>1, FrameBytesTyped
  <2>2. n \in 1 .. XMIT_PACKET_COUNT - 1
    BY <1>1 DEF LaidOut
  <2>3. L \in Int
    BY <2>1, FramingNatural
  <2> QED
    BY <2>1, <2>2, <2>3
<1>3. /\ FramedLength(a, length) = L /\ L > 0
      /\ Chipset = "AX179A" => (a + L) % 8 = 0
  BY <1>1, <1>2, FramedLengthFits DEF LaidOut
<1>4. /\ SameSchedule(u, s) /\ u.first = s.first
      /\ u.packet[p] = [user |-> user, tracker |-> t, length |-> L]
      /\ \A q \in Packets \ {p} : u.packet[q] = s.packet[q]
      /\ u.buffer[t] = Append(s.buffer[t], content)
      /\ \A r \in Trackers \ {t} : u.buffer[r] = s.buffer[r]
      /\ FrameBytes(u, t) = a + L
      /\ \A r \in Trackers \ {t} : FrameBytes(u, r) = FrameBytes(s, r)
  <2>1. n # 0
    BY <1>2
  <2>2. FrameStored(s, u, t, n, a, user, length, frame)
    BY <1>1, <1>2, StoreFields
  <2> HIDE DEF n, a, u
  <2> QED
    BY <1>3, <2>1, <2>2 DEF FrameStored
<1>5. p \in Packets /\ p \notin OwnPackets(s, t)
  BY <1>1 DEF FreePackets
<1>6. p = WalkPacket(s, t, n) /\ s.buffer[t][n].user = user /\ p \in FreePackets(s)
  OBVIOUS
<1> HIDE DEF u, a, L, p
<1>8. /\ Len(u.buffer[t]) = n + 1 /\ DOMAIN u.buffer[t] = 1 .. n + 1
      /\ DOMAIN s.buffer[t] = 1 .. n
      /\ \A i \in 1 .. n : u.buffer[t][i] = s.buffer[t][i]
      /\ u.buffer[t][n + 1] = content
  <2>1. s.buffer[t] \in Seq([user: Users, frame: Frames])
    BY <1>1, Fields DEF FieldsTyped
  <2> QED
    BY <1>4, <2>1
<1> HIDE DEF n, content
<1>9. \A i : WalkPacket(u, t, i) = WalkPacket(s, t, i)
  BY <1>4 DEF WalkPacket
<1>10. OwnPackets(u, t) = OwnPackets(s, t) \cup {p}
  <2>1. OwnPackets(u, t) = {WalkPacket(s, t, i - 1) : i \in 1 .. n + 1}
    BY <1>8, <1>9 DEF OwnPackets
  <2>2. OwnPackets(s, t) = {WalkPacket(s, t, i - 1) : i \in 1 .. n}
    BY DEF OwnPackets, n
  <2>3. (n + 1) - 1 = n /\ 1 .. n + 1 = (1 .. n) \cup {n + 1}
    BY <1>2
  <2> QED
    BY <1>6, <2>1, <2>2, <2>3
<1>11. \A i \in 1 .. n : u.packet[WalkPacket(s, t, i - 1)] = s.packet[WalkPacket(s, t, i - 1)]
  <2>1. \A i \in 1 .. n : WalkPacket(s, t, i - 1) \in OwnPackets(s, t)
    BY DEF OwnPackets, n
  <2> QED
    BY <1>1, <1>4, <1>5, <2>1
<1>12. Described(u, t)
  <2> SUFFICES ASSUME NEW i \in 1 .. n + 1
               PROVE  LET d == u.packet[WalkPacket(s, t, i - 1)]
                      IN  d.tracker = t /\ d.user = u.buffer[t][i].user /\ d.length > 0
    BY <1>8, <1>9 DEF Described
  <2>1. CASE i = n + 1
    <3>1. i - 1 = n
      BY <1>2, <2>1
    <3> QED
      BY <1>3, <1>4, <1>6, <1>8, <2>1, <3>1 DEF content
  <2>2. CASE i # n + 1
    <3>1. i \in 1 .. n
      BY <1>2, <2>2
    <3> QED
      BY <1>1, <1>8, <1>11, <3>1 DEF LaidOut, Described, n
  <2> QED
    BY <2>1, <2>2
<1>13. UsedUp(u, t)
  <2> DEFINE w(i) == s.packet[WalkPacket(s, t, i - 1)].length
  <2>1. PICK rest \in [0 .. n -> Int] :
          rest[0] = a /\ rest[n] = 0 /\ \A i \in 1 .. n : rest[i] = rest[i - 1] - w(i)
    BY <1>1 DEF LaidOut, UsedUp, n, a
  <2> DEFINE more == [i \in 0 .. n + 1 |-> IF i = n + 1 THEN 0 ELSE rest[i] + L]
  <2>2. /\ more \in [0 .. n + 1 -> Int] /\ more[0] = a + L /\ more[n + 1] = 0 /\ more[n] = L
        /\ \A i \in 0 .. n : more[i] = rest[i] + L
    <3>1. \A i \in 0 .. n + 1 : i = n + 1 \/ i \in 0 .. n
      BY <1>2
    <3>2. 0 \in 0 .. n /\ n \in 0 .. n /\ n + 1 \notin 0 .. n
      BY <1>2
    <3>3. \A i \in 0 .. n : rest[i] + L \in Int
      BY <1>2, <2>1
    <3>4. more \in [0 .. n + 1 -> Int] /\ more[n + 1] = 0
      BY <1>2, <3>1, <3>3
    <3>5. \A i \in 0 .. n : more[i] = rest[i] + L
      BY <1>2, <3>2
    <3> HIDE DEF more
    <3> QED
      BY <1>2, <2>1, <3>2, <3>4, <3>5
  <2> HIDE DEF more
  <2>3. ASSUME NEW i \in 1 .. n + 1
        PROVE  more[i] = more[i - 1] - u.packet[WalkPacket(u, t, i - 1)].length
    <3>1. CASE i = n + 1
      <4>1. i - 1 = n /\ u.packet[WalkPacket(u, t, i - 1)].length = L
        BY <1>2, <1>4, <1>6, <1>9, <3>1
      <4> QED
        BY <1>2, <2>2, <3>1, <4>1
    <3>2. CASE i # n + 1
      <4>1. i \in 1 .. n /\ i - 1 \in 0 .. n /\ i \in 0 .. n
        BY <1>2, <3>2
      <4>2. u.packet[WalkPacket(u, t, i - 1)].length = w(i)
        BY <1>9, <1>11, <4>1
      <4>3. w(i) \in Int
        BY <1>1, <4>1, Fields DEF FieldsTyped, OwnPackets, n
      <4> HIDE DEF w
      <4>4. rest[i] = rest[i - 1] - w(i) /\ rest[i - 1] \in Int
        BY <2>1, <4>1
      <4> QED
        BY SMTT(40), <1>2, <2>2, <4>1, <4>2, <4>3, <4>4
    <3> QED
      BY <3>1, <3>2
  <2> QED
    BY SMTT(40), <1>4, <1>8, <2>2, <2>3 DEF UsedUp
<1>14. LaidOut(u, t)
  BY <1>2, <1>3, <1>4, <1>8, <1>12, <1>13 DEF LaidOut
<1>15. \A i, j \in DOMAIN u.buffer[t] : u.buffer[t][i].user = u.buffer[t][j].user
  <2>1. \A i \in 1 .. n : s.buffer[t][i].user = user
    <3>1. n \in 1 .. n
      BY <1>2
    <3>2. \A i, j \in 1 .. n : s.buffer[t][i].user = s.buffer[t][j].user
      <4>1. \A i, j \in DOMAIN s.buffer[t] : s.buffer[t][i].user = s.buffer[t][j].user
        BY DEF Whole, Apart, OpenTrackers
      <4> QED
        BY <1>8, <4>1
    <3> QED
      BY <1>6, <3>1, <3>2
  <2>2. \A i \in 1 .. n + 1 : u.buffer[t][i].user = user
    <3>1. 1 .. n + 1 = (1 .. n) \cup {n + 1}
      BY <1>2
    <3> QED
      BY <1>8, <2>1, <3>1 DEF content
  <2> QED
    BY <1>8, <2>2
<1>16. Content(u, t) = Content(s, t) \cup {frame}
  <2>1. 1 .. n + 1 = (1 .. n) \cup {n + 1}
    BY <1>2
  <2> QED
    BY SMTT(40), <1>8, <2>1 DEF Content, content
<1>17. Stored(s, u, t, p, frame)
  BY <1>1, <1>4, <1>5, <1>6, <1>10, <1>14, <1>15, <1>16 DEF Stored
<1> QED
  BY <1>17 DEF u, n, a, p

LEMMA AllocateFields ==
  ASSUME NEW s \in TxState, NEW t \in Trackers, NEW p \in Packets
  PROVE  LET u == AllocateXmitTracker(s, t, p)
         IN  /\ SameSchedule(u, s) /\ u.packet = s.packet
             /\ u.first = [s.first EXCEPT ![t] = p]
             /\ u.length = s.length /\ u.buffer = s.buffer /\ u.padded = s.padded
             /\ u.nextPacket = s.nextPacket
  BY DEF AllocateXmitTracker, TxState, SameSchedule

(* The first frame of a tracker that was free.                               *)
LEMMA OpenStored ==
  ASSUME NEW s, NEW t \in FreeTrackers(s), NEW user \in Users, NEW length \in Nat,
         NEW frame \in Frames, Whole(s), Chipset # "RTL8153",
         s.nextPacket \in FreePackets(s)
  PROVE  Stored(s, StoreFrame(AllocateXmitTracker(s, t, s.nextPacket), t, 0, 0,
                              user, length, frame),
                t, s.nextPacket, frame)
<1> DEFINE p == s.nextPacket
           L == Required(0, length)
           content == [user |-> user, frame |-> frame]
           o == AllocateXmitTracker(s, t, p)
           u == StoreFrame(o, t, 0, 0, user, length, frame)
<1>1. s \in TxState /\ Good(s) /\ t \in Trackers /\ s.first[t] = NULL /\ t \notin s.busy
  BY DEF Whole, Good, FreeTrackers, Unscheduled
<1>2. p \in Packets /\ p \in FreePackets(s)
  BY DEF FreePackets
<1>3. o \in TxState
  BY <1>1, <1>2, AllocateGood DEF Good
<1>4. /\ SameSchedule(o, s) /\ o.packet = s.packet /\ o.first = [s.first EXCEPT ![t] = p]
      /\ o.length = s.length /\ o.buffer = s.buffer /\ o.padded = s.padded
      /\ o.nextPacket = p
  BY <1>1, <1>2, AllocateFields
<1>5. L \in Int /\ FramedLength(0, length) = L /\ L > 0 /\ (Chipset = "AX179A" => L % 8 = 0)
  <2>1. 0 \in Int /\ 0 % 8 = 0
    OBVIOUS
  <2>2. L \in Int
    BY <2>1, FramingNatural
  <2>3. Chipset = "AX179A" => (0 + L) % 8 = 0
    BY <2>1, FramedLengthFits
  <2>4. FramedLength(0, length) = L /\ L > 0
    BY <2>1, FramedLengthFits
  <2> HIDE DEF L
  <2>5. 0 + L = L
    BY <2>2
  <2> QED
    BY <2>2, <2>3, <2>4, <2>5
<1> HIDE DEF o
<1>6. /\ SameSchedule(u, o) /\ u.first = o.first
      /\ u.packet[p] = [user |-> user, tracker |-> t, length |-> L]
      /\ \A q \in Packets \ {p} : u.packet[q] = o.packet[q]
      /\ u.buffer[t] = <<content>>
      /\ \A r \in Trackers \ {t} : u.buffer[r] = o.buffer[r]
      /\ FrameBytes(u, t) = 0 + L
      /\ \A r \in Trackers \ {t} : FrameBytes(u, r) = FrameBytes(o, r)
  <2>1. 0 \in Int
    OBVIOUS
  <2>2. FrameStored(o, u, t, 0, 0, user, length, frame)
    BY <1>1, <1>3, <2>1, StoreFields
  <2> HIDE DEF u
  <2> QED
    BY <1>4, <1>5, <2>2 DEF FrameStored
<1> HIDE DEF u, L, p
<1>7. /\ SameSchedule(u, s) /\ u.first[t] = p /\ FrameBytes(u, t) = L
      /\ \A q \in Packets \ {p} : u.packet[q] = s.packet[q]
      /\ \A r \in Trackers \ {t} : u.first[r] = s.first[r] /\ u.buffer[r] = s.buffer[r]
      /\ \A r \in Trackers \ {t} : FrameBytes(u, r) = FrameBytes(s, r)
  <2>1. SameSchedule(u, s)
    BY <1>4, <1>6 DEF SameSchedule
  <2>2. \A r \in Trackers \ {t} : FrameBytes(u, r) = FrameBytes(s, r)
    BY <1>4, <1>6 DEF FrameBytes
  <2>3. u.first[t] = p /\ \A r \in Trackers \ {t} : u.first[r] = s.first[r]
    BY <1>1, <1>4, <1>6, Fields DEF FieldsTyped
  <2> QED
    BY <1>4, <1>5, <1>6, <2>1, <2>2, <2>3
<1>8. /\ Len(u.buffer[t]) = 1 /\ DOMAIN u.buffer[t] = {1} /\ 1 .. 1 = {1}
      /\ u.buffer[t][1] = content
  BY <1>6
<1> HIDE DEF content
<1>9. WalkPacket(u, t, 1 - 1) = p
  <2>1. p \in 0 .. XMIT_PACKET_COUNT - 1 /\ 1 - 1 = 0
    BY <1>2 DEF Packets
  <2>2. (p + 0) % XMIT_PACKET_COUNT = p
    BY <2>1
  <2> QED
    BY <1>7, <2>1, <2>2 DEF WalkPacket
<1>10. OwnPackets(u, t) = {p}
  BY <1>8, <1>9 DEF OwnPackets
<1>11. Described(u, t)
  BY <1>5, <1>6, <1>8, <1>9 DEF Described, content
<1>12. UsedUp(u, t)
  <2> DEFINE rest == [i \in 0 .. 1 |-> IF i = 0 THEN L ELSE 0]
  <2>1. rest \in [0 .. 1 -> Int] /\ rest[0] = L /\ rest[1] = 0
    BY <1>5
  <2> HIDE DEF rest
  <2>2. \A i \in {1} : rest[i] = rest[i - 1] - u.packet[WalkPacket(u, t, i - 1)].length
    BY <1>5, <1>6, <1>9, <2>1
  <2> QED
    BY <1>7, <1>8, <2>1, <2>2 DEF UsedUp
<1>13. LaidOut(u, t)
  BY <1>5, <1>7, <1>8, <1>11, <1>12 DEF LaidOut
<1>14. /\ \A i, j \in DOMAIN u.buffer[t] : u.buffer[t][i].user = u.buffer[t][j].user
       /\ Content(u, t) = {frame}
  BY <1>8 DEF Content, content
<1>15. p # NULL
  BY <1>2 DEF Packets
<1>16. Stored(s, u, t, p, frame)
  BY <1>1, <1>2, <1>6, <1>7, <1>10, <1>13, <1>14, <1>15 DEF Stored
<1> QED
  BY <1>16 DEF u, o, p

-----------------------------------------------------------------------------
(* What a call of NicXmit may do to the frames the driver holds: A are the   *)
(* frames it accepts.                                                        *)
Keeps(s, u, A) ==
  /\ s.busy \subseteq u.busy
  /\ HeldTrackers(s) \subseteq HeldTrackers(u)
  /\ \A t \in s.busy : Content(u, t) = Content(s, t)
  /\ \A t \in HeldTrackers(s) :
       Content(s, t) \subseteq Content(u, t) /\ Content(u, t) \subseteq Content(s, t) \cup A
  /\ \A t \in HeldTrackers(u) \ HeldTrackers(s) : Content(u, t) \subseteq A

(* Nothing waits without a reason, and frames are held only while somebody    *)
(* will look at them.                                                        *)
Wakeful(s) == Heeded(s) /\ (HeldTrackers(s) # {} => Stirring(s))

Follows(s, u, A) == Whole(u) /\ Keeps(s, u, A) /\ (Wakeful(s) => Wakeful(u))

LEMMA KeepsTransitive ==
  ASSUME NEW s, NEW u, NEW v, NEW A, NEW B, Keeps(s, u, A), Keeps(u, v, B)
  PROVE  Keeps(s, v, A \cup B)
  BY DEF Keeps

LEMMA FollowsTransitive ==
  ASSUME NEW s, NEW u, NEW v, NEW A, NEW B, Follows(s, u, A), Follows(u, v, B)
  PROVE  Follows(s, v, A \cup B)
  BY KeepsTransitive DEF Follows

LEMMA HandedKeeps ==
  ASSUME NEW s, NEW u, Handed(s, u)
  PROVE  Keeps(s, u, {}) /\ HeldTrackers(u) = HeldTrackers(s)
<1>1. HeldTrackers(u) = HeldTrackers(s)
  BY DEF HeldTrackers, Handed
<1>2. \A t : Content(u, t) = Content(s, t)
  BY DEF Content, Handed
<1> QED
  BY <1>1, <1>2 DEF Keeps, Handed

LEMMA StoredKeeps ==
  ASSUME NEW s, NEW u, NEW t \in Trackers, NEW p, NEW frame, Whole(s),
         Stored(s, u, t, p, frame)
  PROVE  Keeps(s, u, {frame}) /\ HeldTrackers(u) = HeldTrackers(s) \cup {t}
<1>1. HeldTrackers(u) = HeldTrackers(s) \cup {t}
  BY DEF HeldTrackers, Stored
<1>2. \A r \in Trackers \ {t} : Content(u, r) = Content(s, r)
  BY DEF Content, Stored
<1>3. s.busy \subseteq Trackers \ {t} /\ u.busy = s.busy
  BY Fields DEF Whole, Good, FieldsTyped, Stored, SameSchedule
<1>4. ASSUME NEW r \in HeldTrackers(s)
      PROVE  Content(s, r) \subseteq Content(u, r) /\ Content(u, r) \subseteq Content(s, r) \cup {frame}
  <2>1. CASE r = t
    BY <2>1 DEF Stored, HeldTrackers
  <2>2. CASE r # t
    BY <1>2, <2>2 DEF HeldTrackers
  <2> QED
    BY <2>1, <2>2
<1>5. ASSUME NEW r \in HeldTrackers(u) \ HeldTrackers(s)
      PROVE  Content(u, r) \subseteq {frame}
  BY <1>1 DEF Stored, HeldTrackers
<1> QED
  BY <1>1, <1>2, <1>3, <1>4, <1>5 DEF Keeps

(* QueueOrSubmitXmitTrackerLocked, and nothing at all.                       *)
LEMMA QueueOrSubmitFollows ==
  ASSUME NEW s, NEW t \in OpenTrackers(s), NEW direct, Whole(s), Unscheduled(s, t)
  PROVE  LET u == QueueOrSubmitXmitTrackerLocked(s, t, direct)
         IN  /\ Whole(u) /\ Handed(s, u) /\ Keeps(s, u, {})
             /\ Heeded(s) => Wakeful(u)
             /\ Follows(s, u, {})
  BY QueueOrSubmitWhole, HandedKeeps, Zenon DEF Follows, Wakeful

LEMMA StandsStill ==
  ASSUME NEW s, Whole(s)
  PROVE  Follows(s, s, {}) /\ Handed(s, s)
  BY DEF Follows, Keeps, Handed

LEMMA CloseFollows ==
  ASSUME NEW s, NEW t \in OpenTrackers(s) \cup {NULL}, NEW direct, Whole(s)
  PROVE  /\ Follows(s, CloseXmitTracker(s, t, direct), {})
         /\ Handed(s, CloseXmitTracker(s, t, direct))
<1>1. CASE t # NULL /\ t \notin s.waiting \cup s.queued
  <2>1. t \in OpenTrackers(s) /\ Unscheduled(s, t)
    BY <1>1 DEF Unscheduled, OpenTrackers
  <2> QED
    BY <1>1, <2>1, QueueOrSubmitFollows DEF CloseXmitTracker
<1>2. CASE ~ (t # NULL /\ t \notin s.waiting \cup s.queued)
  BY <1>2, StandsStill DEF CloseXmitTracker
<1> QED
  BY <1>1, <1>2

(* Moving NextXmitPacket.                                                    *)
LEMMA MoveFollows ==
  ASSUME NEW s, NEW p \in Packets, Whole(s)
  PROVE  LET u == [s EXCEPT !.nextPacket = p]
         IN  /\ Follows(s, u, {}) /\ SameLayout(u, s) /\ SameSchedule(u, s) /\ u.nextPacket = p
<1> DEFINE u == [s EXCEPT !.nextPacket = p]
<1>1. s \in TxState /\ Good(s) /\ Good(u)
  BY NextPacketGood DEF Whole, Good
<1>2. SameLayout(u, s) /\ SameSchedule(u, s) /\ u.nextPacket = p
  BY <1>1 DEF TxState, SameLayout, SameSchedule
<1> HIDE DEF u
<1>3. u.waiting \cup u.queued \subseteq OpenTrackers(s) /\ u.busy = s.busy
  BY <1>2 DEF Whole, Owned, SameSchedule
<1>4. Whole(u)
  BY <1>1, <1>2, <1>3, SameLayoutWhole
<1>5. HeldTrackers(u) = HeldTrackers(s) /\ \A t : Content(u, t) = Content(s, t)
  BY <1>2 DEF HeldTrackers, Content, SameLayout
<1>6. Keeps(s, u, {})
  BY <1>3, <1>5 DEF Keeps
<1>7. Wakeful(s) => Wakeful(u)
  BY <1>2, <1>5 DEF Wakeful, Heeded, Stirring, SameSchedule
<1> QED
  BY <1>2, <1>4, <1>6, <1>7 DEF u, Follows

(* The previous descriptor is the last one of a tracker that is still open,  *)
(* and the next descriptor is free: an append continues the walk.            *)
LEMMA PreviousContinues ==
  ASSUME NEW s, NEW packet \in FreePackets(s), NEW user \in Users, Whole(s), NEW t,
         t = PreviousTracker(s, packet, user), t # NULL
  PROVE  /\ t \in OpenTrackers(s)
         /\ packet = s.nextPacket
         /\ Len(s.buffer[t]) < XMIT_PACKET_COUNT
         /\ packet = WalkPacket(s, t, Len(s.buffer[t]))
         /\ s.buffer[t][Len(s.buffer[t])].user = user
<1> DEFINE N == XMIT_PACKET_COUNT
           n == Len(s.buffer[t])
           f == s.first[t]
           q == Predecessor(packet, N)
<1>1. /\ packet = s.nextPacket /\ s.packet[q].user = user /\ s.packet[q].tracker = t
      /\ packet \in 0 .. N - 1 /\ s.packet[packet].user = NULL
  BY DEF PreviousTracker, FreePackets, Packets
<1>2. N \in Nat \ {0}
  OBVIOUS
<1>3. q = IF packet = 0 THEN N - 1 ELSE packet - 1
  <2>1. CASE packet = 0
    BY <1>2, <2>1 DEF Predecessor
  <2>2. CASE packet # 0
    <3>1. packet - 1 \in 0 .. N - 1 /\ packet + N - 1 = (packet - 1) + N
      BY <1>1, <1>2, <2>2
    <3>2. (packet - 1 + N) % N = packet - 1
      BY <1>2, <3>1
    <3> QED
      BY <2>2, <3>1, <3>2 DEF Predecessor
  <2> QED
    BY <2>1, <2>2
<1>4. q \in Packets \ FreePackets(s)
  <2>1. q \in Packets
    BY <1>1, <1>2, <1>3 DEF Packets
  <2> QED
    BY <1>1, <2>1 DEF FreePackets
<1>5. t \in OpenTrackers(s) /\ q \in OwnPackets(s, t)
  BY <1>1, <1>4 DEF Whole, Owned
<1>6. /\ OwnPackets(s, t) \in SUBSET Packets
      /\ \A p \in OwnPackets(s, t) : s.packet[p].tracker = t /\ s.packet[p].user \in Users
      /\ LaidOut(s, t) /\ f \in 0 .. N - 1
  BY <1>5, OwnInUse, Fields DEF FieldsTyped, Packets
<1>7. n \in 1 .. N
  BY <1>6 DEF LaidOut
<1>8. PICK i \in 1 .. n : q = WalkPacket(s, t, i - 1)
  BY <1>5 DEF OwnPackets
<1>9. packet \notin OwnPackets(s, t)
  BY <1>1, <1>6
<1>10. \A k : WalkPacket(s, t, k) = (f + k) % N
  BY DEF WalkPacket
<1>11. OwnPackets(s, t) = {WalkPacket(s, t, k - 1) : k \in 1 .. n}
  BY DEF OwnPackets
<1>12. s.packet[q].user = s.buffer[t][i].user
  BY <1>6, <1>8 DEF LaidOut, Described
<1> HIDE DEF N, n, f, q
<1>13. packet = WalkPacket(s, t, i)
  <2>1. i - 1 \in 0 .. N /\ i \in 0 .. N
    BY <1>2, <1>7, <1>8
  <2>2. q = IF f + (i - 1) < N THEN f + (i - 1) ELSE f + (i - 1) - N
    BY <1>2, <1>6, <1>8, <1>10, <2>1, RingStep
  <2>3. WalkPacket(s, t, i) = IF f + i < N THEN f + i ELSE f + i - N
    BY <1>2, <1>6, <1>10, <2>1, RingStep
  <2> QED
    BY <1>1, <1>2, <1>3, <1>6, <2>1, <2>2, <2>3
<1>14. i = n
  <2> SUFFICES ASSUME i # n PROVE FALSE
    OBVIOUS
  <2>1. i + 1 \in 1 .. n /\ (i + 1) - 1 = i
    BY <1>7, <1>8
  <2> QED
    BY <1>9, <1>11, <1>13, <2>1
<1>15. n # N
  <2> SUFFICES ASSUME n = N PROVE FALSE
    OBVIOUS
  <2>1. N \in 0 .. N /\ 0 \in 0 .. N /\ 1 \in 1 .. n /\ 1 - 1 = 0
    BY <1>2, <1>7
  <2>2. (f + N) % N = f /\ (f + 0) % N = f
    BY <1>2, <1>6
  <2>3. packet = WalkPacket(s, t, 1 - 1)
    BY <1>10, <1>13, <1>14, <2>1, <2>2
  <2> QED
    BY <1>9, <1>11, <2>1, <2>3
<1>16. n < N
  BY <1>2, <1>7, <1>15
<1>17. packet = WalkPacket(s, t, n)
  BY <1>13, <1>14
<1>18. s.buffer[t][n].user = user
  BY <1>1, <1>12, <1>14
<1> QED
  BY <1>1, <1>5, <1>16, <1>17, <1>18 DEF n, N

LEMMA FollowsWider ==
  ASSUME NEW s, NEW u, NEW A, Follows(s, u, {})
  PROVE  Follows(s, u, A)
  BY DEF Follows, Keeps

(* A stored frame, and the tracker handed on or not.                         *)
LEMMA StoredFollows ==
  ASSUME NEW s, NEW u, NEW t \in Trackers, NEW p, NEW frame, Whole(s), Good(u),
         Stored(s, u, t, p, frame), ~FrameInUse(s, frame)
  PROVE  /\ Whole(u) /\ Keeps(s, u, {frame})
         /\ t \in OpenTrackers(u)
         /\ Heeded(s) => Heeded(u)
         /\ Stirring(s) => Stirring(u)
<1>1. Whole(u)
  BY StoredWhole
<1>2. Keeps(s, u, {frame}) /\ HeldTrackers(u) = HeldTrackers(s) \cup {t}
  BY StoredKeeps
<1>3. SameSchedule(u, s) /\ t \notin s.busy
  BY DEF Stored
<1> QED
  BY <1>1, <1>2, <1>3 DEF OpenTrackers, SameSchedule, Heeded, Stirring

(* The end of FillFrame: u holds the stored frame, v is what it leaves.      *)
LEMMA HandOnFollows ==
  ASSUME NEW s, NEW u, NEW v, NEW t \in OpenTrackers(u), NEW A, NEW direct, NEW handed \in BOOLEAN,
         Whole(s), Whole(u), Keeps(s, u, A), Heeded(s) => Heeded(u),
         v = IF handed /\ Unscheduled(u, t) THEN QueueOrSubmitXmitTrackerLocked(u, t, direct) ELSE u,
         (handed /\ Unscheduled(u, t)) \/ (Wakeful(s) => Stirring(u))
  PROVE  Follows(s, v, A)
<1>1. CASE handed /\ Unscheduled(u, t)
  <2>1. v = QueueOrSubmitXmitTrackerLocked(u, t, direct)
    BY <1>1
  <2>2. Whole(v) /\ Keeps(u, v, {}) /\ (Heeded(u) => Wakeful(v))
    BY <1>1, <2>1, QueueOrSubmitFollows
  <2>3. Keeps(s, v, A \cup {})
    BY <2>2, KeepsTransitive
  <2>4. A \cup {} = A
    OBVIOUS
  <2> QED
    BY <2>2, <2>3, <2>4 DEF Follows, Wakeful
<1>2. CASE ~(handed /\ Unscheduled(u, t))
  BY <1>2 DEF Follows, Wakeful
<1> QED
  BY <1>1, <1>2

LEMMA FillAppendFollows ==
  ASSUME NEW s, NEW t \in OpenTrackers(s), NEW user \in Users, NEW length \in Nat,
         NEW frame \in Frames, NEW direct, Whole(s), Chipset # "RTL8153",
         s.nextPacket \in FreePackets(s),
         Len(s.buffer[t]) < XMIT_PACKET_COUNT,
         s.nextPacket = WalkPacket(s, t, Len(s.buffer[t])),
         s.buffer[t][Len(s.buffer[t])].user = user,
         ~FrameInUse(s, frame)
  PROVE  Follows(s, FillFrame(s, t, Len(s.buffer[t]), user, length, frame, FALSE, direct), {frame})
<1> DEFINE n      == Len(s.buffer[t])
           a      == FrameBytes(s, t)
           stored == StoreFrame(s, t, n, a, user, length, frame)
           limit  == IF IsLowLatencyNicUser(user) THEN MaximumDebugFramesPerXmit ELSE MaximumFramesPerXmit
           full   == stored.length[t] >= XmitSubmitThreshold \/ n + 1 >= limit
           v      == FillFrame(s, t, n, user, length, frame, FALSE, direct)
<1>1. LaidOut(s, t) /\ t \in Trackers /\ s \in TxState /\ Good(s) /\ t \in HeldTrackers(s)
  BY OwnInUse DEF OpenTrackers, Whole
<1>2. n # 0 /\ a \in Int
  BY <1>1, FrameBytesTyped DEF LaidOut
<1>3. Stored(s, stored, t, s.nextPacket, frame)
  BY AppendStored
<1>4. Good(stored)
  BY <1>1, <1>2, StoreGood
<1>5. v = IF ~FrameAppended(a, length) THEN s
          ELSE IF full /\ Unscheduled(stored, t)
          THEN QueueOrSubmitXmitTrackerLocked(stored, t, direct) ELSE stored
  BY <1>2, Zenon DEF FillFrame
<1>6. full \in BOOLEAN
  OBVIOUS
<1> HIDE DEF stored, v, full, n, a
<1>7. /\ Whole(stored) /\ Keeps(s, stored, {frame}) /\ t \in OpenTrackers(stored)
      /\ Heeded(s) => Heeded(stored)
      /\ Stirring(s) => Stirring(stored)
  BY <1>1, <1>3, <1>4, StoredFollows
<1>8. CASE ~FrameAppended(a, length)
  BY <1>5, <1>8, StandsStill, FollowsWider DEF v, n
<1>9. CASE FrameAppended(a, length)
  <2>1. v = IF full /\ Unscheduled(stored, t)
            THEN QueueOrSubmitXmitTrackerLocked(stored, t, direct) ELSE stored
    BY <1>5, <1>9
  <2>2. Wakeful(s) => Stirring(stored)
    BY <1>1, <1>7 DEF Wakeful
  <2>3. Follows(s, v, {frame})
    BY <1>6, <1>7, <2>1, <2>2, HandOnFollows
  <2> QED
    BY <2>3 DEF v, n
<1> QED
  BY <1>8, <1>9

LEMMA FailedFields ==
  ASSUME NEW s \in TxState, NEW t \in Trackers, NEW p \in Packets, s.first[t] = NULL
  PROVE  LET v == ReleaseFailedXmitTracker(AllocateXmitTracker(s, t, p), t)
         IN  SameLayout(v, s) /\ SameSchedule(v, s)
<1> DEFINE o == AllocateXmitTracker(s, t, p)
           v == ReleaseFailedXmitTracker(o, t)
<1>1. /\ SameSchedule(o, s) /\ o.packet = s.packet /\ o.first = [s.first EXCEPT ![t] = p]
      /\ o.length = s.length /\ o.buffer = s.buffer /\ o.padded = s.padded
      /\ o.active = s.active + 1 /\ DOMAIN o = DOMAIN s
  BY DEF AllocateXmitTracker, TxState, SameSchedule
<1>2. v = [o EXCEPT !.first = [o.first EXCEPT ![t] = NULL], !.active = o.active - 1]
  BY DEF ReleaseFailedXmitTracker, AllocateXmitTracker, TxState
<1>3. DOMAIN s = {"packet", "first", "length", "buffer", "padded", "waiting", "queued",
                  "busy", "dpcs", "nextPacket", "nextTracker", "pending", "active"}
  BY DEF TxState
<1> HIDE DEF v, o
<1>4. v.first = [o.first EXCEPT ![t] = NULL]
  BY <1>1, <1>2, <1>3
<1>5. /\ v.packet = o.packet /\ v.length = o.length /\ v.buffer = o.buffer /\ v.padded = o.padded
      /\ SameSchedule(v, o)
  BY <1>1, <1>2, <1>3 DEF SameSchedule
<1>6. v.first = s.first
  <2>1. s.first = [r \in Trackers |-> s.first[r]]
    BY Fields DEF FieldsTyped
  <2> QED
    BY <1>1, <1>4, <2>1
<1>7. SameLayout(v, s) /\ SameSchedule(v, s)
  BY <1>1, <1>5, <1>6 DEF SameLayout, SameSchedule
<1> QED
  BY <1>7 DEF v, o

LEMMA FillOpenFollows ==
  ASSUME NEW s, NEW t \in FreeTrackers(s), NEW user \in Users, NEW length \in Nat,
         NEW frame \in Frames, NEW submit \in BOOLEAN, NEW direct, Whole(s), Chipset # "RTL8153",
         s.nextPacket \in FreePackets(s),
         ~FrameInUse(s, frame),
         submit \/ ~PipeIdle(s)
  PROVE  Follows(s, FillFrame(AllocateXmitTracker(s, t, s.nextPacket), t, 0, user, length, frame,
                              submit, direct), {frame})
<1> DEFINE p      == s.nextPacket
           o      == AllocateXmitTracker(s, t, p)
           stored == StoreFrame(o, t, 0, 0, user, length, frame)
           limit  == IF IsLowLatencyNicUser(user) THEN MaximumDebugFramesPerXmit ELSE MaximumFramesPerXmit
           full   == stored.length[t] >= XmitSubmitThreshold \/ 0 + 1 >= limit
           failed == ReleaseFailedXmitTracker(o, t)
           v      == FillFrame(o, t, 0, user, length, frame, submit, direct)
<1>1. s \in TxState /\ Good(s) /\ t \in Trackers /\ s.first[t] = NULL /\ Unscheduled(s, t)
  BY DEF Whole, Good, FreeTrackers
<1>2. p \in Packets
  BY DEF FreePackets
<1>3. Stored(s, stored, t, p, frame)
  BY OpenStored
<1>4. Good(o)
  BY <1>1, <1>2, AllocateGood
<1>5. 0 \in Int
  OBVIOUS
<1>6. SameLayout(failed, s) /\ SameSchedule(failed, s)
  BY <1>1, <1>2, FailedFields
<1>7. v = IF ~FrameAppended(0, length) THEN failed
          ELSE IF (submit \/ full) /\ Unscheduled(stored, t)
          THEN QueueOrSubmitXmitTrackerLocked(stored, t, direct) ELSE stored
  BY Zenon DEF FillFrame
<1>8. full \in BOOLEAN
  OBVIOUS
<1> HIDE DEF o
<1>9. Good(stored) /\ Good(failed)
  BY <1>1, <1>4, <1>5, StoreGood, ReleaseFailedGood
<1> HIDE DEF stored, v, full, failed, p
<1>10. /\ Whole(stored) /\ Keeps(s, stored, {frame}) /\ t \in OpenTrackers(stored)
       /\ Heeded(s) => Heeded(stored)
       /\ Stirring(s) => Stirring(stored)
  BY <1>1, <1>3, <1>9, StoredFollows
<1>11. CASE ~FrameAppended(0, length)
  <2>1. failed.waiting \cup failed.queued \subseteq OpenTrackers(s) /\ failed.busy = s.busy
    BY <1>6 DEF Whole, Owned, SameSchedule
  <2>2. Whole(failed)
    BY <1>6, <1>9, <2>1, SameLayoutWhole
  <2>3. HeldTrackers(failed) = HeldTrackers(s) /\ \A r : Content(failed, r) = Content(s, r)
    BY <1>6 DEF HeldTrackers, Content, SameLayout
  <2>4. Keeps(s, failed, {})
    BY <2>1, <2>3 DEF Keeps
  <2>5. Wakeful(s) => Wakeful(failed)
    BY <1>6, <2>3 DEF Wakeful, Heeded, Stirring, SameSchedule
  <2> QED
    BY <1>7, <1>11, <2>2, <2>4, <2>5, FollowsWider DEF Follows, v, o, p
<1>12. CASE FrameAppended(0, length)
  <2> DEFINE handed == submit \/ full
  <2>1. v = IF handed /\ Unscheduled(stored, t)
            THEN QueueOrSubmitXmitTrackerLocked(stored, t, direct) ELSE stored
    BY <1>7, <1>12
  <2>2. Unscheduled(stored, t)
    BY <1>1, <1>3 DEF Stored, SameSchedule, Unscheduled
  <2>3. Wakeful(s) /\ ~submit => Stirring(s)
    <3> SUFFICES ASSUME Wakeful(s), ~PipeIdle(s) PROVE Stirring(s)
      OBVIOUS
    <3>1. CASE s.pending # 0
      BY <1>1, <3>1, PendingStirs
    <3>2. CASE s.queued # {}
      BY <3>2 DEF Stirring
    <3>3. CASE s.waiting # {} /\ s.pending = 0
      BY <3>3 DEF Wakeful, Heeded
    <3> QED
      BY <3>1, <3>2, <3>3 DEF PipeIdle
  <2>4. handed \/ (Wakeful(s) => Stirring(stored))
    BY <1>10, <2>3
  <2>5. handed \in BOOLEAN
    BY <1>8
  <2> HIDE DEF handed
  <2>6. Follows(s, v, {frame})
    BY <1>10, <2>1, <2>2, <2>4, <2>5, HandOnFollows
  <2> QED
    BY <2>6 DEF v, o, p
<1> QED
  BY <1>11, <1>12

LEMMA NicXmitFollows ==
  ASSUME Whole(tx), Chipset # "RTL8153", NEW user \in Users, NEW length \in Nat, NEW direct,
         NEW frame \in Frames, NicXmit(user, length, direct, frame)
  PROVE  Follows(tx, tx', {frame})
<1> DEFINE packet   == Nearest(tx.nextPacket, FreePackets(tx), XMIT_PACKET_COUNT)
           previous == PreviousTracker(tx, packet, user)
           moved    == [tx EXCEPT !.nextPacket = packet]
           closed   == CloseXmitTracker(moved, previous, direct)
<1>1. tx \in TxState /\ Good(tx)
  BY DEF Whole, Good
<1>2. packet \in FreePackets(tx)
  <2>1. FreePackets(tx) # {} /\ FreePackets(tx) \in SUBSET Packets
    BY DEF NicXmit, FreePackets
  <2>2. tx.nextPacket \in Int
    BY <1>1, Fields DEF FieldsTyped, Packets
  <2> QED
    BY <2>1, <2>2, NearestElement DEF Packets
<1>3. /\ IF previous # NULL /\ CanAppend(tx, previous, user, length)
         THEN NicXmitAppend(user, length, direct, frame, packet, previous)
         ELSE \/ NicXmitAllocate(user, length, direct, frame, packet, previous)
              \/ NicXmitDrop(user, length, direct, packet, previous)
      /\ ~FrameInUse(tx, frame)
  BY DEF NicXmit
<1> HIDE DEF packet
<1>4. previous # NULL =>
        /\ previous \in OpenTrackers(tx)
        /\ packet = tx.nextPacket
        /\ Len(tx.buffer[previous]) < XMIT_PACKET_COUNT
        /\ packet = WalkPacket(tx, previous, Len(tx.buffer[previous]))
        /\ tx.buffer[previous][Len(tx.buffer[previous])].user = user
  <2> HIDE DEF previous
  <2> QED
    BY <1>2, PreviousContinues DEF previous
<1> HIDE DEF previous
<1>5. Follows(tx, moved, {}) /\ SameLayout(moved, tx) /\ SameSchedule(moved, tx) /\ moved.nextPacket = packet
  <2>1. packet \in Packets
    BY <1>2 DEF FreePackets
  <2> QED
    BY <2>1, MoveFollows
<1> HIDE DEF moved
<1>6. /\ FreePackets(moved) = FreePackets(tx) /\ OpenTrackers(moved) = OpenTrackers(tx)
      /\ FrameInUse(moved, frame) = FrameInUse(tx, frame)
  BY <1>5 DEF FreePackets, OpenTrackers, HeldTrackers, FrameInUse, SameLayout, SameSchedule
<1>7. Follows(moved, closed, {}) /\ Handed(moved, closed)
  <2>1. previous \in OpenTrackers(moved) \cup {NULL}
    BY <1>4, <1>6
  <2> QED
    BY <1>5, <2>1, CloseFollows DEF Follows
<1>8. Follows(tx, closed, {})
  <2>1. Follows(tx, closed, {} \cup {})
    BY <1>5, <1>7, FollowsTransitive
  <2>2. {} \cup {} = {}
    OBVIOUS
  <2> QED
    BY <2>1, <2>2
<1>9. CASE previous # NULL /\ NicXmitAppend(user, length, direct, frame, packet, previous)
  <2>1. CountXmitTrackerFrames(tx, previous) = Len(tx.buffer[previous])
    BY <1>4, <1>9, OwnInUse, WalkExact
  <2>2. tx' = FillFrame(moved, previous, Len(moved.buffer[previous]), user, length, frame, FALSE, direct)
    BY <1>5, <1>9, <2>1 DEF NicXmitAppend, moved, SameLayout
  <2>3. /\ previous \in OpenTrackers(moved) /\ Whole(moved)
        /\ moved.nextPacket \in FreePackets(moved)
        /\ Len(moved.buffer[previous]) < XMIT_PACKET_COUNT
        /\ moved.nextPacket = WalkPacket(moved, previous, Len(moved.buffer[previous]))
        /\ moved.buffer[previous][Len(moved.buffer[previous])].user = user
        /\ ~FrameInUse(moved, frame)
    BY <1>2, <1>3, <1>4, <1>5, <1>6, <1>9 DEF Follows, SameLayout, WalkPacket
  <2>4. Follows(moved, tx', {frame})
    BY <2>2, <2>3, FillAppendFollows
  <2>5. Follows(tx, tx', {} \cup {frame})
    BY <1>5, <2>4, FollowsTransitive
  <2>6. {} \cup {frame} = {frame}
    OBVIOUS
  <2> QED
    BY <2>5, <2>6
<1>10. CASE NicXmitAllocate(user, length, direct, frame, packet, previous)
  <2> DEFINE t      == Nearest(closed.nextTracker, FreeTrackers(closed), XMIT_TRACKER_COUNT)
             submit == IsImmediate(user, length) \/ PipeIdle(closed)
  <2>1. FreeTrackers(closed) # {} /\ FreeTrackers(closed) \in SUBSET Trackers
    BY <1>10 DEF NicXmitAllocate, FreeTrackers, moved
  <2>2. tx' = FillFrame(AllocateXmitTracker(closed, t, packet), t, 0, user, length, frame,
                        submit, direct)
    BY <1>10 DEF NicXmitAllocate, moved
  <2>3. Whole(closed)
    BY <1>7 DEF Follows
  <2>4. closed.nextTracker \in Int
    BY <2>3, Fields DEF Whole, Good, FieldsTyped, Trackers
  <2>5. closed.nextPacket = packet
    BY <1>5, <1>7 DEF Handed
  <2>6. packet \in FreePackets(closed)
    BY <1>2, <1>5, <1>6, <1>7 DEF FreePackets, Handed, FreePacket
  <2>7. ~FrameInUse(closed, frame)
    BY <1>3, <1>6, <1>7 DEF FrameInUse, HeldTrackers, Handed
  <2>8. submit \in BOOLEAN /\ (submit \/ ~PipeIdle(closed))
    BY DEF IsImmediate, IsLowLatencyNicUser, PipeIdle
  <2> HIDE DEF closed
  <2>9. t \in FreeTrackers(closed)
    BY <2>1, <2>4, NearestElement DEF Trackers
  <2> HIDE DEF t, submit
  <2>10. Follows(closed, tx', {frame})
    BY <2>2, <2>3, <2>5, <2>6, <2>7, <2>8, <2>9, FillOpenFollows
  <2>11. Follows(tx, tx', {} \cup {frame})
    BY <1>8, <2>10, FollowsTransitive
  <2>12. {} \cup {frame} = {frame}
    OBVIOUS
  <2> QED
    BY <2>11, <2>12
<1>11. CASE NicXmitDrop(user, length, direct, packet, previous)
  <2>1. tx' = closed
    BY <1>11 DEF NicXmitDrop, moved
  <2> QED
    BY <1>8, <2>1, FollowsWider
<1> QED
  BY <1>3, <1>9, <1>10, <1>11

-----------------------------------------------------------------------------
(* The DPC.                                                                  *)

LEMMA BulkXmitSwitchProcsFollows ==
  ASSUME Whole(tx), BulkXmitSwitchProcs
  PROVE  /\ Whole(tx') /\ Keeps(tx, tx', {})
         /\ ~closing /\ Heeded(tx) => Wakeful(tx')
<1> DEFINE t == Head(tx.dpcs)
           u == [tx EXCEPT !.dpcs = Tail(@), !.queued = @ \ {t}]
           w == [u EXCEPT !.waiting = @ \cup {t}]
           v == [u EXCEPT !.waiting = @ \ {t}]
<1>1. tx' = IF closing \/ ~CanSubmitXmitTracker(u, t) THEN w ELSE SubmitXmitTrackerLocked(v, t)
  BY DEF BulkXmitSwitchProcs
<1>2. Good(tx) /\ tx.dpcs # <<>>
  BY DEF Whole, BulkXmitSwitchProcs
<1>3. t \in Trackers /\ t \in tx.queued /\ Good(u) /\ Dequeued(tx, u, t)
  BY <1>2, DequeueGood, Zenon
<1> HIDE DEF t, u
<1>4. Whole(u) /\ Handed(tx, u)
  <2>1. u.waiting \cup u.queued \subseteq OpenTrackers(tx)
    BY <1>3 DEF Dequeued, Whole, Owned
  <2> QED
    BY <1>3, <2>1, SameLayoutWhole, SameLayoutHanded DEF Dequeued
<1>5. t \in OpenTrackers(u) /\ Unscheduled(u, t)
  BY <1>2, <1>3 DEF Whole, Owned, Dequeued, OpenTrackers, HeldTrackers, SameLayout, Unscheduled,
                    Good, Scheduled
<1>6. Heeded(tx) => Heeded(u)
  BY <1>3 DEF Heeded, Dequeued
<1>7. Keeps(tx, u, {})
  BY <1>4, HandedKeeps
<1>8. CASE closing \/ ~CanSubmitXmitTracker(u, t)
  <2>1. tx' = w
    BY <1>1, <1>8
  <2>2. Whole(w) /\ Handed(u, w) /\ (~CanSubmitXmitTracker(u, t) => Heeded(w) /\ Stirring(w))
    BY <1>4, <1>5, WaitWhole
  <2> HIDE DEF w
  <2>3. Keeps(u, w, {})
    BY <2>2, HandedKeeps
  <2>4. Keeps(tx, w, {} \cup {})
    BY <1>7, <2>3, KeepsTransitive
  <2> QED
    BY <1>8, <2>1, <2>2, <2>4 DEF Wakeful
<1>9. CASE ~(closing \/ ~CanSubmitXmitTracker(u, t))
  <2>0. u \in TxState
    BY <1>3 DEF Good
  <2>1. Good(v)
    BY <1>3, UnwaitGood
  <2>2. /\ SameLayout(v, u) /\ v.waiting = u.waiting \ {t} /\ v.queued = u.queued
        /\ v.busy = u.busy /\ v.nextPacket = u.nextPacket /\ v.pending = u.pending
    BY <1>3, <2>0, UnwaitFields
  <2>3. tx' = SubmitXmitTrackerLocked(v, t)
    BY <1>1, <1>9
  <2> HIDE DEF v
  <2>4. v.waiting \cup v.queued \subseteq OpenTrackers(u)
    BY <1>4, <2>2 DEF Whole, Owned
  <2>5. Whole(v) /\ Handed(u, v)
    BY <1>4, <2>1, <2>2, <2>4, SameLayoutWhole, SameLayoutHanded
  <2>6. t \in OpenTrackers(v) /\ Unscheduled(v, t) /\ CanSubmitXmitTracker(v, t)
    BY <1>5, <1>9, <2>2 DEF OpenTrackers, HeldTrackers, Unscheduled, CanSubmitXmitTracker,
                            IsDebugXmitTracker, SameLayout
  <2>7. Whole(tx') /\ Handed(v, tx')
    BY <2>3, <2>5, <2>6, SubmitWhole
  <2>8. (Heeded(v) => Heeded(tx')) /\ Stirring(tx')
    BY <1>3, <2>1, <2>3, SubmitHeeds DEF Good
  <2>9. Heeded(u) => Heeded(v)
    BY <2>2 DEF Heeded
  <2>10. Keeps(u, v, {}) /\ Keeps(v, tx', {})
    BY <2>5, <2>7, HandedKeeps
  <2>11. Keeps(tx, tx', ({} \cup {}) \cup {})
    BY <1>7, <2>10, KeepsTransitive
  <2>12. ({} \cup {}) \cup {} = {}
    OBVIOUS
  <2> QED
    BY <1>6, <2>7, <2>8, <2>9, <2>11, <2>12 DEF Wakeful
<1> QED
  BY <1>8, <1>9

-----------------------------------------------------------------------------
(* The completion.                                                           *)

(* u is s without the transfer of t.                                         *)
Completed(s, u, t) ==
  /\ u.packet = s.packet /\ u.first[t] = NULL /\ u.busy = s.busy \ {t}
  /\ u.waiting = s.waiting /\ u.queued = s.queued
  /\ \A r \in Trackers \ {t} :
       u.first[r] = s.first[r] /\ u.buffer[r] = s.buffer[r] /\ FrameBytes(u, r) = FrameBytes(s, r)

LEMMA CompleteFields ==
  ASSUME tx \in TxState, NEW t \in Trackers, CompleteTransmit(t)
  PROVE  Completed(tx, tx', t)
<1>1. /\ tx'.packet = tx.packet /\ tx'.first = [tx.first EXCEPT ![t] = NULL]
      /\ tx'.length = [tx.length EXCEPT ![t] = 0]
      /\ tx'.buffer = [tx.buffer EXCEPT ![t] = <<>>] /\ tx'.padded = tx.padded \ {t}
      /\ tx'.waiting = tx.waiting /\ tx'.queued = tx.queued /\ tx'.busy = tx.busy \ {t}
  BY DEF CompleteTransmit, TxState
<1>2. /\ tx'.first[t] = NULL
      /\ \A r \in Trackers \ {t} : /\ tx'.first[r] = tx.first[r] /\ tx'.buffer[r] = tx.buffer[r]
                                  /\ tx'.length[r] = tx.length[r]
                                  /\ r \in tx'.padded <=> r \in tx.padded
  BY <1>1, Fields DEF FieldsTyped
<1> QED
  BY <1>1, <1>2 DEF Completed, FrameBytes

LEMMA CompleteTransmitWhole ==
  ASSUME IInv, Whole(tx), NEW t \in Trackers, CompleteTransmit(t)
  PROVE  /\ Whole(tx') /\ Completed(tx, tx', t) /\ t \in tx.busy
         /\ HeldTrackers(tx') = HeldTrackers(tx) \ {t}
         /\ \A r \in HeldTrackers(tx') : Content(tx', r) = Content(tx, r)
<1> DEFINE s == tx
           u == tx'
<1>1. Completed(s, u, t) /\ Good(u) /\ t \in s.busy /\ s \in TxState
  BY CompleteFields, CompleteTransmitGood DEF Whole, Good, CompleteTransmit
<1>0. Owned(s) /\ Apart(s) /\ Scheduled(s)
  BY DEF Whole, Good
<1> HIDE DEF s, u
<1>2. HeldTrackers(u) = HeldTrackers(s) \ {t} /\ OpenTrackers(u) = OpenTrackers(s)
  BY <1>1 DEF HeldTrackers, OpenTrackers, Completed
<1>3. \A r \in Trackers \ {t} : OwnPackets(u, r) = OwnPackets(s, r) /\ Content(u, r) = Content(s, r)
  BY <1>1 DEF OwnPackets, Content, WalkPacket, Completed
<1>4. OpenTrackers(s) \subseteq Trackers \ {t}
  BY <1>1 DEF OpenTrackers, HeldTrackers
<1>5. \A r \in OpenTrackers(u) : LaidOut(u, r)
  BY <1>0, <1>1, <1>2, <1>4, LaidOutKept DEF Owned, Completed
<1>6. \A p \in Packets \ FreePackets(u) :
        u.packet[p].tracker \in OpenTrackers(u) /\ p \in OwnPackets(u, u.packet[p].tracker)
  <2>1. FreePackets(u) = FreePackets(s) /\ u.packet = s.packet
    BY <1>1 DEF FreePackets, Completed
  <2> QED
    BY <1>0, <1>2, <1>3, <1>4, <2>1 DEF Owned
<1>7. Owned(u)
  BY <1>0, <1>1, <1>2, <1>5, <1>6 DEF Owned, Completed
<1>8. Cardinality(TitleTransfers(u)) <= MaximumTitlePendingXmitCount
  <2>1. s.busy \in SUBSET Trackers
    BY <1>1, Fields DEF FieldsTyped
  <2>2. TitleTransfers(u) \subseteq TitleTransfers(s) /\ TitleTransfers(s) \in SUBSET Trackers
    BY <1>1, <2>1 DEF TitleTransfers, Completed
  <2>3. Cardinality(TitleTransfers(u)) <= Cardinality(TitleTransfers(s))
    BY <2>2, BusyFinite, FS_Subset
  <2>4. Cardinality(TitleTransfers(u)) \in Nat /\ Cardinality(TitleTransfers(s)) \in Nat
    BY <2>2, BusyFinite
  <2> QED
    BY <1>0, <2>3, <2>4 DEF Apart
<1>9. \A r \in HeldTrackers(u) : r \in HeldTrackers(s) /\ r \in Trackers \ {t}
  BY <1>2 DEF HeldTrackers
<1>10. Apart(u)
  <2>1. \A r \in HeldTrackers(u) : u.buffer[r] = s.buffer[r] /\ Content(u, r) = Content(s, r)
    BY <1>1, <1>3, <1>9 DEF Completed
  <2> QED
    BY <1>0, <1>8, <1>9, <2>1 DEF Apart
<1>11. Whole(u)
  BY <1>1, <1>7, <1>10 DEF Whole
<1> QED
  BY <1>1, <1>2, <1>3, <1>9, <1>11 DEF s, u

-----------------------------------------------------------------------------
(* The refill loop.                                                          *)

(* When the loop ends, every class it may submit from is empty.              *)
LEMMA NothingSelectable ==
  ASSUME NEW s, Good(s), SelectableXmitTrackers(s) = {}
  PROVE  /\ s.pending < MaximumPendingXmitCount => ReadyXmitTrackers(s, TRUE, TRUE) = {}
         /\ s.pending = 0 => ReadyXmitTrackers(s, TRUE, FALSE) = {}
         /\ s.pending < MaximumTitlePendingXmitCount =>
              ReadyXmitTrackers(s, FALSE, TRUE) = {} /\ ReadyXmitTrackers(s, FALSE, FALSE) = {}
<1>1. s.pending \in Int
  BY DEF Good, TxState
<1> DEFINE debugFree == s.pending < MaximumPendingXmitCount
           titleFree == s.pending < MaximumTitlePendingXmitCount
           classes == << IF debugFree THEN ReadyXmitTrackers(s, TRUE, TRUE) ELSE {},
                         IF debugFree /\ s.pending = 0
                           THEN ReadyXmitTrackers(s, TRUE, FALSE) ELSE {},
                         IF titleFree THEN ReadyXmitTrackers(s, FALSE, TRUE) ELSE {},
                         IF titleFree THEN ReadyXmitTrackers(s, FALSE, FALSE) ELSE {} >>
           first == {i \in 1 .. 4 : classes[i] # {} /\ \A j \in 1 .. i - 1 : classes[j] = {}}
<1>2. SelectableXmitTrackers(s) = UNION {classes[i] : i \in first}
  BY Zenon DEF SelectableXmitTrackers
<1>3. /\ classes[1] = IF debugFree THEN ReadyXmitTrackers(s, TRUE, TRUE) ELSE {}
      /\ classes[2] = IF debugFree /\ s.pending = 0
                        THEN ReadyXmitTrackers(s, TRUE, FALSE) ELSE {}
      /\ classes[3] = IF titleFree THEN ReadyXmitTrackers(s, FALSE, TRUE) ELSE {}
      /\ classes[4] = IF titleFree THEN ReadyXmitTrackers(s, FALSE, FALSE) ELSE {}
  OBVIOUS
<1>4. first = {i \in 1 .. 4 : classes[i] # {} /\ \A j \in 1 .. i - 1 : classes[j] = {}}
  OBVIOUS
<1> HIDE DEF classes, first
<1>5. \A i \in 1 .. 4 : i \notin first
  <2> SUFFICES ASSUME NEW i \in 1 .. 4, i \in first PROVE FALSE
    OBVIOUS
  <2>1. classes[i] # {} /\ classes[i] \subseteq SelectableXmitTrackers(s)
    BY <1>2, <1>4
  <2> QED
    BY <2>1
<1>6. classes[1] = {}
  BY <1>4, <1>5
<1>7. classes[2] = {}
  <2>1. \A j \in 1 .. 2 - 1 : j = 1
    OBVIOUS
  <2> QED
    BY <1>4, <1>5, <1>6, <2>1
<1>8. classes[3] = {}
  <2>1. \A j \in 1 .. 3 - 1 : j = 1 \/ j = 2
    OBVIOUS
  <2> QED
    BY <1>4, <1>5, <1>6, <1>7, <2>1
<1>9. classes[4] = {}
  <2>1. \A j \in 1 .. 4 - 1 : j = 1 \/ j = 2 \/ j = 3
    OBVIOUS
  <2> QED
    BY <1>4, <1>5, <1>6, <1>7, <1>8, <2>1
<1>10. s.pending = 0 => debugFree
  BY <1>1
<1> HIDE DEF debugFree, titleFree
<1>11. /\ debugFree => ReadyXmitTrackers(s, TRUE, TRUE) = {}
       /\ s.pending = 0 => ReadyXmitTrackers(s, TRUE, FALSE) = {}
       /\ titleFree => ReadyXmitTrackers(s, FALSE, TRUE) = {} /\ ReadyXmitTrackers(s, FALSE, FALSE) = {}
  BY <1>3, <1>6, <1>7, <1>8, <1>9, <1>10, Zenon
<1> QED
  BY <1>11 DEF debugFree, titleFree

LEMMA LoopEndsWakeful ==
  ASSUME NEW s, Whole(s), SelectableXmitTrackers(s) = {}
  PROVE  Wakeful(s)
<1>1. Good(s) /\ s.pending \in Int /\ Scheduled(s)
  BY DEF Whole, Good, TxState
<1>2. /\ s.pending < MaximumPendingXmitCount => ReadyXmitTrackers(s, TRUE, TRUE) = {}
      /\ s.pending = 0 => ReadyXmitTrackers(s, TRUE, FALSE) = {}
      /\ s.pending < MaximumTitlePendingXmitCount =>
           ReadyXmitTrackers(s, FALSE, TRUE) = {} /\ ReadyXmitTrackers(s, FALSE, FALSE) = {}
  BY <1>1, NothingSelectable
<1>3. \A t : IsDebugXmitTracker(s, t) \in BOOLEAN
  BY DEF IsDebugXmitTracker, IsDebugNicUser
<1>4. Heeded(s)
  <2> SUFFICES ASSUME NEW t \in s.waiting, s.pending < MaximumTitlePendingXmitCount PROVE FALSE
    BY <1>1 DEF Heeded
  <2>1. t \in HeldTrackers(s) /\ t \notin s.busy \cup s.queued
    BY <1>1 DEF Whole, Owned, OpenTrackers, Scheduled
  <2>2. s.pending < MaximumPendingXmitCount
    BY <1>1
  <2>3. t \in ReadyXmitTrackers(s, TRUE, TRUE) \/ t \in ReadyXmitTrackers(s, FALSE, TRUE)
    BY <1>3, <2>1 DEF ReadyXmitTrackers, HeldTrackers
  <2> QED
    BY <1>2, <2>2, <2>3
<1>5. ASSUME NEW t \in HeldTrackers(s), ~Stirring(s) PROVE FALSE
  <2>1. s.pending = 0
    BY <1>1, <1>5, PendingStirs
  <2>2. t \notin s.busy \cup s.queued
    BY <1>5 DEF Stirring
  <2>3. \E debug \in BOOLEAN, wait \in BOOLEAN : t \in ReadyXmitTrackers(s, debug, wait)
    <3>1. t \in ReadyXmitTrackers(s, IsDebugXmitTracker(s, t), t \in s.waiting)
      BY <2>2 DEF ReadyXmitTrackers, HeldTrackers
    <3>2. (t \in s.waiting) \in BOOLEAN
      OBVIOUS
    <3> QED
      BY <1>3, <3>1, <3>2, Zenon
  <2>4. s.pending < MaximumPendingXmitCount /\ s.pending < MaximumTitlePendingXmitCount
    BY <2>1
  <2> QED
    BY <1>2, <2>1, <2>3, <2>4
<1> QED
  BY <1>4, <1>5 DEF Wakeful

LEMMA ScheduleReadyXmitTrackersFollows ==
  ASSUME IInv, Whole(tx), ScheduleReadyXmitTrackers
  PROVE  /\ Whole(tx') /\ Keeps(tx, tx', {})
         /\ refill' = NULL => Wakeful(tx')
<1> DEFINE t == FindReadyXmitTracker(tx, refill)
           u == [tx EXCEPT !.waiting = @ \ {t}]
<1>1. CASE SelectableXmitTrackers(tx) = {}
  <2>1. tx' = tx
    BY <1>1 DEF ScheduleReadyXmitTrackers
  <2> QED
    BY <1>1, <2>1, StandsStill, LoopEndsWakeful DEF Follows
<1>2. CASE SelectableXmitTrackers(tx) # {}
  <2>1. Good(tx) /\ tx \in TxState /\ refill \in Trackers
    BY DEF IInv, Good, ScheduleReadyXmitTrackers
  <2>2. SelectableXmitTrackers(tx) \in SUBSET Trackers
    BY <2>1, SelectableCanSubmit DEF HeldTrackers
  <2>3. Successor(refill, XMIT_TRACKER_COUNT) \in Int
    BY <2>1, RingTyped DEF Trackers
  <2>4. t \in SelectableXmitTrackers(tx)
    BY <1>2, <2>2, <2>3, NearestElement DEF FindReadyXmitTracker, Trackers
  <2>5. tx' = SubmitXmitTrackerLocked(u, t) /\ refill' = t
    BY <1>2 DEF ScheduleReadyXmitTrackers
  <2> HIDE DEF t
  <2>6. t \in HeldTrackers(tx) /\ t \notin tx.busy \cup tx.queued /\ CanSubmitXmitTracker(tx, t)
    BY <2>1, <2>4, SelectableCanSubmit
  <2>7. t \in Trackers
    BY <2>6 DEF HeldTrackers
  <2>8. Good(u)
    BY <2>1, <2>7, UnwaitGood
  <2>9. /\ SameLayout(u, tx) /\ u.waiting = tx.waiting \ {t} /\ u.queued = tx.queued
        /\ u.busy = tx.busy /\ u.nextPacket = tx.nextPacket /\ u.pending = tx.pending
    BY <2>1, <2>7, UnwaitFields
  <2> HIDE DEF u
  <2>10. u.waiting \cup u.queued \subseteq OpenTrackers(tx)
    BY <2>9 DEF Whole, Owned
  <2>11. Whole(u) /\ Handed(tx, u)
    BY <2>8, <2>9, <2>10, SameLayoutWhole, SameLayoutHanded
  <2>12. t \in OpenTrackers(u) /\ Unscheduled(u, t) /\ CanSubmitXmitTracker(u, t)
    BY <2>6, <2>9 DEF OpenTrackers, HeldTrackers, Unscheduled, CanSubmitXmitTracker,
                      IsDebugXmitTracker, SameLayout
  <2>13. Whole(tx') /\ Handed(u, tx')
    BY <2>5, <2>11, <2>12, SubmitWhole
  <2>14. Keeps(tx, u, {}) /\ Keeps(u, tx', {})
    BY <2>11, <2>13, HandedKeeps
  <2>15. Keeps(tx, tx', {} \cup {}) /\ {} \cup {} = {}
    BY <2>14, KeepsTransitive
  <2>16. t # NULL
    BY <2>7 DEF Trackers
  <2> QED
    BY <2>5, <2>13, <2>15, <2>16
<1> QED
  BY <1>1, <1>2

-----------------------------------------------------------------------------
(* The inductive invariant, and what every step does.                        *)

WInv ==
  /\ IInv
  /\ Whole(tx)
  /\ refill = NULL /\ ~closing => Wakeful(tx)

LEMMA InitWhole == Init => Whole(tx)
<1> SUFFICES ASSUME Init PROVE Whole(tx)
  OBVIOUS
<1>1. Good(tx)
  BY InitInvariant DEF IInv
<1>2. /\ tx.packet = [p \in Packets |-> FreePacket] /\ tx.first = [t \in Trackers |-> NULL]
      /\ tx.waiting = {} /\ tx.queued = {} /\ tx.busy = {}
  BY DEF Init
<1>3. HeldTrackers(tx) = {} /\ FreePackets(tx) = Packets
  BY <1>2 DEF HeldTrackers, FreePackets, FreePacket
<1>4. Owned(tx)
  BY <1>2, <1>3 DEF Owned, OpenTrackers
<1>5. TitleTransfers(tx) = {}
  BY <1>2 DEF TitleTransfers
<1>6. Apart(tx)
  BY <1>3, <1>5, FS_EmptySet DEF Apart
<1> QED
  BY <1>1, <1>4, <1>6 DEF Whole

LEMMA InitWInv == Init => WInv
<1> SUFFICES ASSUME Init PROVE WInv
  OBVIOUS
<1>1. IInv /\ Whole(tx)
  BY InitInvariant, InitWhole
<1>2. Wakeful(tx)
  BY DEF Init, Wakeful, Heeded, HeldTrackers
<1> QED
  BY <1>1, <1>2 DEF WInv

(* Every step is a call that accepts at most one frame, or a completion.     *)
StepKeeps == \E A \in SUBSET Frames : Keeps(tx, tx', A) /\ \A a, b \in A : a = b

StepCompletes ==
  \E t \in tx.busy :
    /\ Completed(tx, tx', t)
    /\ HeldTrackers(tx') = HeldTrackers(tx) \ {t}
    /\ \A r \in HeldTrackers(tx') : Content(tx', r) = Content(tx, r)

LEMMA NextWInv ==
  ASSUME WInv, [Next]_vars, Chipset # "RTL8153"
  PROVE  WInv' /\ (StepKeeps \/ StepCompletes)
<1>1. IInv'
  BY NextInvariant DEF WInv
<1>2. IInv /\ Whole(tx) /\ (refill = NULL /\ ~closing => Wakeful(tx))
  BY DEF WInv
<1>3. Lengths \subseteq Nat
  OBVIOUS
<1>4. ASSUME NEW user \in Users, NEW length \in Lengths, NEW direct \in BOOLEAN,
             NEW frame \in Frames, NicXmit(user, length, direct, frame)
      PROVE  WInv' /\ (StepKeeps \/ StepCompletes)
  <2>1. Follows(tx, tx', {frame})
    BY <1>2, <1>3, <1>4, NicXmitFollows
  <2>2. refill' = refill /\ closing' = closing
    BY <1>4 DEF NicXmit
  <2>3. WInv'
    BY <1>1, <1>2, <2>1, <2>2 DEF WInv, Follows, Whole, Good, Owned, Apart, Wakeful, Heeded, Stirring
  <2>4. StepKeeps
    BY <2>1 DEF StepKeeps, Follows
  <2> QED
    BY <2>3, <2>4
<1>5. CASE BulkXmitSwitchProcs
  <2>1. Whole(tx') /\ Keeps(tx, tx', {}) /\ (~closing /\ Heeded(tx) => Wakeful(tx'))
    BY <1>2, <1>5, BulkXmitSwitchProcsFollows
  <2>2. refill' = refill /\ closing' = closing
    BY <1>5 DEF BulkXmitSwitchProcs
  <2> QED
    BY <1>1, <1>2, <2>1, <2>2 DEF WInv, StepKeeps, Wakeful
<1>6. ASSUME NEW t \in Trackers, CompleteTransmit(t)
      PROVE  WInv' /\ (StepKeeps \/ StepCompletes)
  <2>1. /\ Whole(tx') /\ Completed(tx, tx', t) /\ t \in tx.busy
        /\ HeldTrackers(tx') = HeldTrackers(tx) \ {t}
        /\ \A r \in HeldTrackers(tx') : Content(tx', r) = Content(tx, r)
    BY <1>2, <1>6, CompleteTransmitWhole
  <2>2. closing' = closing /\ (closing \/ refill' = t) /\ t # NULL
    BY <1>6 DEF CompleteTransmit, Trackers
  <2> QED
    BY <1>1, <2>1, <2>2 DEF WInv, StepCompletes
<1>7. CASE ScheduleReadyXmitTrackers
  <2>1. Whole(tx') /\ Keeps(tx, tx', {}) /\ (refill' = NULL => Wakeful(tx'))
    BY <1>2, <1>7, ScheduleReadyXmitTrackersFollows
  <2> QED
    BY <1>1, <2>1 DEF WInv, StepKeeps
<1>8. CASE BeginClose \/ UNCHANGED vars
  <2>1. tx' = tx /\ (closing' \/ (refill' = refill /\ closing' = closing))
    BY <1>8 DEF BeginClose, vars
  <2>2. Whole(tx') /\ Keeps(tx, tx', {})
    BY <1>2, <2>1, StandsStill DEF Follows
  <2> QED
    BY <1>1, <1>2, <2>1, <2>2 DEF WInv, StepKeeps
<1> QED
  BY <1>4, <1>5, <1>6, <1>7, <1>8 DEF Next

-----------------------------------------------------------------------------
(* The theorems about layout, for every chipset whose walk is exact.          *)

LEMMA WholeInvariant ==
  ASSUME Chipset # "RTL8153"
  PROVE  Spec => []WInv
<1>1. Init => WInv
  BY InitWInv
<1>2. WInv /\ [Next]_vars => WInv'
  BY NextWInv
<1> QED
  BY <1>1, <1>2, PTL DEF Spec

(* No lost wakeup: while the device is open and nobody holds NicLock, a       *)
(* tracker waits only while title traffic has used up its transfers, and      *)
(* frames are held only while a transfer or a DPC is outstanding.             *)
THEOREM NoLostWakeup == Chipset # "RTL8153" => (Spec => []NoStrandedTracker)
<1> SUFFICES ASSUME Chipset # "RTL8153" PROVE Spec => []NoStrandedTracker
  OBVIOUS
<1>1. WInv => NoStrandedTracker
  BY DEF WInv, NoStrandedTracker, Wakeful, Heeded, Stirring
<1> QED
  BY <1>1, WholeInvariant, PTL

LEMMA WholeMatches == ASSUME Whole(tx) PROVE WalkMatchesBuffer
<1>1. ASSUME NEW t \in OpenTrackers(tx)
      PROVE  /\ CountXmitTrackerFrames(tx, t) = Len(tx.buffer[t])
             /\ WalkedPackets(tx, t) = OwnPackets(tx, t)
             /\ Described(tx, t)
             /\ DOMAIN tx.buffer[t] = 1 .. Len(tx.buffer[t])
  <2>1. LaidOut(tx, t) /\ t \in Trackers /\ tx.first[t] # NULL /\ tx \in TxState
    BY OwnInUse
  <2>2. tx.buffer[t] \in Seq([user: Users, frame: Frames])
    BY <2>1, Fields DEF FieldsTyped
  <2> QED
    BY <2>1, <2>2, WalkExact DEF LaidOut
<1>2. \A p \in Packets \ FreePackets(tx) :
        \E t \in OpenTrackers(tx) : p \in WalkedPackets(tx, t)
  BY <1>1 DEF Whole, Owned
<1> QED
  BY ZenonT(40), <1>1, <1>2 DEF WalkMatchesBuffer, OpenTrackers, Described

(* The descriptor walk is exact for every size of the ring and any order of   *)
(* submissions: submitting a tracker releases all its descriptors and no      *)
(* descriptor of another.                                                     *)
THEOREM WalkExactlyOwnFrames == Chipset # "RTL8153" => (Spec => []WalkMatchesBuffer)
<1> SUFFICES ASSUME Chipset # "RTL8153" PROVE Spec => []WalkMatchesBuffer
  OBVIOUS
<1>1. WInv => WalkMatchesBuffer
  BY WholeMatches DEF WInv
<1> QED
  BY <1>1, WholeInvariant, PTL

(* No transfer mixes users, and title traffic never takes the transfer that   *)
(* is reserved for the debug user.                                            *)
THEOREM UsersNeverMixed == Chipset # "RTL8153" => (Spec => []UsersKeptApart)
<1> SUFFICES ASSUME Chipset # "RTL8153" PROVE Spec => []UsersKeptApart
  OBVIOUS
<1>1. WInv => UsersKeptApart
  BY DEF WInv, Whole, Apart, UsersKeptApart, TitleTransfers
<1> QED
  BY <1>1, WholeInvariant, PTL

LEMMA EightsFit ==
  ASSUME NEW a \in Int, NEW b \in Int, NEW m \in Int, a % 8 = 0, b % 8 = 0, a + m <= b
  PROVE  a + RoundUp(m, 8) <= b
<1>1. (a + RoundUp(m, 8)) % 8 = 0
  BY EightFold
<1>2. RoundUp(m, 8) \in Int /\ RoundUp(m, 8) < m + 8
  BY DEF RoundUp
<1>3. \A x, y \in Int : x % 8 = 0 /\ y % 8 = 0 /\ x < y + 8 => x <= y
  OBVIOUS
<1> QED
  BY <1>1, <1>2, <1>3

(* What CanAppend accepts has room for its padding and a terminator.          *)
LEMMA AcceptedFits ==
  ASSUME NEW s \in TxState, NEW t \in Trackers, NEW user, NEW length \in Nat,
         CanAppend(s, t, user, length),
         Chipset = "RTL8153" => length # 0,
         Chipset = "AX179A" => FrameBytes(s, t) % 8 = 0
  PROVE  FrameAppended(FrameBytes(s, t), length)
<1> DEFINE a == FrameBytes(s, t)
<1>1. a \in Int
  BY FrameBytesTyped
<1>2. /\ Chipset # "AX88179"
      /\ a + length + GetTransmitHeaderSize <= GetMaximumAggregateTransferSize
  BY DEF CanAppend, SupportsTransmitAggregation
<1> HIDE DEF a
<1>3. CASE Chipset = "AX88178"
  BY <1>1, <1>2, <1>3 DEF FrameAppended, BytesWritten, Required, LeadingPadding,
       GetTransmitHeaderSize, GetTransmitTerminatorSize, GetMaximumAggregateTransferSize, a
<1>4. CASE Chipset = "AX179A"
  <2>1. (XmitBufferSize - 8) % 8 = 0
    OBVIOUS
  <2>2. a % 8 = 0 /\ a + (8 + length) <= XmitBufferSize - 8
    BY <1>1, <1>2, <1>4 DEF GetTransmitHeaderSize, GetMaximumAggregateTransferSize, a
  <2>3. a + RoundUp(8 + length, 8) <= XmitBufferSize - 8
    BY <1>1, <2>1, <2>2, EightsFit
  <2>4. RoundUp(8 + length, 8) \in Int
    BY DEF RoundUp
  <2>5. Required(a, length) = RoundUp(8 + length, 8) /\ GetTransmitTerminatorSize = 8
    BY <1>4 DEF Required, GetTransmitHeaderSize, GetTransmitTerminatorSize
  <2> QED
    BY <1>1, <1>4, <2>3, <2>4, <2>5 DEF FrameAppended, BytesWritten, a
<1>5. CASE Chipset = "RTL8153"
  <2>1. RoundUp(a, 4) - a \in 0 .. 3
    BY <1>1 DEF RoundUp
  <2>2. LeadingPadding(a) \in 0 .. 3
    BY <1>5, <2>1 DEF LeadingPadding
  <2>3. BytesWritten(a, length) = LeadingPadding(a) + 8 + length
    BY <1>5, <2>2 DEF BytesWritten, Required, NeedsTerminator, GetTransmitHeaderSize
  <2>4. a + length + 8 <= MaximumAggregateSize
    BY <1>2, <1>5 DEF GetTransmitHeaderSize, GetMaximumAggregateTransferSize
  <2> QED
    BY <1>1, <1>5, <2>2, <2>3, <2>4 DEF FrameAppended, a
<1> QED
  BY <1>2, <1>3, <1>4, <1>5 DEF Chipsets

(* A frame that NicXmit decides to append fits the DMA buffer with padding    *)
(* and terminator, whatever mix of lengths came before it, for every chipset  *)
(* (the RTL8153 backend refuses an empty frame).                              *)
THEOREM AppendsFit == (Chipset = "RTL8153" => 0 \notin Lengths) => (Spec => []AppendFits)
<1> SUFFICES ASSUME Chipset = "RTL8153" => 0 \notin Lengths PROVE Spec => []AppendFits
  OBVIOUS
<1>1. Lengths \subseteq Nat
  OBVIOUS
<1>2. CASE Chipset = "RTL8153"
  <2>1. IInv => AppendFits
    BY <1>1, <1>2, AcceptedFits DEF IInv, Good, AppendFits, HeldTrackers
  <2> QED
    BY <2>1, Invariant, PTL
<1>3. CASE Chipset # "RTL8153"
  <2>1. WInv => AppendFits
    <3> SUFFICES ASSUME WInv, NEW t \in OpenTrackers(tx), NEW user \in Users, NEW length \in Lengths,
                        CanAppend(tx, t, user, length)
                 PROVE  FrameAppended(FrameBytes(tx, t), length)
      BY DEF AppendFits, OpenTrackers
    <3>1. LaidOut(tx, t) /\ t \in Trackers /\ tx \in TxState
      BY OwnInUse DEF WInv
    <3> QED
      BY <1>1, <1>3, <3>1, AcceptedFits DEF LaidOut
  <2> QED
    BY <1>3, <2>1, WholeInvariant, PTL
<1> QED
  BY <1>2, <1>3

-----------------------------------------------------------------------------
(* The refinement of XmitService: its two variables, read off a state.       *)

HeldFrames(s) == UNION {Content(s, t) : t \in OpenTrackers(s)}
WireFrames(s) == {Content(s, t) : t \in s.busy}
AllFrames(s)  == HeldFrames(s) \cup UNION WireFrames(s)

LEMMA FramesOf ==
  ASSUME NEW s, s.busy \subseteq HeldTrackers(s)
  PROVE  /\ \A x : x \in HeldFrames(s) <=> \E t \in HeldTrackers(s) : t \notin s.busy /\ x \in Content(s, t)
         /\ \A F : F \in WireFrames(s) <=> \E t \in s.busy : F = Content(s, t)
         /\ \A x : x \in AllFrames(s) <=> \E t \in HeldTrackers(s) : x \in Content(s, t)
  BY DEF HeldFrames, WireFrames, AllFrames, OpenTrackers

LEMMA ContentNonempty ==
  ASSUME NEW s, Whole(s), NEW t \in HeldTrackers(s)
  PROVE  Content(s, t) # {}
<1>1. s.buffer[t] # <<>> /\ s.buffer[t] \in Seq([user: Users, frame: Frames])
  BY ZenonT(40), Fields DEF Whole, Good, Apart, FieldsTyped, HeldTrackers
<1>2. 1 \in DOMAIN s.buffer[t]
  BY <1>1
<1> QED
  BY ZenonT(40), <1>2 DEF Content

(* USB never has more transfers than the limit, as sets of frames.           *)
LEMMA WireBounded ==
  ASSUME NEW s, Good(s)
  PROVE  Cardinality(WireFrames(s)) <= MaximumPendingXmitCount
<1> DEFINE f == [t \in s.busy |-> Content(s, t)]
<1>1. s.busy \in SUBSET Trackers
  BY Fields DEF Good, FieldsTyped
<1>2. IsFiniteSet(s.busy) /\ Cardinality(s.busy) \in Nat
  BY <1>1, BusyFinite
<1>3. f \in Surjection(s.busy, WireFrames(s))
  BY DEF Surjection, WireFrames
<1> HIDE DEF f
<1>4. IsFiniteSet(WireFrames(s)) /\ Cardinality(WireFrames(s)) <= Cardinality(s.busy)
  BY <1>2, <1>3, FS_Surjection
<1>5. Cardinality(WireFrames(s)) \in Nat
  BY <1>4, FS_CardinalityType
<1> QED
  BY <1>2, <1>4, <1>5 DEF Good, PendingWithin

(* A call that accepts the frames of A, at most one, is a Transmit step.     *)
Transmits(s, u) ==
  LET accepted == AllFrames(u) \ AllFrames(s)
      started  == WireFrames(u) \ WireFrames(s)
  IN  /\ Cardinality(accepted) <= 1
      /\ accepted \subseteq Frames
      /\ WireFrames(s) \subseteq WireFrames(u)
      /\ Cardinality(WireFrames(u)) <= MaximumPendingXmitCount
      /\ \A F, G \in started : F # {} /\ (F # G => F \cap G = {})
      /\ UNION started \subseteq HeldFrames(s) \cup accepted
      /\ HeldFrames(u) = (HeldFrames(s) \cup accepted) \ UNION started

LEMMA KeepsTransmits ==
  ASSUME NEW s, NEW u, NEW A \in SUBSET Frames, Whole(s), Whole(u), Keeps(s, u, A),
         \A a, b \in A : a = b
  PROVE  Transmits(s, u)
<1> DEFINE accepted == AllFrames(u) \ AllFrames(s)
           started  == WireFrames(u) \ WireFrames(s)
<1>1. s.busy \subseteq HeldTrackers(s) /\ u.busy \subseteq HeldTrackers(u)
  BY DEF Whole, Owned
<1>2. /\ \A t, r \in HeldTrackers(s) : \A x : x \in Content(s, t) /\ x \in Content(s, r) => t = r
      /\ \A t, r \in HeldTrackers(u) : \A x : x \in Content(u, t) /\ x \in Content(u, r) => t = r
  BY DEF Whole, Apart
<1>3. /\ \A x : x \in HeldFrames(s) <=> \E t \in HeldTrackers(s) : t \notin s.busy /\ x \in Content(s, t)
      /\ \A x : x \in HeldFrames(u) <=> \E t \in HeldTrackers(u) : t \notin u.busy /\ x \in Content(u, t)
      /\ \A F : F \in WireFrames(s) <=> \E t \in s.busy : F = Content(s, t)
      /\ \A F : F \in WireFrames(u) <=> \E t \in u.busy : F = Content(u, t)
      /\ \A x : x \in AllFrames(s) <=> \E t \in HeldTrackers(s) : x \in Content(s, t)
      /\ \A x : x \in AllFrames(u) <=> \E t \in HeldTrackers(u) : x \in Content(u, t)
  BY <1>1, FramesOf
<1>4. /\ s.busy \subseteq u.busy
      /\ HeldTrackers(s) \subseteq HeldTrackers(u)
      /\ \A t \in s.busy : Content(u, t) = Content(s, t)
      /\ \A t \in HeldTrackers(s) : \A x : x \in Content(s, t) => x \in Content(u, t)
      /\ \A t \in HeldTrackers(u) : \A x : x \in Content(u, t) =>
           x \in A \/ (t \in HeldTrackers(s) /\ x \in Content(s, t))
  BY DEF Keeps
<1>5. \A x : x \in accepted <=> x \in AllFrames(u) /\ x \notin AllFrames(s)
  OBVIOUS
<1>6. \A F : F \in started <=> F \in WireFrames(u) /\ F \notin WireFrames(s)
  OBVIOUS
<1> HIDE DEF accepted, started
<1>7. accepted \subseteq A
  BY <1>3, <1>4, <1>5
<1>8. Cardinality(accepted) <= 1
  <2>1. CASE accepted = {}
    BY <2>1, FS_EmptySet
  <2>2. CASE accepted # {}
    <3>1. PICK x : accepted = {x}
      BY <1>7, <2>2
    <3>2. Cardinality({x}) = 1
      BY FS_Singleton
    <3> QED
      BY <3>1, <3>2
  <2> QED
    BY <2>1, <2>2
<1>9. WireFrames(s) \subseteq WireFrames(u)
  BY <1>3, <1>4
<1>10. ASSUME NEW F \in started
       PROVE  \E t \in u.busy : t \notin s.busy /\ F = Content(u, t)
  BY <1>3, <1>4, <1>6
<1>11. ASSUME NEW t \in u.busy, t \notin s.busy
       PROVE  Content(u, t) \in started
  <2>1. Content(u, t) \in WireFrames(u)
    BY <1>3
  <2>2. ASSUME NEW r \in s.busy, Content(u, t) = Content(s, r) PROVE FALSE
    <3>1. PICK x : x \in Content(u, t)
      BY <1>1, ContentNonempty
    <3>2. x \in Content(u, r) /\ r \in u.busy /\ r # t
      BY <1>4, <1>11, <2>2, <3>1
    <3> QED
      BY <1>1, <1>2, <3>1, <3>2
  <2> QED
    BY <1>3, <1>6, <2>1, <2>2
<1>12. ASSUME NEW F \in started, NEW G \in started
       PROVE  F # {} /\ (F # G => F \cap G = {})
  <2>1. PICK t \in u.busy : F = Content(u, t)
    BY <1>10
  <2>2. PICK r \in u.busy : G = Content(u, r)
    BY <1>10
  <2> QED
    BY <1>1, <1>2, <2>1, <2>2, ContentNonempty
<1>13. ASSUME NEW t \in HeldTrackers(u), t \notin s.busy, NEW x \in Content(u, t)
       PROVE  x \in HeldFrames(s) \/ x \in accepted
  <2>1. CASE x \in AllFrames(s)
    <3>1. PICK r \in HeldTrackers(s) : x \in Content(s, r)
      BY <1>3, <2>1
    <3>2. r = t
      BY <1>2, <1>4, <3>1
    <3> QED
      BY <1>3, <1>13, <3>1, <3>2
  <2>2. CASE x \notin AllFrames(s)
    BY <1>3, <1>5, <2>2
  <2> QED
    BY <2>1, <2>2
<1>14. UNION started \subseteq HeldFrames(s) \cup accepted
  BY <1>1, <1>10, <1>13
<1>15. HeldFrames(u) = (HeldFrames(s) \cup accepted) \ UNION started
  <2>1. ASSUME NEW x \in HeldFrames(u)
        PROVE  x \in (HeldFrames(s) \cup accepted) \ UNION started
    <3>1. PICK t \in HeldTrackers(u) : t \notin u.busy /\ x \in Content(u, t)
      BY <1>3
    <3>2. x \in HeldFrames(s) \/ x \in accepted
      BY <1>4, <1>13, <3>1
    <3>3. \A F \in started : x \notin F
      BY <1>1, <1>2, <1>10, <3>1
    <3> QED
      BY <3>2, <3>3
  <2>2. ASSUME NEW x \in (HeldFrames(s) \cup accepted) \ UNION started
        PROVE  x \in HeldFrames(u)
    <3>1. PICK t \in HeldTrackers(u) : t \notin s.busy /\ x \in Content(u, t)
      <4>1. CASE x \in HeldFrames(s)
        BY <1>3, <1>4, <4>1
      <4>2. CASE x \in accepted
        BY <1>1, <1>3, <1>4, <1>5, <4>2
      <4> QED
        BY <2>2, <4>1, <4>2
    <3>2. t \notin u.busy
      BY <1>11, <2>2, <3>1
    <3> QED
      BY <1>3, <3>1, <3>2
  <2> QED
    BY <2>1, <2>2
<1>16. Cardinality(WireFrames(u)) <= MaximumPendingXmitCount
  BY WireBounded DEF Whole
<1>17. accepted \subseteq Frames
  BY <1>7
<1> QED
  BY <1>8, <1>9, <1>12, <1>14, <1>15, <1>16, <1>17 DEF Transmits, accepted, started

(* A completion is a Complete step.                                          *)
LEMMA CompletionCompletes ==
  ASSUME NEW s, NEW u, NEW t \in s.busy, Whole(s), u.busy = s.busy \ {t},
         HeldTrackers(u) = HeldTrackers(s) \ {t},
         \A r \in HeldTrackers(u) : Content(u, r) = Content(s, r)
  PROVE  /\ Content(s, t) \in WireFrames(s)
         /\ WireFrames(u) = WireFrames(s) \ {Content(s, t)}
         /\ HeldFrames(u) = HeldFrames(s)
<1>1. s.busy \subseteq HeldTrackers(s) /\ u.busy \subseteq HeldTrackers(u)
  BY DEF Whole, Owned
<1>2. \A r, q \in HeldTrackers(s) : Content(s, r) = Content(s, q) => r = q
  BY ContentNonempty DEF Whole, Apart
<1>3. OpenTrackers(u) = OpenTrackers(s)
  BY DEF OpenTrackers
<1>4. HeldFrames(u) = HeldFrames(s)
  <2>1. \A r \in OpenTrackers(s) : Content(u, r) = Content(s, r)
    BY <1>3 DEF OpenTrackers
  <2> QED
    BY <1>3, <2>1 DEF HeldFrames
<1>5. WireFrames(u) = WireFrames(s) \ {Content(s, t)}
  BY <1>1, <1>2 DEF WireFrames
<1> QED
  BY <1>4, <1>5 DEF WireFrames

LEMMA ServiceReads ==
  /\ UNION {BufferedFrames(t) : t \in HeldTrackers(tx) \ tx.busy} = HeldFrames(tx)
  /\ {BufferedFrames(t) : t \in tx.busy} = WireFrames(tx)
  BY DEF BufferedFrames, HeldFrames, WireFrames, Content, OpenTrackers

LEMMA ServiceReadsNext ==
  /\ (UNION {BufferedFrames(t) : t \in HeldTrackers(tx) \ tx.busy})' = HeldFrames(tx')
  /\ {BufferedFrames(t) : t \in tx.busy}' = WireFrames(tx')
  BY DEF BufferedFrames, HeldFrames, WireFrames, Content, OpenTrackers

LEMMA ServiceCardinality == \A S : Service!Cardinality(S) = Cardinality(S)
  BY DEF Service!Cardinality, Cardinality

(* The transmit path implements XmitService: every accepted frame is kept     *)
(* until it leaves, once and in one transfer, whatever the sizes of the ring  *)
(* and the pool, the users and the order of sends, DPCs and completions.      *)
THEOREM ImplementsService == Chipset # "RTL8153" => (Spec => EachFrameSentOnce)
<1> SUFFICES ASSUME Chipset # "RTL8153" PROVE Spec => Service!Spec
  BY DEF EachFrameSentOnce
<1>1. Init => Service!Init
  BY DEF Init, Service!Init, HeldTrackers
<1>2. ASSUME WInv, [Next]_vars PROVE Service!Next
  <2>1. WInv' /\ (StepKeeps \/ StepCompletes)
    BY <1>2, NextWInv
  <2>2. Whole(tx) /\ Whole(tx')
    BY <1>2, <2>1 DEF WInv
  <2>3. CASE StepKeeps
    <3>1. Transmits(tx, tx')
      BY <2>2, <2>3, KeepsTransmits DEF StepKeeps
    <3>2. Service!Transmit
      BY <3>1, ServiceReads, ServiceReadsNext, ServiceCardinality
         DEF Transmits, AllFrames, Service!Transmit, Service!Inside
    <3> QED
      BY <3>2 DEF Service!Next
  <2>4. CASE StepCompletes
    <3>1. PICK t \in tx.busy :
            /\ Completed(tx, tx', t)
            /\ HeldTrackers(tx') = HeldTrackers(tx) \ {t}
            /\ \A r \in HeldTrackers(tx') : Content(tx', r) = Content(tx, r)
      BY <2>4 DEF StepCompletes
    <3>2. tx'.busy = tx.busy \ {t}
      BY <3>1 DEF Completed
    <3>3. /\ Content(tx, t) \in WireFrames(tx)
          /\ WireFrames(tx') = WireFrames(tx) \ {Content(tx, t)}
          /\ HeldFrames(tx') = HeldFrames(tx)
      BY <2>2, <3>1, <3>2, CompletionCompletes
    <3>4. Service!Complete
      BY <3>3, ServiceReads, ServiceReadsNext DEF Service!Complete
    <3> QED
      BY <3>4 DEF Service!Next
  <2> QED
    BY <2>1, <2>3, <2>4
<1> QED
  BY <1>1, <1>2, WholeInvariant, PTL DEF Spec, Service!Spec
=============================================================================
