--------------------------- MODULE UsbEnetReceive ---------------------------
(***************************************************************************)
(* What CompleteReceive makes of a completed transfer: the parsers of the  *)
(* chipset families, and the AX88179 detection of a receive stream that    *)
(* has gone stale.  Bytes are abstracted to the header records the parser  *)
(* reads and to where it reads them; a transfer that is not as the adapter *)
(* laid it out holds any headers.  A step is one header, or what another   *)
(* processor does while a callback runs without NicLock.                   *)
(***************************************************************************)
EXTENDS Integers, Sequences

CONSTANTS
  Families,          \* the parsers to look at
  Lengths,           \* packet lengths that headers give
  MaxPackets,        \* bound: packets the adapter puts in a transfer
  DamagedLengths,    \* bytes transferred when a transfer is not as laid out
  Trailers,          \* its aggregate trailers
  StaleTrailer,      \* the invalid one of a stalled adapter
  BufferSize,        \* ReceiveBufferSize
  Requests,          \* RECV_PACKET_COUNT
  StaleStreak,       \* 4 in the source
  EscalationStreak,  \* 256 in the source
  MaxCalls           \* bound: stalls, filter changes, restarts, other reinitializations

AX88179Families == {"AX88179", "AX179A", "AX279"}   \* AX279: with IP alignment
AllFamilies == {"AX88178", "RTL8153"} \cup AX88179Families

ASSUME ReceiveAssumption ==
  /\ Families \subseteq AllFamilies
  /\ Lengths \subseteq Nat
  /\ MaxPackets \in Nat
  /\ BufferSize \in Nat /\ DamagedLengths \subseteq 0 .. BufferSize
  /\ Trailers \subseteq [count: Nat, offset: Nat] /\ StaleTrailer \in Trailers
  /\ Requests \in Nat \ {0}
  /\ StaleStreak \in Nat \ {0, 1} /\ EscalationStreak \in Nat /\ EscalationStreak > StaleStreak
  /\ MaxCalls \in Nat

VARIABLES
  family,     \* the backend behind g_UsbEnetChipset
  pc,         \* CompleteReceive: "idle", "parsing" or "callback" (without the lock)
  context,    \* USBENET_RX_PARSE_CONTEXT, and DataEnd, where packets must end
  contents,   \* what the buffer holds: as sent by the adapter, or anything; or cleared
  frames,     \* the frames of this transfer that went on to the users' filters
  desync,     \* the m_Rx... words of the AX88179 classes
  ring,       \* reception: ReceiveRunning, requests with USB, recovery
  stalled,    \* the adapter repeats one stale full buffer
  invalidRun, \* history: how many transfers in a row were invalid
  forgotten,  \* history: a stale stream lost its mark without a fresh start
  calls       \* counter of the bound

parser == <<pc, context, contents, frames>>
ghosts == <<invalidRun, forgotten>>
vars == <<family, parser, desync, ring, stalled, ghosts, calls>>

Ax88179 == family \in AX88179Families

-----------------------------------------------------------------------------
(* Headers, and where the adapter puts them.                                 *)

Kinds == {"ethernet", "snap", "unknown"}   \* of frame: by its type or length field

(* A header says how long the packet is and whether it is good (AX88178: its *)
(* complement matches; the others: no error bit).                            *)
Headers == [length: Lengths, good: BOOLEAN, kind: Kinds]
ZeroHeader == [length |-> 0, good |-> FALSE, kind |-> "unknown"]   \* of cleared memory

AlignUp2(n) == 2 * ((n + 1) \div 2)
AlignUp8(n) == 8 * ((n + 7) \div 8)

HeaderSize == CASE family \in {"AX88178", "AX88179"} -> 4
                [] family = "RTL8153" -> 24
                [] OTHER -> 8

Prefix == IF family \in {"AX88179", "AX279"} THEN 2 ELSE 0   \* bytes before the frame

(* The families with a header before each packet, and those with a table of  *)
(* them behind the last packet.                                              *)
Inline == family \in {"AX88178", "RTL8153"}

(* What a working adapter sends: it never reports a damaged packet where     *)
(* there is no bit for it, and RTL8153 adds the FCS.                         *)
Sendable ==
  {h \in Headers :
     /\ Inline => h.good
     /\ family = "RTL8153" => h.length > 4 /\ h.length <= 1526
     /\ h.length >= Prefix}

RecordSize(h, last) ==
  CASE family = "AX88178" -> 4 + AlignUp2(h.length)
    [] family = "RTL8153" -> IF last THEN 24 + h.length ELSE AlignUp8(24 + h.length)
    [] OTHER -> AlignUp8(h.length)

RecordStart(sent) ==
  LET start[k \in 1 .. Len(sent) + 1] ==
        IF k = 1 THEN 0 ELSE start[k - 1] + RecordSize(sent[k - 1], k - 1 = Len(sent))
  IN  start

PacketsEnd(sent) == RecordStart(sent)[Len(sent) + 1]

TransferLength(sent) ==
  PacketsEnd(sent) + (IF Inline THEN 0 ELSE HeaderSize * (Len(sent) + 1))

TrailerOf(sent) == [count |-> Len(sent), offset |-> PacketsEnd(sent)]

HeaderStart(sent, k) ==
  IF Inline THEN RecordStart(sent)[k] ELSE PacketsEnd(sent) + HeaderSize * (k - 1)

(* What the users should get of packet k: its frame, without the SNAP header *)
(* (which the driver takes out by moving the addresses up).                  *)
Deliverable(h) ==
  LET length == h.length - (IF family = "RTL8153" THEN 4 ELSE Prefix)
  IN  h.good /\ length >= 42 /\ h.kind # "unknown"

FrameSent(sent, k) ==
  LET h == sent[k]
      snap == IF h.kind = "snap" THEN 8 ELSE 0
  IN  [data   |-> RecordStart(sent)[k] + (IF Inline THEN HeaderSize ELSE Prefix) + snap,
       length |-> h.length - (IF family = "RTL8153" THEN 4 ELSE Prefix) - snap]

FramesSent(sent) == {FrameSent(sent, k) : k \in {i \in 1 .. Len(sent) : Deliverable(sent[i])}}

(* What the processor may read as a header at an offset.                     *)
Readable(offset) ==
  LET there == {k \in 1 .. Len(contents.sent) : HeaderStart(contents.sent, k) = offset}
  IN  CASE contents.cleared -> {ZeroHeader}
        [] ~contents.cleared /\ contents.intact /\ there # {} ->
             {contents.sent[k] : k \in there}
        [] OTHER -> Headers

-----------------------------------------------------------------------------
(* GetNextReceiveFrame: the position advances, record by record.             *)

Remaining(c) == c.dataEnd - c.dataOffset

(* Is there a header to read?  The bounds of the AX88179's were checked for  *)
(* all of them before.                                                       *)
HasHeader(c) ==
  CASE Inline -> Remaining(c) >= HeaderSize
    [] family = "AX88179" -> c.metadataIndex < c.metadataCount
    [] OTHER -> /\ c.metadataIndex < c.metadataCount
                /\ c.dataEnd + HeaderSize * (c.metadataIndex + 1) <= c.length - HeaderSize

HeaderOffset(c) ==
  IF Inline THEN c.dataOffset ELSE c.dataEnd + HeaderSize * c.metadataIndex

(* The packet and its padding, for RTL8153 as far as there are bytes.        *)
Consumed(c, h) ==
  CASE family = "AX88178" -> 4 + AlignUp2(h.length)
    [] family = "RTL8153" ->
         IF AlignUp8(24 + h.length) <= Remaining(c) THEN AlignUp8(24 + h.length)
         ELSE 24 + h.length
    [] OTHER -> AlignUp8(h.length)

(* A header that cannot be right, or ends the records, ends the parse.       *)
Rejected(c, h) ==
  CASE family = "AX88178" -> ~h.good \/ Consumed(c, h) > Remaining(c)
    [] family = "RTL8153" -> h.length <= 4 \/ h.length > 1526 \/ Consumed(c, h) > Remaining(c)
    [] family = "AX88179" -> Consumed(c, h) > Remaining(c)
    [] OTHER -> h.length < Prefix \/ Consumed(c, h) > Remaining(c)

(* A packet the hardware marks as bad only costs itself.                     *)
Skipped(h) ==
  CASE Inline -> FALSE
    [] family = "AX88179" -> ~h.good \/ h.length < 16
    [] OTHER -> ~h.good

AdvanceUnaligned(c, h) ==   \* mutant
  [c EXCEPT !.dataOffset = @ + h.length + (IF Inline THEN HeaderSize ELSE 0),
            !.metadataIndex = IF Inline THEN @ ELSE @ + 1]

AdvanceUnlessEmpty(c, h) ==   \* mutant
  [c EXCEPT !.dataOffset = @ + Consumed(c, h),
            !.metadataIndex = IF Inline \/ h.length = 0 THEN @ ELSE @ + 1]

Advance(c, h) ==
  [c EXCEPT !.dataOffset = @ + Consumed(c, h),
            !.metadataIndex = IF Inline THEN @ ELSE @ + 1]

FrameOf(c, h) ==
  [data   |-> c.dataOffset + (IF Inline THEN HeaderSize ELSE Prefix),
   length |-> h.length - (IF family = "RTL8153" THEN 4 ELSE Prefix)]

-----------------------------------------------------------------------------
(* CompleteReceive: what it does to a frame.                                 *)

MinimumReceiveFrameSize == 42

Discarded(c, h) ==
  FrameOf(c, h).length < MinimumReceiveFrameSize \/ h.kind = "unknown"

ConvertedForward(frame, h) ==   \* mutant
  IF h.kind = "snap" THEN [frame EXCEPT !.data = @ + 8] ELSE frame

(* A SNAP frame: the addresses and the type move up over the SNAP header.    *)
Converted(frame, h) ==
  IF h.kind = "snap" THEN [data |-> frame.data + 8, length |-> frame.length - 8] ELSE frame

-----------------------------------------------------------------------------
(* InitializeReceiveParser.                                                  *)

TrailerSize == IF Inline THEN 0 ELSE HeaderSize

NoContext == [length |-> 0, dataOffset |-> 0, dataEnd |-> 0, metadataIndex |-> 0,
              metadataCount |-> 0]

Empty == [intact |-> FALSE, sent |-> <<>>, cleared |-> FALSE]   \* any bytes

Context(length, trailer) ==
  [NoContext EXCEPT !.length = length,
                    !.dataEnd = IF Inline THEN length ELSE trailer.offset,
                    !.metadataCount = IF Inline THEN 0 ELSE trailer.count]

ValidTrailerWithoutTable(length, trailer) ==   \* mutant
  family \in AX88179Families =>
    /\ length >= TrailerSize /\ trailer.count # 0
    /\ trailer.offset <= length - TrailerSize

(* The table of the AX88179 lies before the trailer, that of the others just *)
(* before it.                                                                *)
ValidTrailer(length, trailer) ==
  family \in AX88179Families =>
    /\ length >= TrailerSize /\ trailer.count # 0
    /\ LET tableEnd == trailer.offset + HeaderSize * trailer.count
       IN  IF family = "AX88179" THEN tableEnd <= length - TrailerSize
           ELSE tableEnd = length - TrailerSize

ParserReady(length, trailer) ==
  ValidTrailer(length, trailer) /\ (family = "RTL8153" => length >= 24)

-----------------------------------------------------------------------------
(* The stale stream of the AX88179 classes.                                  *)

InSync == [streak |-> 0, signature |-> <<>>, draining |-> FALSE, expired |-> FALSE,
           frameSeen |-> FALSE]

BackInSyncDraining(d) ==   \* mutant
  [InSync EXCEPT !.frameSeen = d.frameSeen, !.draining = d.draining]

(* A valid aggregate: back in sync.                                          *)
BackInSync(d) == [InSync EXCEPT !.frameSeen = d.frameSeen]

Signature(length, trailer) == <<length, trailer.count, trailer.offset>>

InvalidAggregateForgetful(d, length, trailer) ==   \* mutant
  LET streak == IF Signature(length, trailer) = d.signature /\ d.streak < EscalationStreak
                THEN d.streak + 1 ELSE 1
      begins == ~d.draining /\ d.frameSeen /\ length = BufferSize /\ streak = StaleStreak
  IN  [d EXCEPT !.streak = streak, !.draining = @ \/ begins, !.expired = @ /\ ~begins]

(* One more invalid aggregate.  The fourth of a kind in full buffers, once   *)
(* frames have been received, marks the stream as stale.  (The streak is     *)
(* only counted as far as it matters.)                                       *)
InvalidAggregate(d, length, trailer) ==
  LET same   == Signature(length, trailer) = d.signature
      streak == IF ~same THEN 1 ELSE IF d.streak < EscalationStreak THEN d.streak + 1 ELSE d.streak
      begins == ~d.draining /\ d.frameSeen /\ length = BufferSize /\ streak = StaleStreak
  IN  [d EXCEPT !.streak = streak, !.signature = Signature(length, trailer),
                !.draining = @ \/ begins, !.expired = @ /\ ~begins]

Escalates(d, length) ==
  d.draining /\ length = BufferSize /\ (d.streak >= EscalationStreak \/ d.expired)

-----------------------------------------------------------------------------
(* The ring and its recovery, as far as they meet a parse.                   *)

Ring == [running  |-> TRUE,   \* ReceiveRunning
         starting |-> FALSE,  \* a stop, or the init of a replay, is to start reception
         inFlight |-> Requests,
         pending  |-> FALSE,  \* m_FullReinitializePending: the drain
         replay   |-> FALSE]  \* m_FullReinitializeActive

RequestFullReinitialize(r) ==
  IF r.pending \/ r.replay THEN r ELSE [r EXCEPT !.pending = TRUE, !.running = FALSE]

SubmitReceive(r) == [r EXCEPT !.running = TRUE, !.inFlight = Requests]

FreshStart(d) == [d EXCEPT !.streak = 0, !.signature = <<>>, !.draining = FALSE]

TakeRequest(r) == [r EXCEPT !.inFlight = @ - 1]

(* The end of CompleteReceive.                                               *)
Resubmit(r) == IF r.running THEN [r EXCEPT !.inFlight = @ + 1] ELSE r

-----------------------------------------------------------------------------
(* CompleteReceive.                                                          *)

Counted(n) == IF n < StaleStreak THEN n + 1 ELSE n

BeginParse(length, trailer, filled) ==
  /\ ParserReady(length, trailer)
  /\ pc' = "parsing"
  /\ context' = Context(length, trailer)
  /\ contents' = filled
  /\ frames' = <<>>
  /\ desync' = IF Ax88179 THEN BackInSync(desync) ELSE desync
  /\ ring' = TakeRequest(ring)
  /\ invalidRun' = 0 /\ forgotten' = FALSE

(* No parse: the request goes back at once, unless this one was the last     *)
(* straw.                                                                    *)
RefuseTransfer(length, trailer) ==
  /\ ~ParserReady(length, trailer)
  /\ desync' = IF Ax88179 /\ length >= TrailerSize
               THEN InvalidAggregate(desync, length, trailer) ELSE desync
  /\ ring' = LET r == TakeRequest(ring)
             IN  Resubmit(IF Ax88179 /\ length >= TrailerSize /\ Escalates(desync', length)
                          THEN RequestFullReinitialize(r) ELSE r)
  /\ invalidRun' = Counted(invalidRun)
  /\ UNCHANGED <<parser, forgotten>>

(* A transfer as the adapter laid it out.                                    *)
ReceiveIntact(sent) ==
  /\ pc = "idle" /\ ring.inFlight > 0 /\ ~stalled
  /\ {PacketsEnd(sent), TransferLength(sent)} \subseteq 0 .. BufferSize
  /\ BeginParse(TransferLength(sent), TrailerOf(sent),
                [intact |-> TRUE, sent |-> sent, cleared |-> FALSE])
  /\ UNCHANGED <<family, stalled, calls>>

(* One that was cut short or mixed up, or stale data.                        *)
ReceiveDamaged(length, trailer) ==
  /\ pc = "idle" /\ ring.inFlight > 0
  /\ stalled => length = BufferSize /\ trailer = StaleTrailer
  /\ \/ BeginParse(length, trailer, Empty)
     \/ RefuseTransfer(length, trailer)
  /\ UNCHANGED <<family, stalled, calls>>

(* Another iteration of the loop; a frame without a user goes nowhere.       *)
ParseNext ==
  /\ pc = "parsing"
  /\ HasHeader(context)
  /\ \E h \in Readable(HeaderOffset(context)) :
       /\ ~Rejected(context, h)
       /\ context' = Advance(context, h)
       /\ desync' = [desync EXCEPT !.frameSeen = @ \/ (Ax88179 /\ ~Skipped(h))]
       /\ IF Skipped(h) \/ Discarded(context, h)
          THEN UNCHANGED <<pc, frames>>
          ELSE /\ frames' = Append(frames, Converted(FrameOf(context, h), h))
               /\ pc' \in {"parsing", "callback"}
  /\ UNCHANGED <<family, contents, ring, stalled, ghosts, calls>>

(* Complete, or an error.                                                    *)
EndParse ==
  /\ pc = "parsing"
  /\ \/ ~HasHeader(context)
     \/ \E h \in Readable(HeaderOffset(context)) : Rejected(context, h)
  /\ pc' = "idle" /\ context' = NoContext /\ contents' = Empty /\ frames' = <<>>
  /\ ring' = Resubmit(ring)
  /\ UNCHANGED <<family, desync, stalled, ghosts, calls>>

(* The users have been called; the lock is taken again.                      *)
CallbackReturns ==
  /\ pc = "callback"
  /\ pc' = "parsing"
  /\ UNCHANGED <<family, context, contents, frames, desync, ring, stalled, ghosts, calls>>

(* A cancelled request completes.                                            *)
CompleteCancelled ==
  /\ pc = "idle" /\ ~ring.running /\ ring.inFlight > 0
  /\ ring' = TakeRequest(ring)
  /\ UNCHANGED <<family, parser, desync, stalled, ghosts, calls>>

-----------------------------------------------------------------------------
(* The AX88179 classes around it.  Whoever takes the lock finds CompleteReceive *)
(* idle or in a callback.                                                    *)

(* 250 ms after the stream was marked.                                       *)
DrainExpires ==
  /\ desync.draining /\ ~desync.expired
  /\ desync' = [desync EXCEPT !.expired = TRUE]
  /\ UNCHANGED <<family, parser, ring, stalled, ghosts, calls>>

Call == Ax88179 /\ calls < MaxCalls /\ calls' = calls + 1

Stall ==
  /\ Call
  /\ ~stalled /\ stalled' = TRUE
  /\ UNCHANGED <<family, parser, desync, ring, ghosts>>

(* NicAttachUser or NicDetachUser: not during callbacks, and not before init *)
(* has come to reception.                                                    *)
UpdateReceiveFilter ==
  /\ Call
  /\ pc = "idle" /\ ~(ring.replay /\ ring.starting)
  /\ desync' = FreshStart(desync)
  /\ ring' = SubmitReceive(ring)
  /\ forgotten' = FALSE
  /\ UNCHANGED <<family, parser, stalled, invalidRun>>

(* RestartReceiving, from the timer: stop and start again, or with the       *)
(* control channel busy only unmark the stream.                              *)
RestartReceiving ==
  /\ Call
  /\ pc # "parsing" /\ ring.running /\ ~ring.pending /\ ~ring.replay
  /\ \/ /\ desync' = [desync EXCEPT !.draining = FALSE]
        /\ forgotten' = (forgotten \/ (desync.draining /\ desync.streak >= StaleStreak))
        /\ UNCHANGED ring
     \/ /\ ring' = [ring EXCEPT !.running = FALSE, !.starting = TRUE]
        /\ ~ring.starting
        /\ UNCHANGED <<desync, forgotten>>
  /\ UNCHANGED <<family, parser, stalled, invalidRun>>

(* Errors of some pipe have added up.                                        *)
Reinitialize ==
  /\ Call
  /\ pc # "parsing" /\ ~ring.pending /\ ~ring.replay
  /\ ring' = RequestFullReinitialize(ring)
  /\ UNCHANGED <<family, parser, desync, stalled, ghosts>>

(* The stop of reception has completed, or init has come to its start.  Both *)
(* take control transfers, which complete on the processor of CompleteReceive. *)
StartReceiving ==
  /\ ring.starting /\ pc = "idle"
  /\ desync' = FreshStart(desync)
  /\ ring' = SubmitReceive([ring EXCEPT !.starting = FALSE])
  /\ forgotten' = FALSE
  /\ UNCHANGED <<family, parser, stalled, invalidRun, calls>>

(* The timer finds the pipes and the control channel drained: the receive    *)
(* memory is cleared, the state is reset, and init begins.  A request in its *)
(* callbacks is not counted.                                                 *)
Replay ==
  /\ ring.pending /\ ring.inFlight = 0 /\ ~ring.starting /\ pc # "parsing"
  /\ ring' = [ring EXCEPT !.pending = FALSE, !.replay = TRUE, !.running = FALSE, !.starting = TRUE]
  /\ desync' = InSync
  /\ contents' = [contents EXCEPT !.cleared = @ \/ pc = "callback"]
  /\ stalled' = FALSE
  /\ forgotten' = FALSE
  /\ UNCHANGED <<family, pc, context, frames, invalidRun, calls>>

ReplayEnds ==
  /\ ring.replay /\ ~ring.starting
  /\ ring' = [ring EXCEPT !.replay = FALSE]
  /\ UNCHANGED <<family, parser, desync, stalled, ghosts, calls>>

(* The drain has taken too long: the device is removed, and added again.     *)
DrainTimesOut ==
  /\ ring.pending /\ (ring.inFlight > 0 \/ ring.starting) /\ pc = "idle"
  /\ ring' = Ring
  /\ desync' = InSync
  /\ stalled' = FALSE
  /\ forgotten' = FALSE
  /\ UNCHANGED <<family, parser, invalidRun, calls>>

-----------------------------------------------------------------------------

(* A device whose init is complete.                                          *)
Init ==
  /\ family \in Families
  /\ pc = "idle" /\ context = NoContext /\ frames = <<>>
  /\ contents = Empty
  /\ desync = InSync /\ ring = Ring
  /\ stalled = FALSE /\ invalidRun = 0 /\ forgotten = FALSE /\ calls = 0

Sequences(n) == UNION {[1 .. k -> Sendable] : k \in 1 .. n}

CompleteDamaged ==
  \E length \in DamagedLengths, trailer \in Trailers : ReceiveDamaged(length, trailer)

CompleteReceive == (\E sent \in Sequences(MaxPackets) : ReceiveIntact(sent)) \/ CompleteDamaged

Parse == ParseNext \/ EndParse \/ CallbackReturns

Recover == StartReceiving \/ Replay \/ ReplayEnds

Next ==
  \/ CompleteReceive \/ Parse \/ CompleteCancelled
  \/ DrainExpires \/ Stall \/ UpdateReceiveFilter \/ RestartReceiving \/ Reinitialize
  \/ Recover \/ DrainTimesOut

Spec == Init /\ [][Next]_vars

(* Callbacks return and parses go on; a stalled adapter goes on filling      *)
(* buffers; cancelled requests complete; the timer ticks, also when it has   *)
(* to find a moment between two transfers.                                   *)
Fairness ==
  /\ WF_vars(Parse)
  /\ WF_vars(stalled /\ CompleteDamaged)
  /\ WF_vars(CompleteCancelled)
  /\ SF_vars(StartReceiving)
  /\ WF_vars(Replay) /\ WF_vars(ReplayEnds)
  /\ SF_vars(DrainTimesOut)

FairSpec == Spec /\ Fairness

-----------------------------------------------------------------------------
(* Properties.                                                               *)

(* The variables hold values of their types.                                 *)
TypeOK ==
  /\ family \in AllFamilies
  /\ pc \in {"idle", "parsing", "callback"}
  /\ context \in [length: Nat, dataOffset: Nat, dataEnd: Nat, metadataIndex: Nat,
                  metadataCount: Nat]
  /\ contents \in [intact: BOOLEAN, sent: Seq(Headers), cleared: BOOLEAN]
  /\ frames \in Seq([data: Nat, length: Nat])
  /\ desync \in [streak: 0 .. EscalationStreak, signature: {<<>>} \cup (Nat \X Nat \X Nat),
                 draining: BOOLEAN, expired: BOOLEAN, frameSeen: BOOLEAN]
  /\ ring \in [running: BOOLEAN, starting: BOOLEAN, inFlight: 0 .. Requests, pending: BOOLEAN,
               replay: BOOLEAN]
  /\ stalled \in BOOLEAN /\ forgotten \in BOOLEAN
  /\ invalidRun \in 0 .. StaleStreak /\ calls \in 0 .. MaxCalls

FrameEnd(i) == frames[i].data + frames[i].length

(* Whatever a transfer holds, the frames handed to users are whole (with an  *)
(* Ethernet header at least), lie in the part of the transfer that is for    *)
(* packets, and follow each other without overlap: rewriting a SNAP frame in *)
(* place cannot change another frame, or a header yet to be read.            *)
FramesApart ==
  /\ \A i \in 1 .. Len(frames) :
       /\ frames[i].length >= 14
       /\ FrameEnd(i) <= context.dataEnd /\ context.dataEnd <= context.length
  /\ \A i, j \in 1 .. Len(frames) : i < j => FrameEnd(i) <= frames[j].data

(* Every header is read inside the bytes transferred and, for the families   *)
(* with a table, before the trailer, although the AX88179's reads are not    *)
(* checked one by one; and the position never passes the end of the packets, *)
(* where the unsigned count of the bytes left would wrap.                    *)
ReadsInTransfer ==
  pc # "idle" =>
    /\ context.dataOffset <= context.dataEnd
    /\ HasHeader(context) =>
         HeaderOffset(context) + HeaderSize <= context.length - TrailerSize

(* Of a transfer that is as the adapter laid it out, the users get every     *)
(* good frame and nothing else: a bad one costs only itself, and padding     *)
(* never puts the parser out of step.                                        *)
IntactDelivered ==
  [][pc = "parsing" /\ pc' = "idle" /\ contents.intact /\ ~contents.cleared =>
       {frames[i] : i \in 1 .. Len(frames)} = FramesSent(contents.sent)]_vars

(* A stream counts as stale only after a run of invalid transfers that no    *)
(* valid one has interrupted, and only of an adapter that worked before.     *)
DrainJustified ==
  desync.draining => invalidRun = StaleStreak /\ desync.frameSeen

(* No transfer, however damaged, keeps CompleteReceive in its loop.          *)
ParseEnds == pc # "idle" ~> pc = "idle"

(* An adapter that worked and then repeats one stale buffer for ever is      *)
(* reinitialized or reset, whatever restarts and filter changes come in      *)
(* between; unless RestartReceiving met a busy control channel when the      *)
(* stream was already marked: the streak is then past the fourth.            *)
StallEnds == stalled /\ desync.frameSeen ~> ~stalled \/ forgotten
=============================================================================
