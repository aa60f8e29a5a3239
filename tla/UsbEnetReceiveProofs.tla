------------------------ MODULE UsbEnetReceiveProofs ------------------------
(***************************************************************************)
(* Proofs about CompleteReceive, for every family, whatever lengths the    *)
(* headers give, however long the transfers, and for any stalls, restarts  *)
(* and reinitializations.                                                  *)
(***************************************************************************)
EXTENDS UsbEnetReceive, SequenceTheorems, TLAPS

USE ReceiveAssumption

-----------------------------------------------------------------------------
(* The inductive invariant.                                                  *)

(* The request whose transfer is parsed is not with USB.                     *)
RequestTaken == pc # "idle" => ring.inFlight < Requests

(* What ParserReady has established of the table of headers.                 *)
TableFits(c) ==
  /\ c.dataEnd <= c.length
  /\ Inline => c.dataEnd = c.length
  /\ family = "AX88179" => c.dataEnd + 4 * c.metadataCount <= c.length - 4

(* The frames so far are whole, in order, and end before the position.       *)
FramesBehind(fs, offset) ==
  /\ \A i \in 1 .. Len(fs) : fs[i].length >= 14 /\ fs[i].data + fs[i].length <= offset
  /\ \A i, j \in 1 .. Len(fs) : i < j => fs[i].data + fs[i].length <= fs[j].data

Parsed ==
  /\ pc = "idle" => frames = <<>>
  /\ pc # "idle" =>
       /\ TableFits(context)
       /\ context.dataOffset <= context.dataEnd
       /\ FramesBehind(frames, context.dataOffset)

(* Invalid transfers are counted at least as far as their streak, which only *)
(* the AX88179 classes have.                                                 *)
StreakCounted ==
  /\ desync.streak <= invalidRun \/ invalidRun = StaleStreak
  /\ ~Ax88179 => desync.streak = 0 /\ ~desync.draining

IInv == TypeOK /\ RequestTaken /\ Parsed /\ StreakCounted /\ DrainJustified

AnyHeaders == [length: Nat, good: BOOLEAN, kind: Kinds]

Frames == [data: Nat, length: Nat]

Contexts == [length: Nat, dataOffset: Nat, dataEnd: Nat, metadataIndex: Nat,
             metadataCount: Nat]

Signatures == {<<>>} \cup (Nat \X Nat \X Nat)

Desyncs == [streak: 0 .. EscalationStreak, signature: Signatures, draining: BOOLEAN,
            expired: BOOLEAN, frameSeen: BOOLEAN]

-----------------------------------------------------------------------------
(* The parsers.                                                              *)

LEMMA AlignUpCovers ==
  ASSUME NEW n \in Nat
  PROVE  /\ AlignUp2(n) \in Nat /\ AlignUp2(n) >= n
         /\ AlignUp8(n) \in Nat /\ AlignUp8(n) >= n
BY SMT DEF AlignUp2, AlignUp8

(* A record is at least its header and its packet.                           *)
LEMMA ConsumedCovers ==
  ASSUME family \in AllFamilies, NEW c \in Contexts, NEW h \in AnyHeaders
  PROVE  /\ h.length \in Nat
         /\ Consumed(c, h) \in Nat
         /\ Consumed(c, h) >= h.length
         /\ family = "AX88178" => Consumed(c, h) >= 4 + h.length
         /\ family = "RTL8153" => Consumed(c, h) >= 24 + h.length
<1>1. h.length \in Nat
  BY DEF AnyHeaders
<1>2. /\ AlignUp2(h.length) \in Nat /\ AlignUp2(h.length) >= h.length
      /\ AlignUp8(h.length) \in Nat /\ AlignUp8(h.length) >= h.length
  BY <1>1, AlignUpCovers
<1>3. AlignUp8(24 + h.length) \in Nat /\ AlignUp8(24 + h.length) >= 24 + h.length
  BY <1>1, AlignUpCovers
<1> QED
  BY <1>1, <1>2, <1>3, SMT DEF Consumed, AllFamilies, AX88179Families, Contexts

LEMMA AdvanceTyped ==
  ASSUME NEW c \in Contexts, NEW h, Consumed(c, h) \in Nat
  PROVE  /\ Advance(c, h) \in Contexts
         /\ Advance(c, h).dataOffset = c.dataOffset + Consumed(c, h)
         /\ Advance(c, h).length = c.length /\ Advance(c, h).dataEnd = c.dataEnd
         /\ Advance(c, h).metadataCount = c.metadataCount
<1> DEFINE offset == c.dataOffset + Consumed(c, h)
           index == IF Inline THEN c.metadataIndex ELSE c.metadataIndex + 1
<1>1. Advance(c, h) = [c EXCEPT !.dataOffset = offset, !.metadataIndex = index]
  BY DEF Advance
<1>2. offset \in Nat /\ index \in Nat
  BY DEF Contexts
<1> HIDE DEF offset, index
<1>3. [c EXCEPT !.dataOffset = offset, !.metadataIndex = index] \in Contexts
  BY <1>2 DEF Contexts
<1> QED
  BY <1>1, <1>2, <1>3 DEF Contexts, offset

LEMMA RejectedOrFits ==
  ASSUME family \in AllFamilies, NEW c \in Contexts, NEW h \in AnyHeaders, ~Rejected(c, h)
  PROVE  Consumed(c, h) <= c.dataEnd - c.dataOffset
<1>1. CASE family \in {"AX88178", "RTL8153", "AX88179"}
  BY <1>1, ConsumedCovers DEF Rejected, Remaining, Contexts
<1>2. CASE family \in {"AX179A", "AX279"}
  BY <1>2, ConsumedCovers DEF Rejected, Remaining, Contexts
<1> QED
  BY <1>1, <1>2 DEF AllFamilies, AX88179Families

(* The frame of an accepted header lies in the record.                       *)
LEMMA FrameInRecord ==
  ASSUME family \in AllFamilies, NEW c \in Contexts, NEW h \in AnyHeaders,
         ~Rejected(c, h), ~Discarded(c, h)
  PROVE  LET frame == Converted(FrameOf(c, h), h)
         IN  /\ frame \in Frames
             /\ frame.length >= 14
             /\ c.dataOffset <= frame.data
             /\ frame.data + frame.length <= c.dataOffset + Consumed(c, h)
<1>1. h.length \in Nat /\ Consumed(c, h) \in Nat /\ Consumed(c, h) >= h.length
  BY ConsumedCovers
<1>2. /\ family = "AX88178" => Consumed(c, h) >= 4 + h.length
      /\ family = "RTL8153" => Consumed(c, h) >= 24 + h.length
  BY ConsumedCovers
<1>3. c.dataOffset \in Nat
  BY DEF Contexts
<1> DEFINE before == IF Inline THEN HeaderSize ELSE Prefix
           after  == IF family = "RTL8153" THEN 4 ELSE Prefix
<1>4. before \in Nat /\ after \in Nat /\ before + h.length - after <= Consumed(c, h)
  BY <1>1, <1>2, SMT DEF Inline, HeaderSize, Prefix, AllFamilies, AX88179Families
<1>5. FrameOf(c, h) = [data |-> c.dataOffset + before, length |-> h.length - after]
  BY DEF FrameOf
<1>6. h.length - after >= 42
  BY <1>1, <1>4, <1>5 DEF Discarded, MinimumReceiveFrameSize
<1> HIDE DEF before, after
<1>7. CASE h.kind = "snap"
  <2>1. Converted(FrameOf(c, h), h)
          = [data |-> c.dataOffset + before + 8, length |-> h.length - after - 8]
    BY <1>5, <1>7 DEF Converted
  <2> QED
    BY <1>1, <1>3, <1>4, <1>6, <2>1 DEF Frames
<1>8. CASE h.kind # "snap"
  <2>1. Converted(FrameOf(c, h), h) = [data |-> c.dataOffset + before, length |-> h.length - after]
    BY <1>5, <1>8 DEF Converted
  <2> QED
    BY <1>1, <1>3, <1>4, <1>6, <2>1 DEF Frames
<1> QED
  BY <1>7, <1>8

LEMMA ReadableTyped ==
  ASSUME TypeOK, NEW offset
  PROVE  Readable(offset) \subseteq AnyHeaders
<1>1. contents.sent \in Seq(Headers)
  BY DEF TypeOK
<1>2. Headers \subseteq AnyHeaders
  BY DEF Headers, AnyHeaders
<1>3. ZeroHeader \in AnyHeaders
  BY DEF ZeroHeader, AnyHeaders, Kinds
<1>4. \A k \in 1 .. Len(contents.sent) : contents.sent[k] \in Headers
  BY <1>1
<1> QED
  BY <1>2, <1>3, <1>4 DEF Readable

(* One frame more, behind the others.                                        *)
LEMMA AppendKeepsOrder ==
  ASSUME NEW fs \in Seq(Frames), NEW f \in Frames,
         NEW offset \in Nat, NEW next \in Nat,
         FramesBehind(fs, offset), f.length >= 14, offset <= f.data, f.data + f.length <= next
  PROVE  Append(fs, f) \in Seq(Frames) /\ FramesBehind(Append(fs, f), next)
<1> DEFINE gs == Append(fs, f)
<1>1. /\ gs \in Seq(Frames) /\ Len(gs) = Len(fs) + 1 /\ Len(fs) \in Nat
      /\ \A i \in 1 .. Len(fs) : gs[i] = fs[i] /\ fs[i] \in Frames
      /\ gs[Len(fs) + 1] = f
  BY AppendProperties, ElementOfSeq, LenProperties
<1>2. \A i \in 1 .. Len(fs) : fs[i].length >= 14 /\ fs[i].data + fs[i].length <= offset
  BY DEF FramesBehind
<1>3. \A i, j \in 1 .. Len(fs) : i < j => fs[i].data + fs[i].length <= fs[j].data
  BY DEF FramesBehind
<1> HIDE DEF gs
<1>4. ASSUME NEW i \in 1 .. Len(gs)
      PROVE  gs[i].length >= 14 /\ gs[i].data + gs[i].length <= next
  <2>1. i \in 1 .. Len(fs) \/ i = Len(fs) + 1
    BY <1>1
  <2>2. CASE i \in 1 .. Len(fs)
    <3>1. /\ fs[i].length >= 14 /\ fs[i].data + fs[i].length <= offset /\ gs[i] = fs[i]
          /\ fs[i].data \in Nat /\ fs[i].length \in Nat
      BY <1>1, <1>2, <2>2 DEF Frames
    <3>2. offset <= next
      BY DEF Frames
    <3> QED
      BY <3>1, <3>2
  <2> QED
    BY <1>1, <2>1, <2>2
<1>5. ASSUME NEW i \in 1 .. Len(gs), NEW j \in 1 .. Len(gs), i < j
      PROVE  gs[i].data + gs[i].length <= gs[j].data
  <2>1. Len(gs) = Len(fs) + 1 /\ Len(fs) \in Nat
    BY <1>1
  <2>2. i \in 1 .. Len(fs) /\ (j \in 1 .. Len(fs) \/ j = Len(fs) + 1)
    BY <1>5, <2>1
  <2>3. /\ gs[i] = fs[i] /\ fs[i].data \in Nat /\ fs[i].length \in Nat
        /\ fs[i].data + fs[i].length <= offset
    <3>1. fs[i] \in Frames /\ gs[i] = fs[i]
      BY <1>1, <2>2
    <3> QED
      BY <1>2, <2>2, <3>1 DEF Frames
  <2>4. CASE j \in 1 .. Len(fs)
    <3>1. fs[i].data + fs[i].length <= fs[j].data /\ gs[j] = fs[j]
      BY <1>1, <1>3, <1>5, <2>2, <2>4
    <3> QED
      BY <2>3, <3>1
  <2>5. CASE j = Len(fs) + 1
    <3>1. gs[j] = f
      BY <1>1, <2>5
    <3>2. f.data \in Nat
      BY DEF Frames
    <3> QED
      BY <2>3, <3>1, <3>2
  <2> QED
    BY <2>2, <2>4, <2>5
<1> QED
  BY <1>1, <1>4, <1>5 DEF FramesBehind, gs

(* One record more keeps the frames apart and the position in bounds.        *)
LEMMA ParseKeepsBounds ==
  ASSUME IInv, ParseNext
  PROVE  /\ Parsed' /\ context' \in Contexts /\ frames' \in Seq(Frames)
         /\ pc' \in {"parsing", "callback"}
<1>1. /\ pc = "parsing" /\ family \in AllFamilies /\ family' = family
      /\ context \in Contexts /\ frames \in Seq(Frames)
  BY DEF IInv, TypeOK, ParseNext, Contexts, Frames
<1>2. PICK h \in Readable(HeaderOffset(context)) :
        /\ ~Rejected(context, h)
        /\ context' = Advance(context, h)
        /\ IF Skipped(h) \/ Discarded(context, h)
           THEN UNCHANGED <<pc, frames>>
           ELSE /\ frames' = Append(frames, Converted(FrameOf(context, h), h))
                /\ pc' \in {"parsing", "callback"}
  BY DEF ParseNext
<1>3. h \in AnyHeaders
  BY ReadableTyped DEF IInv
<1>4. Consumed(context, h) \in Nat /\ Consumed(context, h) <= context.dataEnd - context.dataOffset
  BY <1>1, <1>2, <1>3, ConsumedCovers, RejectedOrFits
<1>5. /\ TableFits(context) /\ context.dataOffset <= context.dataEnd
      /\ FramesBehind(frames, context.dataOffset)
  BY <1>1 DEF IInv, Parsed
<1> DEFINE next == context.dataOffset + Consumed(context, h)
<1>6. next \in Nat /\ context.dataOffset \in Nat /\ context.dataOffset <= next
  BY <1>1, <1>4 DEF Contexts
<1>7. /\ context' \in Contexts /\ context'.dataOffset = next
      /\ context'.length = context.length /\ context'.dataEnd = context.dataEnd
      /\ context'.metadataCount = context.metadataCount
  BY <1>1, <1>2, <1>4, AdvanceTyped
<1>8. TableFits(context)' /\ context'.dataOffset <= context'.dataEnd
  <2>1. next <= context.dataEnd
    BY <1>1, <1>4 DEF Contexts
  <2> QED
    BY <1>1, <1>5, <1>7, <2>1 DEF TableFits, Inline
<1> HIDE DEF next
<1>9. CASE Skipped(h) \/ Discarded(context, h)
  <2>1. frames' = frames /\ pc' = pc
    BY <1>2, <1>9
  <2>2. ASSUME NEW i \in 1 .. Len(frames)
        PROVE  frames[i].data + frames[i].length <= next
    <3>1. frames[i].data + frames[i].length <= context.dataOffset
      BY <1>5 DEF FramesBehind
    <3>2. frames[i] \in Frames
      BY <1>1, ElementOfSeq
    <3> QED
      BY <1>6, <3>1, <3>2 DEF Frames
  <2>3. FramesBehind(frames, next)
    BY <1>5, <2>2 DEF FramesBehind
  <2> QED
    BY <1>1, <1>7, <1>8, <2>1, <2>3 DEF Parsed
<1>10. CASE ~(Skipped(h) \/ Discarded(context, h))
  <2> DEFINE frame == Converted(FrameOf(context, h), h)
  <2>1. /\ frame \in Frames /\ frame.length >= 14
        /\ context.dataOffset <= frame.data /\ frame.data + frame.length <= next
    BY <1>1, <1>2, <1>3, <1>10, FrameInRecord DEF next
  <2>2. frames' = Append(frames, frame) /\ pc' \in {"parsing", "callback"}
    BY <1>2, <1>10
  <2> HIDE DEF frame
  <2>3. frames' \in Seq(Frames) /\ FramesBehind(frames', next)
    BY <1>1, <1>5, <1>6, <2>1, <2>2, AppendKeepsOrder
  <2> QED
    BY <1>7, <1>8, <2>2, <2>3 DEF Parsed
<1> QED
  BY <1>9, <1>10

(* A parse that begins has nothing behind it and a table that fits.          *)
LEMMA BeginParseInBounds ==
  ASSUME NEW length \in Nat, NEW trailer \in [count: Nat, offset: Nat], NEW filled,
         family \in AllFamilies, family' = family,
         BeginParse(length, trailer, filled)
  PROVE  /\ Parsed' /\ context' \in Contexts /\ frames' = <<>> /\ contents' = filled
         /\ pc' = "parsing"
<1>1. /\ ParserReady(length, trailer) /\ pc' = "parsing" /\ frames' = <<>> /\ contents' = filled
      /\ context' = Context(length, trailer)
  BY DEF BeginParse
<1>2. context' = [length |-> length, dataOffset |-> 0,
                  dataEnd |-> IF Inline THEN length ELSE trailer.offset, metadataIndex |-> 0,
                  metadataCount |-> IF Inline THEN 0 ELSE trailer.count]
  BY <1>1 DEF Context, NoContext
<1>3. trailer.count \in Nat /\ trailer.offset \in Nat
  OBVIOUS
<1>4. context' \in Contexts
  BY <1>2, <1>3 DEF Contexts
<1>5. TableFits(context)' /\ context'.dataOffset <= context'.dataEnd
  <2>1. CASE Inline
    <3>1. family \in {"AX88178", "RTL8153"} /\ Inline' = Inline
      BY <2>1 DEF Inline
    <3> QED
      BY <1>2, <2>1, <3>1 DEF TableFits
  <2>2. CASE ~Inline
    <3>1. family \in AX88179Families /\ Inline' = Inline
      BY <2>2 DEF Inline, AllFamilies
    <3>2. /\ length >= HeaderSize
          /\ IF family = "AX88179"
             THEN trailer.offset + HeaderSize * trailer.count <= length - HeaderSize
             ELSE trailer.offset + HeaderSize * trailer.count = length - HeaderSize
      BY <1>1, <2>2, <3>1 DEF ParserReady, ValidTrailer, TrailerSize
    <3>3. HeaderSize = IF family = "AX88179" THEN 4 ELSE 8
      BY <3>1 DEF HeaderSize, AX88179Families
    <3>4. /\ trailer.offset <= length
          /\ family = "AX88179" => trailer.offset + 4 * trailer.count <= length - 4
      <4>1. CASE family = "AX88179"
        BY <1>3, <3>2, <3>3, <4>1
      <4>2. CASE family # "AX88179"
        BY <1>3, <3>2, <3>3, <4>2
      <4> QED
        BY <4>1, <4>2
    <3> QED
      BY <1>2, <1>3, <2>2, <3>1, <3>4 DEF TableFits
  <2> QED
    BY <2>1, <2>2
<1>6. FramesBehind(frames, context.dataOffset)'
  BY <1>1, EmptySeq DEF FramesBehind
<1> QED
  BY <1>1, <1>4, <1>5, <1>6 DEF Parsed

-----------------------------------------------------------------------------
(* The conjuncts of TypeOK, by the variables that change together.           *)

ParserTyped ==
  /\ family \in AllFamilies
  /\ pc \in {"idle", "parsing", "callback"}
  /\ context \in Contexts
  /\ contents \in [intact: BOOLEAN, sent: Seq(Headers), cleared: BOOLEAN]
  /\ frames \in Seq(Frames)

RingTyped ==
  /\ ring \in [running: BOOLEAN, starting: BOOLEAN, inFlight: 0 .. Requests,
               pending: BOOLEAN, replay: BOOLEAN]
  /\ stalled \in BOOLEAN /\ calls \in 0 .. MaxCalls

DesyncTyped == desync \in Desyncs /\ forgotten \in BOOLEAN /\ invalidRun \in 0 .. StaleStreak

LEMMA TypeOKParts == TypeOK <=> ParserTyped /\ RingTyped /\ DesyncTyped
BY DEF TypeOK, ParserTyped, RingTyped, DesyncTyped, Contexts, Desyncs, Signatures,
   Frames

LEMMA TypeOKPartsNext == TypeOK' <=> ParserTyped' /\ RingTyped' /\ DesyncTyped'
BY DEF TypeOK, ParserTyped, RingTyped, DesyncTyped, Contexts, Desyncs, Signatures,
   Frames

LEMMA SentTyped ==
  ASSUME NEW sent \in Sequences(MaxPackets)
  PROVE  sent \in Seq(Headers)
<1>1. PICK k \in 1 .. MaxPackets : sent \in [1 .. k -> Sendable]
  BY DEF Sequences
<1>2. sent \in [1 .. k -> Headers] /\ k \in Nat
  BY <1>1 DEF Sendable
<1> QED
  BY <1>2, SeqDef

(* The parser, step by step.                                                 *)
LEMMA ParserStep ==
  ASSUME IInv, Next
  PROVE  ParserTyped' /\ Parsed'
<1>1. ParserTyped /\ Parsed
  BY TypeOKParts DEF IInv
<1>2. ASSUME UNCHANGED <<family, parser>>
      PROVE  ParserTyped' /\ Parsed'
  <2>1. /\ family' = family /\ pc' = pc /\ context' = context /\ contents' = contents
        /\ frames' = frames
    BY <1>2 DEF parser
  <2>2. ParserTyped'
    BY <1>1, <2>1 DEF ParserTyped
  <2>3. Parsed'
    BY <1>1, <2>1 DEF Parsed, TableFits, Inline, FramesBehind
  <2> QED
    BY <2>2, <2>3
<1>3. ASSUME NEW sent \in Sequences(MaxPackets), ReceiveIntact(sent)
      PROVE  ParserTyped' /\ Parsed'
  <2>1. sent \in Seq(Headers)
    BY SentTyped
  <2>2. /\ TransferLength(sent) \in Nat /\ family' = family
        /\ PacketsEnd(sent) \in Nat
        /\ BeginParse(TransferLength(sent), TrailerOf(sent),
                      [intact |-> TRUE, sent |-> sent, cleared |-> FALSE])
    BY <1>3 DEF ReceiveIntact
  <2>3. Len(sent) \in Nat
    BY <2>1, LenProperties
  <2>4. TrailerOf(sent) \in [count: Nat, offset: Nat]
    BY <2>2, <2>3 DEF TrailerOf
  <2>5. family \in AllFamilies
    BY <1>1 DEF ParserTyped
  <2>6. /\ Parsed' /\ context' \in Contexts /\ frames' = <<>> /\ pc' = "parsing"
        /\ contents' = [intact |-> TRUE, sent |-> sent, cleared |-> FALSE]
    BY <2>2, <2>4, <2>5, BeginParseInBounds
  <2> QED
    BY <2>1, <2>2, <2>5, <2>6, EmptySeq DEF ParserTyped
<1>4. ASSUME NEW length \in DamagedLengths, NEW trailer \in Trailers, ReceiveDamaged(length, trailer)
      PROVE  ParserTyped' /\ Parsed'
  <2>1. length \in Nat /\ trailer \in [count: Nat, offset: Nat]
    OBVIOUS
  <2>2. family' = family /\ family \in AllFamilies
    BY <1>1, <1>4 DEF ReceiveDamaged, ParserTyped
  <2>3. CASE BeginParse(length, trailer, Empty)
    <3>1. /\ Parsed' /\ context' \in Contexts /\ frames' = <<>> /\ pc' = "parsing"
          /\ contents' = Empty
      BY <2>1, <2>2, <2>3, BeginParseInBounds
    <3> QED
      BY <2>2, <3>1, EmptySeq DEF ParserTyped, Empty
  <2>4. CASE RefuseTransfer(length, trailer)
    BY <1>2, <2>2, <2>4 DEF RefuseTransfer
  <2> QED
    BY <1>4, <2>3, <2>4 DEF ReceiveDamaged
<1>5. ASSUME ParseNext
      PROVE  ParserTyped' /\ Parsed'
  <2>1. /\ Parsed' /\ context' \in Contexts /\ frames' \in Seq(Frames)
        /\ pc' \in {"parsing", "callback"}
    BY <1>5, ParseKeepsBounds
  <2>2. family' = family /\ contents' = contents
    BY <1>5 DEF ParseNext
  <2> QED
    BY <1>1, <2>1, <2>2 DEF ParserTyped
<1>6. ASSUME EndParse
      PROVE  ParserTyped' /\ Parsed'
  <2>1. /\ family' = family /\ pc' = "idle" /\ context' = NoContext /\ contents' = Empty
        /\ frames' = <<>>
    BY <1>6 DEF EndParse
  <2>2. NoContext \in Contexts
    BY DEF NoContext, Contexts
  <2> QED
    BY <1>1, <2>1, <2>2, EmptySeq DEF ParserTyped, Parsed, Empty
<1>7. ASSUME CallbackReturns
      PROVE  ParserTyped' /\ Parsed'
  <2>1. /\ family' = family /\ pc = "callback" /\ pc' = "parsing" /\ context' = context
        /\ contents' = contents /\ frames' = frames
    BY <1>7 DEF CallbackReturns
  <2>2. ParserTyped'
    BY <1>1, <2>1 DEF ParserTyped
  <2>3. Parsed'
    BY <1>1, <2>1 DEF Parsed, TableFits, Inline, FramesBehind
  <2> QED
    BY <2>2, <2>3
<1>8. ASSUME Replay
      PROVE  ParserTyped' /\ Parsed'
  <2>1. /\ family' = family /\ pc' = pc /\ context' = context /\ frames' = frames
        /\ contents' = [contents EXCEPT !.cleared = contents.cleared \/ pc = "callback"]
    BY <1>8 DEF Replay
  <2>2. contents' \in [intact: BOOLEAN, sent: Seq(Headers), cleared: BOOLEAN]
    BY <1>1, <2>1 DEF ParserTyped
  <2>3. ParserTyped'
    BY <1>1, <2>1, <2>2 DEF ParserTyped
  <2>4. Parsed'
    BY <1>1, <2>1 DEF Parsed, TableFits, Inline, FramesBehind
  <2> QED
    BY <2>3, <2>4
<1>9. CASE CompleteReceive \/ Parse
  BY <1>3, <1>4, <1>5, <1>6, <1>7, <1>9 DEF CompleteReceive, CompleteDamaged, Parse
<1>10. CASE CompleteCancelled \/ DrainExpires \/ Stall \/ UpdateReceiveFilter \/ RestartReceiving
            \/ Reinitialize
  BY <1>2, <1>10 DEF CompleteCancelled, DrainExpires, Stall, UpdateReceiveFilter,
       RestartReceiving, Reinitialize
<1>11. CASE Recover \/ DrainTimesOut
  BY <1>2, <1>8, <1>11 DEF Recover, StartReceiving, ReplayEnds, DrainTimesOut
<1> QED
  BY <1>9, <1>10, <1>11 DEF Next

-----------------------------------------------------------------------------
(* The ring.                                                                 *)

Rings == [running: BOOLEAN, starting: BOOLEAN, inFlight: 0 .. Requests, pending: BOOLEAN,
          replay: BOOLEAN]

LEMMA RingOperators ==
  ASSUME NEW r \in Rings
  PROVE  /\ r.inFlight > 0 => TakeRequest(r) \in Rings /\ TakeRequest(r).inFlight < Requests
         /\ r.inFlight < Requests => Resubmit(r) \in Rings
         /\ RequestFullReinitialize(r) \in Rings
         /\ RequestFullReinitialize(r).inFlight = r.inFlight
         /\ SubmitReceive(r) \in Rings
         /\ Ring \in Rings
<1>1. ASSUME r.inFlight > 0
      PROVE  TakeRequest(r) \in Rings /\ TakeRequest(r).inFlight < Requests
  BY <1>1 DEF TakeRequest, Rings
<1>2. ASSUME r.inFlight < Requests
      PROVE  Resubmit(r) \in Rings
  BY <1>2 DEF Resubmit, Rings
<1>3. RequestFullReinitialize(r) \in Rings /\ RequestFullReinitialize(r).inFlight = r.inFlight
  BY DEF RequestFullReinitialize, Rings
<1>4. SubmitReceive(r) \in Rings
  <2>1. Requests \in 0 .. Requests
    OBVIOUS
  <2>2. SubmitReceive(r) = [r EXCEPT !.running = TRUE, !.inFlight = Requests]
    BY DEF SubmitReceive
  <2> QED
    BY <2>1, <2>2, Zenon DEF Rings
<1>5. Ring \in Rings
  BY DEF Ring, Rings
<1> QED
  BY <1>1, <1>2, <1>3, <1>4, <1>5

LEMMA RingStep ==
  ASSUME IInv, Next
  PROVE  RingTyped' /\ RequestTaken'
<1>1. /\ ring \in Rings /\ stalled \in BOOLEAN /\ calls \in 0 .. MaxCalls /\ RequestTaken
      /\ pc \in {"idle", "parsing", "callback"}
  BY TypeOKParts DEF IInv, RingTyped, Rings, ParserTyped
<1>2. ASSUME NEW length, NEW trailer, NEW filled, BeginParse(length, trailer, filled),
             ring.inFlight > 0, stalled' = stalled, calls' = calls
      PROVE  RingTyped' /\ RequestTaken'
  <2>1. ring' = TakeRequest(ring)
    BY <1>2 DEF BeginParse
  <2> QED
    BY <1>1, <1>2, <2>1, RingOperators DEF RingTyped, RequestTaken, Rings
<1>3. CASE CompleteReceive
  <2>1. ASSUME NEW sent, ReceiveIntact(sent)
        PROVE  RingTyped' /\ RequestTaken'
    BY <1>2, <2>1 DEF ReceiveIntact
  <2>2. ASSUME NEW length, NEW trailer, ReceiveDamaged(length, trailer)
        PROVE  RingTyped' /\ RequestTaken'
    <3>1. CASE BeginParse(length, trailer, Empty)
      BY <1>2, <2>2, <3>1 DEF ReceiveDamaged
    <3>2. CASE RefuseTransfer(length, trailer)
      <4> DEFINE taken == TakeRequest(ring)
                 more == IF Ax88179 /\ length >= TrailerSize /\ Escalates(desync', length)
                         THEN RequestFullReinitialize(taken) ELSE taken
      <4>1. /\ ring' = Resubmit(more) /\ pc' = pc /\ pc = "idle"
            /\ ring.inFlight > 0 /\ stalled' = stalled /\ calls' = calls
        BY <2>2, <3>2 DEF RefuseTransfer, ReceiveDamaged, parser
      <4>2. taken \in Rings /\ taken.inFlight < Requests
        BY <1>1, <4>1, RingOperators
      <4> HIDE DEF taken
      <4>3. more \in Rings /\ more.inFlight < Requests
        BY <4>2, RingOperators
      <4> HIDE DEF more
      <4>4. ring' \in Rings
        BY <4>1, <4>3, RingOperators
      <4> QED
        BY <1>1, <4>1, <4>4 DEF RingTyped, RequestTaken, Rings
    <3> QED
      BY <2>2, <3>1, <3>2 DEF ReceiveDamaged
  <2> QED
    BY <1>3, <2>1, <2>2 DEF CompleteReceive, CompleteDamaged
<1>4. CASE ParseNext \/ CallbackReturns
  <2>1. ring' = ring /\ stalled' = stalled /\ calls' = calls /\ pc # "idle"
    BY <1>4 DEF ParseNext, CallbackReturns
  <2> QED
    BY <1>1, <2>1 DEF RingTyped, RequestTaken, Rings
<1>5. CASE EndParse
  <2>1. /\ ring' = Resubmit(ring) /\ stalled' = stalled /\ calls' = calls /\ pc # "idle"
        /\ pc' = "idle"
    BY <1>5 DEF EndParse
  <2>2. Resubmit(ring) \in Rings
    BY <1>1, <2>1, RingOperators DEF RequestTaken
  <2> QED
    BY <1>1, <2>1, <2>2 DEF RingTyped, RequestTaken, Rings
<1>6. CASE CompleteCancelled
  <2>1. /\ ring.inFlight > 0 /\ ring' = TakeRequest(ring) /\ stalled' = stalled /\ calls' = calls
        /\ pc' = pc /\ pc = "idle"
    BY <1>6 DEF CompleteCancelled, parser
  <2> QED
    BY <1>1, <2>1, RingOperators DEF RingTyped, RequestTaken, Rings
<1>7. CASE DrainExpires
  BY <1>1, <1>7 DEF DrainExpires, parser, RingTyped, RequestTaken, Rings
<1>8. ASSUME Call
      PROVE  calls' \in 0 .. MaxCalls
  BY <1>1, <1>8 DEF Call
<1>9. CASE Stall
  <2>1. stalled' \in BOOLEAN /\ ring' = ring /\ pc' = pc
    BY <1>9 DEF Stall, parser
  <2> QED
    BY <1>1, <1>8, <1>9, <2>1 DEF Stall, RingTyped, RequestTaken, Rings
<1>10. CASE UpdateReceiveFilter
  <2>1. ring' = SubmitReceive(ring) /\ stalled' = stalled /\ pc' = "idle"
    BY <1>10 DEF UpdateReceiveFilter, parser
  <2>2. ring' \in Rings
    BY <1>1, <2>1, RingOperators
  <2> QED
    BY <1>1, <1>8, <1>10, <2>1, <2>2 DEF UpdateReceiveFilter, RingTyped, RequestTaken, Rings
<1>11. CASE RestartReceiving
  <2>1. /\ ring' = ring \/ ring' = [ring EXCEPT !.running = FALSE, !.starting = TRUE]
        /\ stalled' = stalled /\ pc' = pc
    BY <1>11 DEF RestartReceiving, parser
  <2>2. ring' \in Rings /\ ring'.inFlight = ring.inFlight
    BY <1>1, <2>1 DEF Rings
  <2> QED
    BY <1>1, <1>8, <1>11, <2>1, <2>2 DEF RestartReceiving, RingTyped, RequestTaken, Rings
<1>12. CASE Reinitialize
  <2>1. ring' = RequestFullReinitialize(ring) /\ stalled' = stalled /\ pc' = pc
    BY <1>12 DEF Reinitialize, parser
  <2>2. ring' \in Rings /\ ring'.inFlight = ring.inFlight
    BY <1>1, <2>1, RingOperators
  <2> QED
    BY <1>1, <1>8, <1>12, <2>1, <2>2 DEF Reinitialize, RingTyped, RequestTaken, Rings
<1>13. CASE StartReceiving
  <2>1. /\ ring' = SubmitReceive([ring EXCEPT !.starting = FALSE])
        /\ stalled' = stalled /\ pc' = "idle" /\ calls' = calls
    BY <1>13 DEF StartReceiving, parser
  <2>2. [ring EXCEPT !.starting = FALSE] \in Rings
    BY <1>1 DEF Rings
  <2>3. ring' \in Rings
    BY <2>1, <2>2, RingOperators
  <2> QED
    BY <1>1, <2>1, <2>3 DEF RingTyped, RequestTaken, Rings
<1>14. CASE Replay
  <2>1. /\ ring' = [ring EXCEPT !.pending = FALSE, !.replay = TRUE, !.running = FALSE,
                                !.starting = TRUE]
        /\ stalled' = FALSE /\ pc' = pc /\ calls' = calls
    BY <1>14 DEF Replay
  <2>2. ring' \in Rings /\ ring'.inFlight = ring.inFlight
    BY <1>1, <2>1 DEF Rings
  <2> QED
    BY <1>1, <2>1, <2>2 DEF RingTyped, RequestTaken, Rings
<1>15. CASE ReplayEnds
  <2>1. ring' = [ring EXCEPT !.replay = FALSE] /\ stalled' = stalled /\ pc' = pc /\ calls' = calls
    BY <1>15 DEF ReplayEnds, parser
  <2>2. ring' \in Rings /\ ring'.inFlight = ring.inFlight
    BY <1>1, <2>1 DEF Rings
  <2> QED
    BY <1>1, <2>1, <2>2 DEF RingTyped, RequestTaken, Rings
<1>16. CASE DrainTimesOut
  <2>1. ring' = Ring /\ stalled' = FALSE /\ pc' = "idle" /\ calls' = calls
    BY <1>16 DEF DrainTimesOut, parser
  <2> QED
    BY <1>1, <2>1, RingOperators DEF RingTyped, RequestTaken, Rings
<1> QED
  BY <1>3, <1>4, <1>5, <1>6, <1>7, <1>9, <1>10, <1>11, <1>12, <1>13, <1>14, <1>15, <1>16
     DEF Next, Parse, Recover

-----------------------------------------------------------------------------
(* The stale stream.                                                         *)

(* One more invalid transfer: the streak and the count of it grow together.  *)
LEMMA InvalidAggregateCounted ==
  ASSUME NEW d \in Desyncs, NEW run \in 0 .. StaleStreak, NEW length \in Nat,
         NEW trailer \in [count: Nat, offset: Nat],
         d.streak <= run \/ run = StaleStreak,
         d.draining => run = StaleStreak /\ d.frameSeen
  PROVE  LET next == InvalidAggregate(d, length, trailer)
         IN  /\ next \in Desyncs
             /\ Counted(run) \in 0 .. StaleStreak
             /\ next.streak <= Counted(run) \/ Counted(run) = StaleStreak
             /\ next.draining => Counted(run) = StaleStreak /\ next.frameSeen
<1> DEFINE signature == Signature(length, trailer)
           streak == IF signature # d.signature THEN 1
                     ELSE IF d.streak < EscalationStreak THEN d.streak + 1 ELSE d.streak
           begins == ~d.draining /\ d.frameSeen /\ length = BufferSize /\ streak = StaleStreak
           draining == d.draining \/ begins
           expired == d.expired /\ ~begins
<1>1. InvalidAggregate(d, length, trailer)
        = [d EXCEPT !.streak = streak, !.signature = signature, !.draining = draining,
                    !.expired = expired]
  BY DEF InvalidAggregate
<1>2. /\ d.streak \in 0 .. EscalationStreak /\ d.draining \in BOOLEAN /\ d.expired \in BOOLEAN
      /\ d.frameSeen \in BOOLEAN
  BY DEF Desyncs
<1>3. streak \in 0 .. EscalationStreak /\ streak <= d.streak + 1
  BY <1>2
<1>4. signature \in Signatures
  BY DEF Signature, Signatures
<1>5. draining \in BOOLEAN /\ expired \in BOOLEAN
  BY <1>2
<1>6. Counted(run) \in 0 .. StaleStreak /\ (Counted(run) = run + 1 \/ Counted(run) = StaleStreak)
  BY DEF Counted
<1>7. streak <= Counted(run) \/ Counted(run) = StaleStreak
  BY <1>2, <1>3, <1>6 DEF Counted
<1>8. ASSUME draining
      PROVE  Counted(run) = StaleStreak /\ d.frameSeen
  <2>1. CASE d.draining
    BY <2>1 DEF Counted
  <2>2. CASE begins
    BY <1>6, <1>7, <2>2
  <2> QED
    BY <1>8, <2>1, <2>2
<1> HIDE DEF signature, streak, draining, expired
<1> DEFINE next == [d EXCEPT !.streak = streak, !.signature = signature, !.draining = draining,
                             !.expired = expired]
<1>9. /\ next \in Desyncs /\ next.streak = streak /\ next.draining = draining
      /\ next.frameSeen = d.frameSeen
  BY <1>3, <1>4, <1>5 DEF Desyncs
<1> HIDE DEF next
<1>10. InvalidAggregate(d, length, trailer) = next
  BY <1>1 DEF next
<1> QED
  BY <1>6, <1>7, <1>8, <1>9, <1>10

(* A transfer without a table, or a start, ends the streak.                  *)
LEMMA DesyncResets ==
  ASSUME NEW d \in Desyncs
  PROVE  /\ InSync \in Desyncs /\ InSync.streak = 0 /\ ~InSync.draining
         /\ BackInSync(d) \in Desyncs /\ BackInSync(d).streak = 0 /\ ~BackInSync(d).draining
         /\ FreshStart(d) \in Desyncs /\ FreshStart(d).streak = 0 /\ ~FreshStart(d).draining
<1>1. <<>> \in Signatures /\ 0 \in 0 .. EscalationStreak
  BY DEF Signatures
<1>2. d.frameSeen \in BOOLEAN
  BY DEF Desyncs
<1>3. InSync \in Desyncs /\ InSync.streak = 0 /\ ~InSync.draining
  <2>1. InSync \in Desyncs
    BY <1>1, Zenon DEF InSync, Desyncs
  <2> QED
    BY <2>1 DEF InSync
<1>4. BackInSync(d) \in Desyncs /\ BackInSync(d).streak = 0 /\ ~BackInSync(d).draining
  BY <1>2, <1>3 DEF BackInSync, Desyncs
<1>5. FreshStart(d) \in Desyncs /\ FreshStart(d).streak = 0 /\ ~FreshStart(d).draining
  <2> DEFINE none == <<>>
  <2>1. FreshStart(d) = [d EXCEPT !.streak = 0, !.signature = none, !.draining = FALSE]
    BY DEF FreshStart
  <2>2. none \in Signatures
    BY <1>1
  <2> HIDE DEF none
  <2> QED
    BY <1>1, <2>1, <2>2 DEF Desyncs
<1> QED
  BY <1>3, <1>4, <1>5

LEMMA DesyncStep ==
  ASSUME IInv, Next
  PROVE  DesyncTyped' /\ StreakCounted' /\ DrainJustified'
<1> DEFINE Goal == DesyncTyped' /\ StreakCounted' /\ DrainJustified'
<1>1. /\ desync \in Desyncs /\ forgotten \in BOOLEAN /\ invalidRun \in 0 .. StaleStreak
      /\ desync.streak <= invalidRun \/ invalidRun = StaleStreak
      /\ desync.draining => invalidRun = StaleStreak /\ desync.frameSeen
      /\ ~Ax88179 => desync.streak = 0 /\ ~desync.draining
      /\ desync.streak \in Nat
  BY TypeOKParts DEF IInv, DesyncTyped, StreakCounted, DrainJustified, Desyncs
<1>2. Ax88179' = Ax88179
  BY DEF Next, CompleteReceive, CompleteDamaged, ReceiveIntact, ReceiveDamaged, Parse, ParseNext,
     EndParse, CallbackReturns, CompleteCancelled, DrainExpires, Stall, UpdateReceiveFilter,
     RestartReceiving, Reinitialize, Recover, StartReceiving, Replay, ReplayEnds,
     DrainTimesOut, Ax88179
<1>3. ASSUME NEW d \in Desyncs, desync' = d, NEW run \in 0 .. StaleStreak, invalidRun' = run,
             forgotten' \in BOOLEAN, d.streak <= run \/ run = StaleStreak,
             ~Ax88179 => d.streak = 0 /\ ~d.draining,
             d.draining => run = StaleStreak /\ d.frameSeen
      PROVE  Goal
  BY <1>2, <1>3 DEF DesyncTyped, StreakCounted, DrainJustified
<1>4. ASSUME NEW d \in Desyncs, desync' = d, d.streak = 0, ~d.draining,
             invalidRun' \in 0 .. StaleStreak, forgotten' \in BOOLEAN
      PROVE  Goal
  BY <1>2, <1>4 DEF DesyncTyped, StreakCounted, DrainJustified
<1>5. ASSUME UNCHANGED desync, UNCHANGED invalidRun, forgotten' \in BOOLEAN
      PROVE  Goal
  BY <1>1, <1>3, <1>5
<1>6. InSync \in Desyncs /\ InSync.streak = 0 /\ ~InSync.draining
  BY <1>1, DesyncResets
<1>7. BackInSync(desync) \in Desyncs /\ BackInSync(desync).streak = 0 /\ ~BackInSync(desync).draining
  BY <1>1, DesyncResets
<1>8. FreshStart(desync) \in Desyncs /\ FreshStart(desync).streak = 0 /\ ~FreshStart(desync).draining
  BY <1>1, DesyncResets
<1> SUFFICES Goal
  OBVIOUS
<1> HIDE DEF Goal
<1>9. ASSUME NEW length, NEW trailer, NEW filled, BeginParse(length, trailer, filled)
      PROVE  Goal
  <2>1. /\ desync' = IF Ax88179 THEN BackInSync(desync) ELSE desync
        /\ invalidRun' = 0 /\ forgotten' = FALSE
    BY <1>9 DEF BeginParse
  <2>2. CASE Ax88179
    <3>1. desync' = BackInSync(desync) /\ invalidRun' = 0 /\ forgotten' = FALSE
      BY <2>1, <2>2, Zenon
    <3>2. 0 \in 0 .. StaleStreak
      OBVIOUS
    <3> QED
      BY <1>4, <1>7, <3>1, <3>2
  <2>3. CASE ~Ax88179
    <3>1. desync' = desync /\ invalidRun' = 0 /\ forgotten' = FALSE
      BY <2>1, <2>3, Zenon
    <3>2. desync \in Desyncs /\ desync.streak = 0 /\ ~desync.draining
      BY <1>1, <2>3, Zenon
    <3>3. 0 \in 0 .. StaleStreak
      OBVIOUS
    <3> QED
      BY <1>4, <3>1, <3>2, <3>3
  <2> QED
    BY <2>2, <2>3
<1>10. ASSUME NEW length \in DamagedLengths, NEW trailer \in Trailers,
              RefuseTransfer(length, trailer)
       PROVE  Goal
  <2> DEFINE d == IF Ax88179 /\ length >= TrailerSize
                  THEN InvalidAggregate(desync, length, trailer) ELSE desync
  <2>1. desync' = d /\ invalidRun' = Counted(invalidRun) /\ forgotten' = forgotten
    BY <1>10 DEF RefuseTransfer
  <2>2. length \in Nat /\ trailer \in [count: Nat, offset: Nat]
    OBVIOUS
  <2>3. CASE Ax88179 /\ length >= TrailerSize
    BY <1>1, <1>3, <2>1, <2>2, <2>3, InvalidAggregateCounted
  <2>4. CASE ~(Ax88179 /\ length >= TrailerSize)
    <3>1. d = desync
      BY <2>4
    <3>2. /\ Counted(invalidRun) \in 0 .. StaleStreak
          /\ desync.streak <= Counted(invalidRun) \/ Counted(invalidRun) = StaleStreak
          /\ invalidRun = StaleStreak => Counted(invalidRun) = StaleStreak
      BY <1>1 DEF Counted
    <3> QED
      BY <1>1, <1>3, <2>1, <3>1, <3>2
  <2> QED
    BY <2>3, <2>4
<1>11. CASE CompleteReceive
  <2>1. ASSUME NEW sent, ReceiveIntact(sent)
        PROVE  Goal
    BY <1>9, <2>1 DEF ReceiveIntact
  <2>2. ASSUME NEW length \in DamagedLengths, NEW trailer \in Trailers,
               ReceiveDamaged(length, trailer)
        PROVE  Goal
    BY <1>9, <1>10, <2>2 DEF ReceiveDamaged
  <2> QED
    BY <1>11, <2>1, <2>2 DEF CompleteReceive, CompleteDamaged
<1>12. CASE ParseNext
  <2>1. PICK seen \in BOOLEAN : /\ desync' = [desync EXCEPT !.frameSeen = seen]
                                /\ desync.frameSeen => seen
    <3>1. PICK h : desync' = [desync EXCEPT !.frameSeen =
                                desync.frameSeen \/ (Ax88179 /\ ~Skipped(h))]
      BY <1>12 DEF ParseNext
    <3>2. (desync.frameSeen \/ (Ax88179 /\ ~Skipped(h))) \in BOOLEAN
      OBVIOUS
    <3> QED
      BY <3>1, <3>2
  <2>2. invalidRun' = invalidRun /\ forgotten' = forgotten
    BY <1>12 DEF ParseNext, ghosts
  <2> DEFINE d == [desync EXCEPT !.frameSeen = seen]
  <2>3. d \in Desyncs /\ d.streak = desync.streak /\ d.draining = desync.draining
        /\ d.frameSeen = seen
    BY <1>1, <2>1 DEF Desyncs
  <2> HIDE DEF d
  <2> QED
    BY <1>1, <1>3, <2>1, <2>2, <2>3 DEF d
<1>13. CASE EndParse \/ CallbackReturns \/ CompleteCancelled \/ Stall \/ Reinitialize \/ ReplayEnds
  BY <1>1, <1>5, <1>13 DEF EndParse, CallbackReturns, CompleteCancelled, Stall, Reinitialize,
       ReplayEnds, ghosts
<1>14. CASE DrainExpires
  <2> DEFINE d == [desync EXCEPT !.expired = TRUE]
  <2>1. desync' = d /\ invalidRun' = invalidRun /\ forgotten' = forgotten
    BY <1>14 DEF DrainExpires, ghosts
  <2>2. d \in Desyncs /\ d.streak = desync.streak /\ d.draining = desync.draining
        /\ d.frameSeen = desync.frameSeen
    BY <1>1 DEF Desyncs
  <2> HIDE DEF d
  <2> QED
    BY <1>1, <1>3, <2>1, <2>2
<1>15. CASE UpdateReceiveFilter \/ StartReceiving
  <2>1. desync' = FreshStart(desync) /\ forgotten' = FALSE /\ invalidRun' = invalidRun
    BY <1>15 DEF UpdateReceiveFilter, StartReceiving
  <2> QED
    BY <1>1, <1>4, <1>8, <2>1
<1>16. CASE RestartReceiving
  <2> DEFINE d == [desync EXCEPT !.draining = FALSE]
  <2>1. /\ desync' = desync \/ desync' = d
        /\ forgotten' \in BOOLEAN /\ invalidRun' = invalidRun /\ Ax88179
    BY <1>1, <1>16 DEF RestartReceiving, Call
  <2>2. d \in Desyncs /\ d.streak = desync.streak /\ ~d.draining
    BY <1>1 DEF Desyncs
  <2> HIDE DEF d
  <2>3. CASE desync' = desync
    BY <1>5, <2>1, <2>3
  <2>4. CASE desync' = d
    BY <1>1, <1>3, <2>1, <2>2, <2>4
  <2> QED
    BY <2>1, <2>3, <2>4
<1>17. CASE Replay \/ DrainTimesOut
  <2>1. desync' = InSync /\ forgotten' = FALSE /\ invalidRun' = invalidRun
    BY <1>17 DEF Replay, DrainTimesOut
  <2> QED
    BY <1>1, <1>4, <1>6, <2>1
<1> QED
  BY <1>11, <1>12, <1>13, <1>14, <1>15, <1>16, <1>17 DEF Next, Parse, Recover

-----------------------------------------------------------------------------
(* The theorems.                                                             *)

LEMMA InitIInv ==
  ASSUME Init
  PROVE  IInv
<1>1. TypeOK
  <2>1. family \in AllFamilies /\ pc = "idle" /\ context = NoContext /\ frames = <<>>
    BY DEF Init
  <2>2. /\ NoContext \in Contexts
        /\ contents \in [intact: BOOLEAN, sent: Seq(Headers), cleared: BOOLEAN]
    BY EmptySeq DEF Init, NoContext, Contexts, Empty
  <2>3. ParserTyped
    BY <2>1, <2>2, EmptySeq DEF ParserTyped
  <2>4. RingTyped
    <3>1. Requests \in 0 .. Requests /\ 0 \in 0 .. MaxCalls
      OBVIOUS
    <3>2. ring = Ring /\ stalled = FALSE /\ calls = 0
      BY DEF Init
    <3> QED
      BY <3>1, <3>2, Zenon DEF Ring, RingTyped
  <2>5. DesyncTyped
    <3>1. <<>> \in Signatures /\ 0 \in 0 .. EscalationStreak /\ 0 \in 0 .. StaleStreak
      BY DEF Signatures
    <3>2. desync = InSync /\ forgotten = FALSE /\ invalidRun = 0
      BY DEF Init
    <3> QED
      BY <3>1, <3>2, Zenon DEF InSync, DesyncTyped, Desyncs
  <2> QED
    BY <2>3, <2>4, <2>5, TypeOKParts
<1> QED
  BY <1>1 DEF Init, IInv, RequestTaken, Parsed, StreakCounted, DrainJustified, InSync

LEMMA StepIInv ==
  ASSUME IInv, [Next]_vars
  PROVE  IInv'
<1>1. CASE Next
  BY <1>1, ParserStep, RingStep, DesyncStep, TypeOKPartsNext DEF IInv
<1>2. CASE UNCHANGED vars
  BY <1>2 DEF vars, parser, ghosts, IInv, TypeOK, RequestTaken, Parsed, TableFits, Inline,
       FramesBehind, StreakCounted, Ax88179, DrainJustified
<1> QED
  BY <1>1, <1>2

LEMMA Invariance == Spec => []IInv
BY InitIInv, StepIInv, PTL DEF Spec

(* All state is of its type, and USB never holds more requests than there    *)
(* are, whatever stops and starts meet a completion.                         *)
THEOREM TypesCorrect == Spec => []TypeOK
<1>1. IInv => TypeOK
  BY DEF IInv
<1> QED
  BY <1>1, Invariance, PTL

LEMMA BoundsImplied ==
  ASSUME IInv
  PROVE  FramesApart /\ ReadsInTransfer
<1>1. /\ family \in AllFamilies /\ context \in Contexts /\ frames \in Seq(Frames) /\ Parsed
  BY TypeOKParts DEF IInv, ParserTyped
<1>2. FramesApart
  <2>1. CASE pc = "idle"
    <3>1. frames = <<>>
      BY <1>1, <2>1 DEF Parsed
    <3> QED
      BY <3>1, EmptySeq DEF FramesApart
  <2>2. CASE pc # "idle"
    <3>1. /\ FramesBehind(frames, context.dataOffset) /\ context.dataOffset <= context.dataEnd
          /\ context.dataEnd <= context.length
      BY <1>1, <2>2 DEF Parsed, TableFits
    <3>2. ASSUME NEW i \in 1 .. Len(frames)
          PROVE  FrameEnd(i) <= context.dataEnd
      <4>1. frames[i] \in Frames
        BY <1>1, ElementOfSeq
      <4>2. FrameEnd(i) <= context.dataOffset
        BY <3>1 DEF FramesBehind, FrameEnd
      <4>3. FrameEnd(i) \in Nat
        BY <4>1 DEF Frames, FrameEnd
      <4>4. context.dataOffset \in Nat /\ context.dataEnd \in Nat
        BY <1>1 DEF Contexts
      <4> QED
        BY <3>1, <4>2, <4>3, <4>4
    <3> QED
      BY <3>1, <3>2 DEF FramesBehind, FramesApart, FrameEnd
  <2> QED
    BY <2>1, <2>2
<1>3. ReadsInTransfer
  <2>1. SUFFICES ASSUME pc # "idle", HasHeader(context)
                 PROVE  HeaderOffset(context) + HeaderSize <= context.length - TrailerSize
    BY <1>1 DEF Parsed, ReadsInTransfer
  <2>2. TableFits(context) /\ context.dataOffset <= context.dataEnd
    BY <1>1, <2>1 DEF Parsed
  <2>3. CASE Inline
    <3>1. context.dataEnd - context.dataOffset >= HeaderSize /\ TrailerSize = 0
          /\ HeaderOffset(context) = context.dataOffset /\ HeaderSize \in Nat
      BY <2>1, <2>3 DEF HasHeader, Remaining, TrailerSize, HeaderOffset, HeaderSize, Inline
    <3> QED
      BY <1>1, <2>2, <2>3, <3>1 DEF TableFits, Contexts
  <2>4. CASE family = "AX88179"
    <3>1. ~Inline /\ HeaderSize = 4
      BY <2>4 DEF Inline, HeaderSize
    <3>2. context.metadataIndex < context.metadataCount
      BY <2>1, <2>4, <3>1 DEF HasHeader
    <3>3. context.dataEnd + 4 * context.metadataCount <= context.length - 4
      BY <2>2, <2>4 DEF TableFits
    <3> QED
      BY <1>1, <3>1, <3>2, <3>3 DEF HeaderOffset, TrailerSize, Contexts
  <2>5. CASE family \in {"AX179A", "AX279"}
    <3>1. ~Inline /\ HeaderSize = 8
      BY <2>5 DEF Inline, HeaderSize
    <3>2. context.dataEnd + 8 * (context.metadataIndex + 1) <= context.length - 8
      BY <2>1, <2>5, <3>1 DEF HasHeader
    <3> QED
      BY <1>1, <3>1, <3>2 DEF HeaderOffset, TrailerSize, Contexts
  <2> QED
    BY <1>1, <2>3, <2>4, <2>5 DEF AllFamilies, AX88179Families, Inline
<1> QED
  BY <1>2, <1>3

(* Whatever bytes arrive, every frame handed to users lies in the packets'   *)
(* part of the transfer and apart from the others.                           *)
THEOREM FramesStayApart == Spec => []FramesApart
BY Invariance, BoundsImplied, PTL

(* Whatever lengths and tables a transfer claims, no header is read outside  *)
(* it, and the count of bytes left never wraps.                              *)
THEOREM ReadsStayInTransfer == Spec => []ReadsInTransfer
BY Invariance, BoundsImplied, PTL

(* A stream is only ever marked as stale by invalid transfers in a row, from *)
(* an adapter that has worked.                                               *)
THEOREM DrainsAreJustified == Spec => []DrainJustified
<1>1. IInv => DrainJustified
  BY DEF IInv
<1> QED
  BY <1>1, Invariance, PTL
=============================================================================
