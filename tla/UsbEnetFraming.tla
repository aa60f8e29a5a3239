--------------------------- MODULE UsbEnetFraming ---------------------------
(***************************************************************************)
(* The transmit framing of the four chipset backends, as the numbers the   *)
(* transmit path of CUsbEnet.cpp gets back from AppendTransmitFrame: how   *)
(* many bytes a frame adds to the USB transfer, how many of them the       *)
(* driver accounts to the frame, and whether a terminator follows.  Bytes  *)
(* themselves are abstracted away.                                         *)
(***************************************************************************)
EXTENDS Integers

CONSTANTS
  Chipset,                 \* the backend behind g_UsbEnetChipset
  TransmitMaxPacketSize,   \* wMaxPacketSize of the bulk-out endpoint, 0 if unknown
  XmitBufferSize,          \* capacity of the DMA buffer of one tracker
  MaximumAggregateSize     \* limit of AX88178 and RTL8153 on an aggregate

Chipsets == {"AX88178", "AX88179", "AX179A", "RTL8153"}

ASSUME FramingAssumption ==
  /\ Chipset \in Chipsets
  /\ TransmitMaxPacketSize \in Nat
  /\ XmitBufferSize \in Nat \ {0}
  /\ XmitBufferSize % 8 = 0
  /\ MaximumAggregateSize \in Nat
  /\ MaximumAggregateSize + 4 <= XmitBufferSize

SupportsTransmitAggregation == Chipset # "AX88179"

GetMaximumFrameSize ==
  IF Chipset = "AX88178" THEN 1518 ELSE IF Chipset = "RTL8153" THEN 1522 ELSE 4092

GetTransmitHeaderSize == IF Chipset = "AX88178" THEN 4 ELSE 8

GetTransmitTerminatorSize ==
  IF Chipset = "AX88178" THEN 4 ELSE IF Chipset = "AX179A" THEN 8 ELSE 0

MaximumAggregateNoTerminator == XmitBufferSize   \* mutant: no room for a terminator

GetMaximumAggregateTransferSize ==
  IF Chipset = "AX179A" THEN XmitBufferSize - 8
  ELSE IF Chipset = "AX88179" THEN XmitBufferSize - 3
  ELSE MaximumAggregateSize

-----------------------------------------------------------------------------
Multiple(n, k) == k # 0 /\ n % k = 0

RoundUp(n, k) == n + ((k - (n % k)) % k)

(* Zero bytes written before the record.  AX88179 and RTL8153 align the      *)
(* start of a record to 4; the AX179A family pads its end to 8 instead.      *)
LeadingPadding(offset) ==
  IF Chipset \in {"AX88179", "RTL8153"} THEN RoundUp(offset, 4) - offset ELSE 0

(* Bytes a frame needs behind AggregateOffset, without a terminator.         *)
Required(offset, length) ==
  IF Chipset = "AX179A" THEN RoundUp(GetTransmitHeaderSize + length, 8)
  ELSE LeadingPadding(offset) + GetTransmitHeaderSize + length

(* AX88178 and the AX179A family end a transfer that is a whole number of    *)
(* packets with a terminator record.                                         *)
NeedsTerminator(offset, length) ==
  /\ Chipset \in {"AX88178", "AX179A"}
  /\ Multiple(offset + Required(offset, length), TransmitMaxPacketSize)

BytesWritten(offset, length) ==
  Required(offset, length)
    + (IF NeedsTerminator(offset, length) THEN GetTransmitTerminatorSize ELSE 0)

(* Mutant: the terminator is accounted to the frame.                         *)
FramedLengthTerminated(offset, length) == BytesWritten(offset, length)

(* The length recorded in the frame's descriptor: all it added to the        *)
(* transfer, except for RTL8153, which reports the frame without its header. *)
FramedLength(offset, length) ==
  IF Chipset = "RTL8153" THEN length ELSE Required(offset, length)

FrameAppended(offset, length) ==
  /\ BytesWritten(offset, length) <= XmitBufferSize - offset
  /\ Chipset = "RTL8153" => length # 0
=============================================================================
