--------------------------- MODULE UsbEnetControl ---------------------------
(***************************************************************************)
(* The control channel of CUsbEnet: one USB control request that the init  *)
(* sequence, the timers, the link interrupt and the option calls of users  *)
(* share, and the kernel event (ControlEvent) on which a user thread waits *)
(* for its turn and for its result.  A device is a record d; an operator   *)
(* maps it to the record that a function of the driver, called under       *)
(* NicLock, leaves behind.                                                 *)
(***************************************************************************)
EXTENDS Naturals, Sequences, FiniteSets

CONSTANTS
  Threads,    \* threads that call NicDoGetOpt and NicDoSetOpt
  Registers,  \* PHY registers they ask for
  NoRequest   \* no control request is outstanding

ASSUME ControlAssumption ==
  /\ IsFiniteSet(Threads)
  /\ Registers \subseteq Nat /\ Registers # {}

ControlFields == [
  canUserTransfer    |-> FALSE,      \* CAN_USER_TRANSFER: a request is outstanding
  transferInProgress |-> FALSE,      \* TRANSFER_IN_PROGRESS: a user waits for its turn
  active             |-> FALSE,      \* ACTIVE: a user owns the request
  closing            |-> FALSE,      \* RESETTING or STOPPING
  request            |-> NoRequest,  \* ControlRequest
  onUsb              |-> FALSE,      \* past the DPC: the USB stack has the request
  signalled          |-> FALSE,      \* ControlEvent.SignalState
  waiters            |-> <<>>,       \* ControlEvent.WaitListHead
  woken              |-> {} ]        \* threads whose wait was satisfied

UserWaits(d) == d.transferInProgress \/ d.active

-----------------------------------------------------------------------------
(* The event is a SynchronizationEvent: a set satisfies the first waiter, or *)
(* else leaves the event signalled for the next one to wait.                 *)

KeSetEvent(d) ==
  IF d.waiters = <<>>
  THEN [d EXCEPT !.signalled = TRUE]
  ELSE [d EXCEPT !.waiters = Tail(@), !.woken = @ \cup {Head(d.waiters)}]

KeResetEvent(d) == [d EXCEPT !.signalled = FALSE]

KeWaitForSingleObject(d, t) ==
  IF d.signalled
  THEN [d EXCEPT !.signalled = FALSE, !.woken = @ \cup {t}]
  ELSE [d EXCEPT !.waiters = Append(@, t)]

-----------------------------------------------------------------------------
(* The one control request.                                                  *)

CanQueueControlTransfer(d) == ~d.closing /\ ~d.canUserTransfer

(* To be used where CanQueueControlTransfer holds; elsewhere the function    *)
(* returns an error and changes nothing.                                     *)
QueueControlTransfer(d, request) ==
  LET r == IF UserWaits(d) THEN KeResetEvent(d) ELSE d
  IN  [r EXCEPT !.canUserTransfer = TRUE, !.request = request, !.onUsb = FALSE]

CompleteControlTransferActiveOnly(d) ==      \* mutant
  LET c == [d EXCEPT !.canUserTransfer = FALSE, !.request = NoRequest, !.onUsb = FALSE]
  IN  IF d.active THEN KeSetEvent(c) ELSE c

CompleteControlTransfer(d) ==
  LET c == [d EXCEPT !.canUserTransfer = FALSE, !.request = NoRequest, !.onUsb = FALSE]
  IN  IF UserWaits(d) THEN KeSetEvent(c) ELSE c

(* The DPC hands the request to USB, or completes it as cancelled.           *)
ControlDpcPending(d) == d.canUserTransfer /\ ~d.onUsb

-----------------------------------------------------------------------------
(* A user thread takes its turn (PrepareForUserControlTransfer): it is       *)
(* refused, waits, or owns the channel.                                      *)

UserRefused(d)  == d.closing \/ (d.canUserTransfer /\ d.transferInProgress)
UserMustWait(d) == ~UserRefused(d) /\ d.canUserTransfer
UserMayBegin(d) == ~d.closing /\ ~d.canUserTransfer

AwaitTurn(d)  == [d EXCEPT !.transferInProgress = TRUE]
(* The thread is back from its wait for a turn and has the lock.             *)
TurnOver(d, t) == [d EXCEPT !.transferInProgress = FALSE, !.woken = @ \ {t}]
BeginUserControlTransfer(d) == [d EXCEPT !.active = TRUE]
AbortUserControlTransfer(d) == [d EXCEPT !.active = FALSE]
(* The thread is back from its wait for the result and has the lock.         *)
ResultTaken(d, t) == [d EXCEPT !.active = FALSE, !.woken = @ \ {t}]
=============================================================================
