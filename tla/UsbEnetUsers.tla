---------------------------- MODULE UsbEnetUsers ----------------------------
(***************************************************************************)
(* The users of CUsbEnet (CNicUser objects): attaching and detaching them, *)
(* delivering received frames to them, and telling them of link changes.   *)
(* Callbacks run without NicLock; two flags stand in for it.  A step is    *)
(* what runs between taking and releasing the lock, or one callback.       *)
(***************************************************************************)
EXTENDS Naturals, FiniteSets

CONSTANTS
  Users,           \* CNicUser objects, each with the thread that attaches and detaches it
  Destinations,    \* NIC_RECV_DEST values
  Mask,            \* [Users -> SUBSET Destinations]: ReceiveFilterMask
  Contexts,        \* DPCs that complete USB transfers, on any processor
  Rx,              \* the one that completes bulk receives
  RecvPackets,     \* the receive ring
  NoPacket,
  MaxNotifyUsers,  \* 16 in the source: the size of the arrays of users to call
  MaxLinkChanges,  \* bound: link changes in a behaviour
  MaxAttaches      \* bound: attach calls in a behaviour

ASSUME UsersAssumption ==
  /\ IsFiniteSet(Users)
  /\ Mask \in [Users -> SUBSET Destinations]
  /\ Rx \in Contexts
  /\ NoPacket \notin RecvPackets
  /\ MaxNotifyUsers \in Nat \ {0}
  /\ MaxLinkChanges \in Nat
  /\ MaxAttaches \in Nat

VARIABLES
  callback,      \* CALLBACK_IN_PROGRESS: receive callbacks are running
  linkCallback,  \* 00100000: link-state callbacks are running
  notifyAgain,   \* NOTIFY_LINK_STATE
  closing,       \* RESETTING or STOPPING
  userList,      \* m_UserList
  aggregate,     \* AggregateReceiveFilter
  linkUp,        \* LinkState has NIC_LINK_STATE_ACTIVE
  pc,            \* each context: "idle", "receiving", "notify" or "linkCallback"
  todo,          \* each context: the users it has still to call
  packet,        \* the receive request being processed
  inFlight,      \* receive requests that USB has
  upc,           \* each user's thread: "idle", "attached", "attachCallback" or "detaching"
  seen,          \* the link state each user was last told
  linkChanges, attaches   \* counters of the bounds

flags == <<callback, linkCallback, notifyAgain, closing>>
list  == <<userList, aggregate>>
ring  == <<packet, inFlight>>
count == <<linkChanges, attaches>>
vars  == <<flags, list, linkUp, pc, todo, ring, upc, seen, count>>

CallbackActive == callback \/ linkCallback

Union(users) == UNION {Mask[u] : u \in users}

-----------------------------------------------------------------------------
(* CompleteReceive.                                                          *)

Recipients(destination) == {u \in userList : destination \in Mask[u]}

(* The users a walk of the list copies to an array.                          *)
Copied(users, copy) ==
  /\ copy \subseteq users
  /\ copy # users => Cardinality(copy) = MaxNotifyUsers /\ MaxNotifyUsers < Cardinality(users)

(* A frame has users to go to, and no link-state callback is running: call   *)
(* them without the lock.                                                    *)
Deliver(destination) ==
  /\ ~linkCallback
  /\ Recipients(destination) # {}
  /\ callback' = TRUE
  /\ pc' = [pc EXCEPT ![Rx] = "receiving"]
  /\ \E copy \in SUBSET Users :
       /\ Copied(Recipients(destination), copy)
       /\ todo' = [todo EXCEPT ![Rx] = copy]

EndReceiveQuietly(p) ==   \* mutant
  /\ inFlight' = IF closing THEN inFlight \ {p} ELSE inFlight \cup {p}
  /\ packet' = NoPacket
  /\ callback' = FALSE
  /\ pc' = [pc EXCEPT ![Rx] = "idle"]

(* No more frames: resubmit the request, and pass on a link change that came *)
(* during the callbacks.                                                     *)
EndReceive(p) ==
  /\ inFlight' = IF closing THEN inFlight \ {p} ELSE inFlight \cup {p}
  /\ packet' = NoPacket
  /\ callback' = FALSE
  /\ pc' = [pc EXCEPT ![Rx] = IF notifyAgain THEN "notify" ELSE "idle"]

(* A receive completes, with a frame for some user, or with none (or only    *)
(* discarded ones, or an error).                                             *)
CompleteReceive(p) ==
  /\ pc[Rx] = "idle" /\ p \in inFlight
  /\ \/ /\ \E destination \in Destinations : Deliver(destination)
        /\ packet' = p
        /\ inFlight' = inFlight \ {p}
     \/ EndReceive(p) /\ UNCHANGED todo
  /\ UNCHANGED <<linkCallback, notifyAgain, closing, list, linkUp, upc, seen, count>>

NotifyReceive(u) ==
  /\ pc[Rx] = "receiving" /\ u \in todo[Rx]
  /\ todo' = [todo EXCEPT ![Rx] = @ \ {u}]
  /\ UNCHANGED <<flags, list, linkUp, pc, ring, upc, seen, count>>

(* Back from the callbacks, with the lock: the next frame, or the end.       *)
ContinueReceive ==
  /\ pc[Rx] = "receiving" /\ todo[Rx] = {}
  /\ \/ /\ \E destination \in Destinations : Deliver(destination)
        /\ UNCHANGED ring
     \/ EndReceive(packet) /\ UNCHANGED todo
  /\ UNCHANGED <<linkCallback, notifyAgain, closing, list, linkUp, upc, seen, count>>

-----------------------------------------------------------------------------
(* NotifyLinkStateChangedToUsers.                                            *)

(* A control or interrupt completion finds another link state.               *)
LinkStateChanges(c) ==
  /\ pc[c] = "idle" /\ c # Rx /\ ~closing
  /\ linkChanges < MaxLinkChanges
  /\ linkChanges' = linkChanges + 1
  /\ linkUp' = ~linkUp
  /\ pc' = [pc EXCEPT ![c] = "notify"]
  /\ UNCHANGED <<flags, list, todo, ring, upc, seen, attaches>>

(* Nothing to do when closing; somebody else's callbacks are running, and    *)
(* whoever runs them will notify; or there is nobody to tell.                *)
NotifyPutOff(c) ==
  /\ pc[c] = "notify"
  /\ closing \/ CallbackActive \/ userList = {}
  /\ notifyAgain' = (~closing /\ CallbackActive)
  /\ pc' = [pc EXCEPT ![c] = "idle"]
  /\ UNCHANGED <<callback, linkCallback, closing, list, linkUp, todo, ring, upc, seen, count>>

NotifyBeginsAnyway(c) ==   \* mutant
  /\ pc[c] = "notify" /\ ~closing /\ ~linkCallback /\ userList # {}
  /\ notifyAgain' = FALSE
  /\ linkCallback' = TRUE
  /\ \E copy \in SUBSET Users :
       /\ Copied(userList, copy)
       /\ todo' = [todo EXCEPT ![c] = copy]
  /\ pc' = [pc EXCEPT ![c] = "linkCallback"]
  /\ UNCHANGED <<callback, closing, list, linkUp, ring, upc, seen, count>>

NotifyBegins(c) ==
  /\ pc[c] = "notify" /\ ~closing /\ ~CallbackActive /\ userList # {}
  /\ notifyAgain' = FALSE
  /\ linkCallback' = TRUE
  /\ \E copy \in SUBSET Users :
       /\ Copied(userList, copy)
       /\ todo' = [todo EXCEPT ![c] = copy]
  /\ pc' = [pc EXCEPT ![c] = "linkCallback"]
  /\ UNCHANGED <<callback, closing, list, linkUp, ring, upc, seen, count>>

NotifyLinkStateChanged(c, u) ==
  /\ pc[c] = "linkCallback" /\ u \in todo[c]
  /\ todo' = [todo EXCEPT ![c] = @ \ {u}]
  /\ seen' = [seen EXCEPT ![u] = linkUp]
  /\ UNCHANGED <<flags, list, linkUp, pc, ring, upc, count>>

NotifyEndsOnce(c) ==   \* mutant
  /\ pc[c] = "linkCallback" /\ todo[c] = {}
  /\ linkCallback' = notifyAgain
  /\ pc' = [pc EXCEPT ![c] = IF notifyAgain THEN "notify" ELSE "idle"]
  /\ UNCHANGED <<callback, notifyAgain, closing, list, linkUp, todo, ring, upc, seen, count>>

(* Back from the callbacks: once more if the link changed meanwhile.         *)
NotifyEnds(c) ==
  /\ pc[c] = "linkCallback" /\ todo[c] = {}
  /\ linkCallback' = FALSE
  /\ pc' = [pc EXCEPT ![c] = IF notifyAgain THEN "notify" ELSE "idle"]
  /\ UNCHANGED <<callback, notifyAgain, closing, list, linkUp, todo, ring, upc, seen, count>>

-----------------------------------------------------------------------------
(* NicAttachUser and NicDetachUser, at PASSIVE_LEVEL.                        *)

(* While callbacks run the call returns without effect.                      *)
NicAttachUser(u) ==
  /\ upc[u] = "idle" /\ attaches < MaxAttaches
  /\ ~CallbackActive
  /\ attaches' = attaches + 1
  /\ userList' = userList \cup {u}
  /\ aggregate' = IF u \in userList THEN aggregate ELSE aggregate \cup Mask[u]
  /\ seen' = [seen EXCEPT ![u] = u \in userList /\ @]
  /\ upc' = [upc EXCEPT ![u] = "attached"]
  /\ UNCHANGED <<flags, linkUp, pc, todo, ring, linkChanges>>

(* The lock is free again; the link is up: call the user back.               *)
AttachNotifies(u) ==
  /\ upc[u] = "attached" /\ linkUp
  /\ upc' = [upc EXCEPT ![u] = "attachCallback"]
  /\ UNCHANGED <<flags, list, linkUp, pc, todo, ring, seen, count>>

AttachReturns(u) ==
  /\ \/ upc[u] = "attached" /\ ~linkUp /\ UNCHANGED seen
     \/ upc[u] = "attachCallback" /\ seen' = [seen EXCEPT ![u] = linkUp]
  /\ upc' = [upc EXCEPT ![u] = "idle"]
  /\ UNCHANGED <<flags, list, linkUp, pc, todo, ring, count>>

BeginDetach(u) ==
  /\ upc[u] = "idle" /\ u \in userList
  /\ upc' = [upc EXCEPT ![u] = "detaching"]
  /\ UNCHANGED <<flags, list, linkUp, pc, todo, ring, seen, count>>

NicDetachUserDuringReceive(u) ==   \* mutant
  /\ upc[u] = "detaching" /\ ~linkCallback
  /\ userList' = userList \ {u}
  /\ aggregate' = Union(userList \ {u})
  /\ upc' = [upc EXCEPT ![u] = "idle"]
  /\ UNCHANGED <<flags, linkUp, pc, todo, ring, seen, count>>

NicDetachUserSubtracting(u) ==   \* mutant
  /\ upc[u] = "detaching" /\ ~CallbackActive
  /\ userList' = userList \ {u}
  /\ aggregate' = aggregate \ Mask[u]
  /\ upc' = [upc EXCEPT ![u] = "idle"]
  /\ UNCHANGED <<flags, linkUp, pc, todo, ring, seen, count>>

(* The call polls until no callbacks run.                                    *)
NicDetachUser(u) ==
  /\ upc[u] = "detaching" /\ ~CallbackActive
  /\ userList' = userList \ {u}
  /\ aggregate' = Union(userList \ {u})
  /\ upc' = [upc EXCEPT ![u] = "idle"]
  /\ UNCHANGED <<flags, linkUp, pc, todo, ring, seen, count>>

-----------------------------------------------------------------------------
(* BeginRemove and BeginPowerDownAndClose call the users under the lock.     *)
BeginClose ==
  /\ ~closing
  /\ closing' = TRUE
  /\ linkUp' = FALSE
  /\ seen' = [u \in Users |-> IF u \in userList THEN FALSE ELSE seen[u]]
  /\ UNCHANGED <<callback, linkCallback, notifyAgain, list, pc, todo, ring, upc, count>>

-----------------------------------------------------------------------------

(* The ring is submitted and no user is attached yet.                        *)
Init ==
  /\ callback = FALSE /\ linkCallback = FALSE /\ notifyAgain = FALSE /\ closing = FALSE
  /\ userList = {} /\ aggregate = {} /\ linkUp = FALSE
  /\ pc = [c \in Contexts |-> "idle"]
  /\ todo = [c \in Contexts |-> {}]
  /\ packet = NoPacket /\ inFlight = RecvPackets
  /\ upc = [u \in Users |-> "idle"]
  /\ seen = [u \in Users |-> FALSE]
  /\ linkChanges = 0 /\ attaches = 0

Receive == ContinueReceive \/ \E u \in Users : NotifyReceive(u)

Notify(c) == \/ NotifyPutOff(c) \/ NotifyBegins(c) \/ NotifyEnds(c)
             \/ \E u \in Users : NotifyLinkStateChanged(c, u)

AttachOrDetach(u) == AttachNotifies(u) \/ AttachReturns(u) \/ NicDetachUser(u)

Next ==
  \/ \E p \in RecvPackets : CompleteReceive(p)
  \/ Receive
  \/ \E c \in Contexts : LinkStateChanges(c) \/ Notify(c)
  \/ \E u \in Users : NicAttachUser(u) \/ BeginDetach(u) \/ AttachOrDetach(u)
  \/ BeginClose

Spec == Init /\ [][Next]_vars

(* Callbacks return and DPCs run to their end; frames do not arrive without  *)
(* a pause in one request, whose buffer is finite; a detach that polls every *)
(* millisecond meets a moment without callbacks.                             *)
Fairness ==
  /\ WF_vars(Receive)
  /\ SF_vars(ContinueReceive /\ pc'[Rx] # "receiving")
  /\ \A c \in Contexts : WF_vars(Notify(c))
  /\ \A u \in Users : WF_vars(AttachNotifies(u) \/ AttachReturns(u)) /\ SF_vars(NicDetachUser(u))

FairSpec == Spec /\ Fairness

-----------------------------------------------------------------------------
(* Properties.                                                               *)

(* The variables hold values of their types.                                 *)
TypeOK ==
  /\ callback \in BOOLEAN /\ linkCallback \in BOOLEAN
  /\ notifyAgain \in BOOLEAN /\ closing \in BOOLEAN
  /\ userList \subseteq Users /\ aggregate \subseteq Destinations /\ linkUp \in BOOLEAN
  /\ pc \in [Contexts -> {"idle", "receiving", "notify", "linkCallback"}]
  /\ todo \in [Contexts -> SUBSET Users]
  /\ packet \in RecvPackets \cup {NoPacket} /\ inFlight \subseteq RecvPackets
  /\ upc \in [Users -> {"idle", "attached", "attachCallback", "detaching"}]
  /\ seen \in [Users -> BOOLEAN]
  /\ linkChanges \in 0 .. MaxLinkChanges /\ attaches \in 0 .. MaxAttaches

(* The flags are as good as a lock: receive callbacks and the link-state     *)
(* callbacks of NotifyLinkStateChangedToUsers never run at the same time,    *)
(* and no two processors run link-state callbacks at once.                   *)
CallbacksExclusive ==
  /\ pc[Rx] = "receiving" => \A c \in Contexts : pc[c] # "linkCallback"
  /\ \A c, d \in Contexts : pc[c] = "linkCallback" /\ pc[d] = "linkCallback" => c = d

(* Once NicDetachUser has returned TRUE (and the kernel frees the object) no *)
(* processor still holds the user among those it is going to call.           *)
NoCallbackAfterDetach == \A c \in Contexts : todo[c] \subseteq userList

(* However users with overlapping masks come and go, the filter asked of the *)
(* adapter is what the attached users want, no more and no less.             *)
FilterIsUnion == aggregate = Union(userList)

(* When the link has stopped changing, every attached user of an open device *)
(* comes to know its state, also if the change came during callbacks.        *)
LinkStateDelivered ==
  \A u \in Users : <>[](u \in userList /\ ~closing => seen[u] = linkUp)

(* A detach does not poll for ever.                                          *)
DetachReturns == \A u \in Users : upc[u] = "detaching" ~> upc[u] = "idle"
=============================================================================
