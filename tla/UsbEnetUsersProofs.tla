------------------------- MODULE UsbEnetUsersProofs -------------------------
(***************************************************************************)
(* For any number of users, masks, processors and receive requests: the    *)
(* two flags of UsbEnetUsers keep callbacks apart, and no processor calls  *)
(* a user that has been detached.                                          *)
(***************************************************************************)
EXTENDS UsbEnetUsers, TLAPS

(* Each flag says where its owner is, and the two exclude each other.        *)
FlagsTell ==
  /\ callback <=> pc[Rx] = "receiving"
  /\ \A c \in Contexts : pc[c] = "receiving" => c = Rx
  /\ \A c \in Contexts : pc[c] = "linkCallback" => linkCallback
  /\ ~(callback /\ linkCallback)
  /\ \A c, d \in Contexts : pc[c] = "linkCallback" /\ pc[d] = "linkCallback" => c = d

(* Only a context that runs callbacks has users to call, and they are        *)
(* attached.                                                                 *)
ToCallAttached ==
  \A c \in Contexts :
    /\ todo[c] \subseteq userList
    /\ todo[c] # {} => pc[c] \in {"receiving", "linkCallback"}

Inv == TypeOK /\ FlagsTell /\ ToCallAttached

(* When nobody runs callbacks nobody has a user left to call.                *)
LEMMA NobodyToCall ==
  ASSUME FlagsTell, ToCallAttached, ~CallbackActive, NEW c \in Contexts
  PROVE  todo[c] = {}
<1>1. pc[c] # "linkCallback"
  BY DEF FlagsTell, CallbackActive
<1>2. pc[c] # "receiving"
  <2>1. pc[Rx] # "receiving"
    BY DEF FlagsTell, CallbackActive
  <2> QED
    BY <2>1 DEF FlagsTell
<1> QED
  BY <1>1, <1>2 DEF ToCallAttached

-----------------------------------------------------------------------------
(* Types.                                                                    *)

(* While its callbacks run, the receive context holds a request to resubmit. *)
PacketHeld == pc[Rx] = "receiving" => packet \in RecvPackets

LEMMA InitTyped == Init => TypeOK
<1> SUFFICES ASSUME Init PROVE TypeOK
  OBVIOUS
<1> USE DEF Init
<1>1. /\ callback \in BOOLEAN /\ linkCallback \in BOOLEAN
      /\ notifyAgain \in BOOLEAN /\ closing \in BOOLEAN /\ linkUp \in BOOLEAN
  OBVIOUS
<1>2. userList \subseteq Users /\ aggregate \subseteq Destinations
  OBVIOUS
<1>3. pc \in [Contexts -> {"idle", "receiving", "notify", "linkCallback"}]
  OBVIOUS
<1>4. todo \in [Contexts -> SUBSET Users]
  OBVIOUS
<1>5. packet \in RecvPackets \cup {NoPacket} /\ inFlight \subseteq RecvPackets
  OBVIOUS
<1>6. upc \in [Users -> {"idle", "attached", "attachCallback", "detaching"}]
  OBVIOUS
<1>7. seen \in [Users -> BOOLEAN]
  OBVIOUS
<1>8. linkChanges \in 0 .. MaxLinkChanges /\ attaches \in 0 .. MaxAttaches
  BY UsersAssumption
<1> QED
  BY <1>1, <1>2, <1>3, <1>4, <1>5, <1>6, <1>7, <1>8 DEF TypeOK

(* However the users come and go, every variable keeps a value of its type.  *)
THEOREM TypeCorrect == Spec => []TypeOK
<1>1. Init => TypeOK
  BY InitTyped
<1>2. Init => PacketHeld
  BY UsersAssumption DEF Init, PacketHeld
<1>3. TypeOK /\ PacketHeld /\ [Next]_vars => TypeOK'
  <2> SUFFICES ASSUME TypeOK, PacketHeld, [Next]_vars
               PROVE  TypeOK'
    OBVIOUS
  <2> USE UsersAssumption DEF TypeOK, PacketHeld
  <2>1. ASSUME NEW p \in RecvPackets, CompleteReceive(p)
        PROVE  TypeOK'
    BY <2>1 DEF CompleteReceive, Deliver, EndReceive, list, count
  <2>2. ASSUME ContinueReceive
        PROVE  TypeOK'
    BY <2>2 DEF ContinueReceive, Deliver, EndReceive, list, count, ring
  <2>3. ASSUME NEW u \in Users, NotifyReceive(u)
        PROVE  TypeOK'
    BY <2>3 DEF NotifyReceive, flags, list, ring, count
  <2>4. ASSUME NEW c \in Contexts, LinkStateChanges(c)
        PROVE  TypeOK'
    BY <2>4 DEF LinkStateChanges, flags, list, ring
  <2>5. ASSUME NEW c \in Contexts, NotifyPutOff(c)
        PROVE  TypeOK'
    <3>1. notifyAgain' \in BOOLEAN
      <4>1. notifyAgain' = (~closing /\ CallbackActive)
        BY <2>5 DEF NotifyPutOff
      <4>2. (~closing /\ CallbackActive) \in BOOLEAN
        BY Zenon
      <4> QED
        BY <4>1, <4>2, Zenon
    <3>2. pc' \in [Contexts -> {"idle", "receiving", "notify", "linkCallback"}]
      BY <2>5 DEF NotifyPutOff
    <3>3. UNCHANGED <<callback, linkCallback, closing, list, linkUp, todo, ring, upc, seen, count>>
      BY <2>5 DEF NotifyPutOff
    <3> QED
      BY <3>1, <3>2, <3>3 DEF list, ring, count
  <2>6. ASSUME NEW c \in Contexts, NotifyBegins(c)
        PROVE  TypeOK'
    BY <2>6 DEF NotifyBegins, list, ring, count
  <2>7. ASSUME NEW c \in Contexts, NotifyEnds(c)
        PROVE  TypeOK'
    BY <2>7 DEF NotifyEnds, list, ring, count
  <2>8. ASSUME NEW c \in Contexts, NEW u \in Users, NotifyLinkStateChanged(c, u)
        PROVE  TypeOK'
    BY <2>8 DEF NotifyLinkStateChanged, flags, list, ring, count
  <2>9. ASSUME NEW u \in Users, NicAttachUser(u)
        PROVE  TypeOK'
    BY <2>9 DEF NicAttachUser, flags, ring
  <2>10. ASSUME NEW u \in Users, AttachNotifies(u) \/ AttachReturns(u) \/ BeginDetach(u)
         PROVE  TypeOK'
    BY <2>10 DEF AttachNotifies, AttachReturns, BeginDetach, flags, list, ring, count
  <2>11. ASSUME NEW u \in Users, NicDetachUser(u)
         PROVE  TypeOK'
    BY <2>11 DEF NicDetachUser, Union, flags, ring, count
  <2>12. CASE BeginClose
    BY <2>12 DEF BeginClose, list, ring, count
  <2>13. CASE UNCHANGED vars
    BY <2>13 DEF vars, flags, list, ring, count
  <2> QED
    BY <2>1, <2>2, <2>3, <2>4, <2>5, <2>6, <2>7, <2>8, <2>9, <2>10, <2>11, <2>12, <2>13
    DEF Next, Receive, Notify, AttachOrDetach
<1>4. TypeOK /\ PacketHeld /\ [Next]_vars => PacketHeld'
  <2> SUFFICES ASSUME TypeOK, PacketHeld, [Next]_vars
               PROVE  PacketHeld'
    OBVIOUS
  <2> USE UsersAssumption DEF TypeOK, PacketHeld
  <2>1. ASSUME NEW p \in RecvPackets, CompleteReceive(p)
        PROVE  PacketHeld'
    BY <2>1 DEF CompleteReceive, Deliver, EndReceive
  <2>2. ASSUME ContinueReceive
        PROVE  PacketHeld'
    BY <2>2 DEF ContinueReceive, Deliver, EndReceive, ring
  <2>3. ASSUME NEW c \in Contexts, LinkStateChanges(c) \/ NotifyPutOff(c)
        PROVE  PacketHeld'
    BY <2>3 DEF LinkStateChanges, NotifyPutOff, ring
  <2>4. ASSUME NEW c \in Contexts, NotifyBegins(c) \/ NotifyEnds(c)
        PROVE  PacketHeld'
    BY <2>4 DEF NotifyBegins, NotifyEnds, ring
  <2>5. ASSUME UNCHANGED <<pc, ring>>
        PROVE  PacketHeld'
    BY <2>5 DEF ring
  <2> QED
    BY <2>1, <2>2, <2>3, <2>4, <2>5
    DEF Next, Receive, Notify, AttachOrDetach, vars, NotifyReceive, NotifyLinkStateChanged,
        NicAttachUser, NicDetachUser, AttachNotifies, AttachReturns, BeginDetach, BeginClose
<1> QED
  BY <1>1, <1>2, <1>3, <1>4, PTL DEF Spec

-----------------------------------------------------------------------------
(* Mutual exclusion of the callbacks.                                        *)

LEMMA InvInit == Init => Inv
<1> SUFFICES ASSUME Init PROVE Inv
  OBVIOUS
<1>1. TypeOK
  BY InitTyped
<1>2. FlagsTell
  BY UsersAssumption DEF Init, FlagsTell
<1>3. ToCallAttached
  BY DEF Init, ToCallAttached
<1> QED
  BY <1>1, <1>2, <1>3 DEF Inv

LEMMA FlagsStep ==
  ASSUME TypeOK, FlagsTell, Next
  PROVE  FlagsTell'
<1> USE UsersAssumption DEF TypeOK, FlagsTell
<1>1. ASSUME NEW p \in RecvPackets, CompleteReceive(p)
      PROVE  FlagsTell'
  BY <1>1 DEF CompleteReceive, Deliver, EndReceive
<1>2. ASSUME ContinueReceive
      PROVE  FlagsTell'
  BY <1>2 DEF ContinueReceive, Deliver, EndReceive
<1>3. ASSUME NEW u \in Users, NotifyReceive(u)
      PROVE  FlagsTell'
  BY <1>3 DEF NotifyReceive, flags
<1>4. ASSUME NEW c \in Contexts, LinkStateChanges(c)
      PROVE  FlagsTell'
  BY <1>4 DEF LinkStateChanges, flags
<1>5. ASSUME NEW c \in Contexts, NotifyPutOff(c)
      PROVE  FlagsTell'
  BY <1>5 DEF NotifyPutOff
<1>6. ASSUME NEW c \in Contexts, NotifyBegins(c)
      PROVE  FlagsTell'
  BY <1>6 DEF NotifyBegins, CallbackActive
<1>7. ASSUME NEW c \in Contexts, NotifyEnds(c)
      PROVE  FlagsTell'
  BY <1>7 DEF NotifyEnds
<1>8. ASSUME NEW c \in Contexts, NEW u \in Users, NotifyLinkStateChanged(c, u)
      PROVE  FlagsTell'
  BY <1>8 DEF NotifyLinkStateChanged, flags
<1>9. ASSUME NEW u \in Users, NicAttachUser(u) \/ NicDetachUser(u)
      PROVE  FlagsTell'
  BY <1>9 DEF NicAttachUser, NicDetachUser, flags
<1>10. ASSUME NEW u \in Users, AttachNotifies(u) \/ AttachReturns(u) \/ BeginDetach(u)
       PROVE  FlagsTell'
  BY <1>10 DEF AttachNotifies, AttachReturns, BeginDetach, flags
<1>11. CASE BeginClose
  BY <1>11 DEF BeginClose
<1> QED
  BY <1>1, <1>2, <1>3, <1>4, <1>5, <1>6, <1>7, <1>8, <1>9, <1>10, <1>11
  DEF Next, Receive, Notify, AttachOrDetach

LEMMA ToCallStep ==
  ASSUME TypeOK, FlagsTell, ToCallAttached, Next
  PROVE  ToCallAttached'
<1> USE UsersAssumption DEF TypeOK, ToCallAttached
<1>1. ASSUME NEW p \in RecvPackets, CompleteReceive(p)
      PROVE  ToCallAttached'
  BY <1>1 DEF CompleteReceive, Deliver, Copied, Recipients, EndReceive, list
<1>2. ASSUME ContinueReceive
      PROVE  ToCallAttached'
  BY <1>2 DEF ContinueReceive, Deliver, Copied, Recipients, EndReceive, list
<1>3. ASSUME NEW u \in Users, NotifyReceive(u)
      PROVE  ToCallAttached'
  BY <1>3 DEF NotifyReceive, list
<1>4. ASSUME NEW c \in Contexts, LinkStateChanges(c)
      PROVE  ToCallAttached'
  BY <1>4 DEF LinkStateChanges, list
<1>5. ASSUME NEW c \in Contexts, NotifyPutOff(c)
      PROVE  ToCallAttached'
  BY <1>5 DEF NotifyPutOff, list
<1>6. ASSUME NEW c \in Contexts, NotifyBegins(c)
      PROVE  ToCallAttached'
  BY <1>6 DEF NotifyBegins, Copied, list
<1>7. ASSUME NEW c \in Contexts, NotifyEnds(c)
      PROVE  ToCallAttached'
  BY <1>7 DEF NotifyEnds, list
<1>8. ASSUME NEW c \in Contexts, NEW u \in Users, NotifyLinkStateChanged(c, u)
      PROVE  ToCallAttached'
  BY <1>8 DEF NotifyLinkStateChanged, list
<1>9. ASSUME NEW u \in Users, NicAttachUser(u)
      PROVE  ToCallAttached'
  BY <1>9 DEF NicAttachUser
<1>10. ASSUME NEW u \in Users, NicDetachUser(u)
       PROVE  ToCallAttached'
  <2>1. \A c \in Contexts : todo[c] = {}
    BY <1>10, NobodyToCall DEF NicDetachUser
  <2>2. UNCHANGED <<todo, pc>>
    BY <1>10 DEF NicDetachUser
  <2> QED
    BY <2>1, <2>2
<1>11. ASSUME NEW u \in Users, AttachNotifies(u) \/ AttachReturns(u) \/ BeginDetach(u)
       PROVE  ToCallAttached'
  BY <1>11 DEF AttachNotifies, AttachReturns, BeginDetach, list
<1>12. CASE BeginClose
  BY <1>12 DEF BeginClose, list
<1> QED
  BY <1>1, <1>2, <1>3, <1>4, <1>5, <1>6, <1>7, <1>8, <1>9, <1>10, <1>11, <1>12
  DEF Next, Receive, Notify, AttachOrDetach

(* The inductive invariant.                                                  *)
THEOREM Invariant == Spec => []Inv
<1>1. TypeOK /\ TypeOK' /\ FlagsTell /\ ToCallAttached /\ [Next]_vars
        => FlagsTell' /\ ToCallAttached'
  <2>1. ASSUME TypeOK, FlagsTell, ToCallAttached, Next
        PROVE  FlagsTell' /\ ToCallAttached'
    BY <2>1, FlagsStep, ToCallStep
  <2>2. ASSUME FlagsTell, ToCallAttached, UNCHANGED vars
        PROVE  FlagsTell' /\ ToCallAttached'
    BY <2>2 DEF FlagsTell, ToCallAttached, vars, flags, list
  <2> QED
    BY <2>1, <2>2
<1>2. Init => FlagsTell /\ ToCallAttached
  BY InvInit DEF Inv
<1> QED
  BY <1>1, <1>2, TypeCorrect, PTL DEF Spec, Inv

(* Receive callbacks and link-state callbacks never overlap, and only one    *)
(* processor runs link-state callbacks.                                      *)
THEOREM CallbacksNeverOverlap == Spec => []CallbacksExclusive
<1>1. Inv => CallbacksExclusive
  BY DEF Inv, FlagsTell, CallbacksExclusive
<1> QED
  BY <1>1, Invariant, PTL

(* A user that NicDetachUser has removed is called by nobody any more.       *)
THEOREM DetachedNeverCalled == Spec => []NoCallbackAfterDetach
<1>1. Inv => NoCallbackAfterDetach
  BY DEF Inv, ToCallAttached, NoCallbackAfterDetach
<1> QED
  BY <1>1, Invariant, PTL

-----------------------------------------------------------------------------
(* The receive filter asked of the adapter is the union of the users' masks. *)
THEOREM FilterExact == Spec => []FilterIsUnion
<1>1. Init => FilterIsUnion
  BY DEF Init, FilterIsUnion, Union
<1>2. TypeOK /\ FilterIsUnion /\ [Next]_vars => FilterIsUnion'
  <2> SUFFICES ASSUME TypeOK, FilterIsUnion, [Next]_vars
               PROVE  FilterIsUnion'
    OBVIOUS
  <2>1. ASSUME NEW u \in Users, NicAttachUser(u)
        PROVE  FilterIsUnion'
    <3>1. userList' = userList \cup {u}
      BY <2>1 DEF NicAttachUser
    <3>2. aggregate' = aggregate \cup Mask[u]
      <4>1. u \in userList => aggregate \cup Mask[u] = aggregate
        BY DEF FilterIsUnion, Union
      <4> QED
        BY <4>1, <2>1 DEF NicAttachUser
    <3>3. Union(userList \cup {u}) = Union(userList) \cup Mask[u]
      BY DEF Union
    <3> QED
      BY <3>1, <3>2, <3>3 DEF FilterIsUnion
  <2>2. ASSUME NEW u \in Users, NicDetachUser(u)
        PROVE  FilterIsUnion'
    BY <2>2 DEF NicDetachUser, FilterIsUnion
  <2>3. ASSUME UNCHANGED list
        PROVE  FilterIsUnion'
    BY <2>3 DEF FilterIsUnion, Union, list
  <2> QED
    BY <2>1, <2>2, <2>3
    DEF Next, Receive, Notify, AttachOrDetach, vars, CompleteReceive, ContinueReceive,
        NotifyReceive, LinkStateChanges, NotifyPutOff, NotifyBegins, NotifyEnds,
        NotifyLinkStateChanged, AttachNotifies, AttachReturns, BeginDetach, BeginClose
<1> QED
  BY <1>1, <1>2, TypeCorrect, PTL DEF Spec
=============================================================================
