------------------------- MODULE UsbEnetCloseProofs -------------------------
(***************************************************************************)
(* Proofs about the life of the device extension, for any number of        *)
(* devices and any set of threads that close it.                           *)
(***************************************************************************)
EXTENDS UsbEnetClose, FiniteSetTheorems, TLAPS

USE CloseAssumption

-----------------------------------------------------------------------------
(* The inductive invariant.                                                  *)

NodeKnown(d) == d.open # {} => d.node \in Nodes

Absent(d) == d.open = {} /\ d.closing = {} /\ ~d.memory

(* Who runs the close.  It is USBD's DPCs that reach its end, since a thread *)
(* that begins it finds endpoints open.  While the extension is in use and   *)
(* no DPC works on it, either nobody has begun to close it or one close is   *)
(* with USBD.                                                                *)
Chained(d, at, n) ==
  /\ at["usbd"] \in {"idle", "init", "free", "complete"}
  /\ at["shutdown"] \notin {"init", "free", "complete"}
  /\ at["unload"] \notin {"init", "free", "complete"}
  /\ ~d.attached \/ at["usbd"] # "idle" => Absent(d)
  /\ at["usbd"] \in {"init", "free"} => d.attached
  /\ at["usbd"] = "complete" => ~d.attached
  /\ at["usbd"] \in {"free", "complete"} => d.stopping
  /\ d.attached /\ at["usbd"] = "idle" /\ d.stopping =>
       d.resetting /\ \E x \in Nodes \X Endpoints : d.closing = {x}
  /\ d.attached /\ at["usbd"] = "idle" /\ ~d.stopping =>
       ~d.resetting /\ d.closing = {} /\ d.open # {}
  /\ ~d.attached /\ ~d.stopping => \A m \in Nodes : n[m] # "added"

(* Whose device is in the extension: that of DeviceNode from Init until the  *)
(* node is answered for, and nobody's else.                                  *)
Present == {"adding", "added", "removing"}

Alone(m, n) == \A k \in Nodes \ {m} : n[k] \notin Present

Owned(d, at, n) ==
  /\ ~d.attached /\ at["usbd"] # "complete" => \A m \in Nodes : n[m] \notin Present
  /\ at["usbd"] = "init" => \A m \in Nodes : n[m] = "adding" => Alone(m, n)
  /\ at["usbd"] = "complete" \/ (d.attached /\ at["usbd"] # "init") =>
       d.node \in Nodes /\ n[d.node] \in {"added", "removing"} /\ Alone(d.node, n)

IInv ==
  /\ TypeOK /\ NodeKnown(dev)
  /\ Sound => Chained(dev, pc, usb) /\ Owned(dev, pc, usb)

-----------------------------------------------------------------------------
(* The operators.                                                            *)

LEMMA NextIsOpen ==
  ASSUME NEW open \in SUBSET Endpoints, open # {}
  PROVE  NextToClose(open) \in open
<1> DEFINE Least(i) == CloseOrder[i] \in open /\ \A j \in 1 .. (i - 1) : CloseOrder[j] \notin open
<1>1. /\ CloseOrder[1] = "interrupt" /\ CloseOrder[2] = "transmit"
      /\ CloseOrder[3] = "receive" /\ CloseOrder[4] = "default"
  BY DEF CloseOrder
<1>2. \E i \in 1 .. 4 : CloseOrder[i] \in open
  <2>1. PICK e \in Endpoints : e \in open
    OBVIOUS
  <2>2. 1 \in 1 .. 4 /\ 2 \in 1 .. 4 /\ 3 \in 1 .. 4 /\ 4 \in 1 .. 4
    OBVIOUS
  <2>3. \/ CloseOrder[1] \in open \/ CloseOrder[2] \in open
        \/ CloseOrder[3] \in open \/ CloseOrder[4] \in open
    BY <1>1, <2>1 DEF Endpoints
  <2> QED
    BY <2>2, <2>3
<1>3. \E i \in 1 .. 4 : Least(i)
  <2>1. CASE CloseOrder[1] \in open
    <3>1. Least(1)
      BY <2>1
    <3> QED
      BY <3>1
  <2>2. CASE CloseOrder[1] \notin open /\ CloseOrder[2] \in open
    <3>1. Least(2)
      BY <2>2
    <3> QED
      BY <3>1
  <2>3. CASE CloseOrder[1] \notin open /\ CloseOrder[2] \notin open /\ CloseOrder[3] \in open
    <3>1. Least(3)
      BY <2>3
    <3> QED
      BY <3>1
  <2>4. CASE /\ CloseOrder[1] \notin open /\ CloseOrder[2] \notin open
             /\ CloseOrder[3] \notin open /\ CloseOrder[4] \in open
    <3>1. Least(4)
      BY <2>4
    <3> QED
      BY <3>1
  <2> QED
    BY <1>2, <2>1, <2>2, <2>3, <2>4
<1> QED
  BY <1>3 DEF NextToClose

LEMMA ContinueFields ==
  ASSUME NEW d \in DeviceType, NodeKnown(d)
  PROVE  LET r == ContinueAsyncClose(d)
         IN  /\ r \in DeviceType /\ NodeKnown(r)
             /\ r.attached = d.attached /\ r.stopping = d.stopping /\ r.node = d.node
             /\ d.open # {} =>
                  /\ r.resetting /\ r.memory = d.memory
                  /\ \E x \in Nodes \X Endpoints : r.closing = d.closing \cup {x}
             /\ d.open = {} =>
                  /\ ~r.resetting /\ r.open = {} /\ r.closing = d.closing
                  /\ r.memory => d.memory
                  /\ d.stopping => ~r.memory
<1> DEFINE r == ContinueAsyncClose(d)
           e == NextToClose(d.open)
           rest == d.open \ {e}
           queued == d.closing \cup {<<d.node, e>>}
           kept == d.memory /\ ~d.stopping
<1>1. d.open \in SUBSET Endpoints /\ d.closing \in SUBSET (Nodes \X Endpoints)
  BY DEF DeviceType
<1>2. CASE d.open # {}
  <2>1. e \in Endpoints /\ <<d.node, e>> \in Nodes \X Endpoints
    BY <1>1, <1>2, NextIsOpen DEF NodeKnown
  <2>2. rest \in SUBSET Endpoints /\ queued \in SUBSET (Nodes \X Endpoints)
    BY <1>1, <2>1
  <2>3. r = [d EXCEPT !.resetting = TRUE, !.open = rest, !.closing = queued]
    BY <1>2 DEF ContinueAsyncClose
  <2> HIDE DEF r, rest
  <2>4. \E x \in Nodes \X Endpoints : queued = d.closing \cup {x}
    BY <2>1
  <2> HIDE DEF queued, e
  <2>5. r \in DeviceType
    BY <2>2, <2>3 DEF DeviceType
  <2>6. /\ r.attached = d.attached /\ r.stopping = d.stopping /\ r.node = d.node
        /\ r.resetting /\ r.memory = d.memory /\ r.closing = queued
    BY <2>2, <2>3 DEF DeviceType
  <2> QED
    BY <1>2, <2>4, <2>5, <2>6 DEF NodeKnown, r
<1>3. CASE d.open = {}
  <2>1. kept \in BOOLEAN
    BY DEF DeviceType
  <2>2. r = [d EXCEPT !.resetting = FALSE, !.memory = kept]
    BY <1>3 DEF ContinueAsyncClose
  <2> HIDE DEF r, kept
  <2>3. r \in DeviceType
    BY <2>1, <2>2 DEF DeviceType
  <2>4. /\ r.attached = d.attached /\ r.stopping = d.stopping /\ r.node = d.node
        /\ ~r.resetting /\ r.open = d.open /\ r.closing = d.closing /\ r.memory = kept
    BY <2>1, <2>2 DEF DeviceType
  <2> QED
    BY <1>3, <2>3, <2>4 DEF NodeKnown, r, kept
<1> QED
  BY <1>2, <1>3

LEMMA OpenOrderTyped ==
  /\ \A opened \in 0 .. Len(OpenOrder) : {OpenOrder[i] : i \in 1 .. opened} \in SUBSET Endpoints
  /\ {OpenOrder[i] : i \in 1 .. Len(OpenOrder)} # {}
<1>1. CASE OpenOrder = <<"default", "interrupt", "receive", "transmit">>
  <2>1. Len(OpenOrder) = 4
    BY <1>1
  <2>2. \A i \in 1 .. 4 : OpenOrder[i] \in Endpoints
    BY <1>1 DEF Endpoints
  <2> QED
    BY <2>1, <2>2
<1>2. CASE OpenOrder = <<"default", "receive", "transmit">>
  <2>1. Len(OpenOrder) = 3
    BY <1>2
  <2>2. \A i \in 1 .. 3 : OpenOrder[i] \in Endpoints
    BY <1>2 DEF Endpoints
  <2> QED
    BY <2>1, <2>2
<1> QED
  BY <1>1, <1>2

LEMMA FreshFields ==
  ASSUME dev \in DeviceType, NEW n \in Nodes, NEW opened \in 0 .. Len(OpenOrder)
  PROVE  /\ Fresh(n, opened) \in DeviceType /\ NodeKnown(Fresh(n, opened))
         /\ Fresh(n, opened).attached = dev.attached
         /\ ~Fresh(n, opened).stopping /\ ~Fresh(n, opened).resetting
         /\ Fresh(n, opened).closing = dev.closing /\ Fresh(n, opened).node = n
         /\ Fresh(n, opened).open = {OpenOrder[i] : i \in 1 .. opened}
<1> DEFINE handles == {OpenOrder[i] : i \in 1 .. opened}
           r == Fresh(n, opened)
<1>1. handles \in SUBSET Endpoints
  BY OpenOrderTyped
<1>2. r = [dev EXCEPT !.stopping = FALSE, !.resetting = FALSE, !.node = n, !.open = handles]
  BY DEF Fresh
<1> HIDE DEF handles, r
<1>3. r \in DeviceType
  BY <1>1, <1>2 DEF DeviceType
<1>4. /\ r.attached = dev.attached /\ ~r.stopping /\ ~r.resetting /\ r.node = n
      /\ r.closing = dev.closing /\ r.open = handles
  BY <1>1, <1>2 DEF DeviceType
<1> QED
  BY <1>3, <1>4 DEF NodeKnown, handles, r

(* The program counters, the nodes and the histories.                        *)
PcType == [Agents -> {"ready", "idle", "init", "powerDown", "unregistered", "remove", "free", "complete"}]
UsbType == [Nodes -> {"absent", "refused", "adding", "added", "removing", "removed"}]

Counted == registered \in BOOLEAN /\ raced \in BOOLEAN
           /\ failed \subseteq Nodes /\ Cardinality(failed) <= MaxFailures

LEMMA MoreFailed ==
  ASSUME Counted, NEW n \in Nodes, Cardinality(failed) < MaxFailures
  PROVE  failed \cup {n} \subseteq Nodes /\ Cardinality(failed \cup {n}) <= MaxFailures
<1>1. IsFiniteSet(failed)
  <2>1. failed \in SUBSET Nodes
    BY DEF Counted
  <2> QED
    BY <2>1, FS_Subset
<1>2. Cardinality(failed) \in Nat
  BY <1>1, FS_CardinalityType
<1>3. \/ Cardinality(failed \cup {n}) = Cardinality(failed)
      \/ Cardinality(failed \cup {n}) = Cardinality(failed) + 1
  BY <1>1, FS_AddElement
<1>4. IsFiniteSet(failed \cup {n})
  BY <1>1, FS_AddElement
<1>5. Cardinality(failed \cup {n}) \in Nat
  BY <1>4, FS_CardinalityType
<1> QED
  BY <1>2, <1>3, <1>5 DEF Counted

-----------------------------------------------------------------------------
(* The steps keep the types, and with them that what is open has a node.     *)

Typed == TypeOK /\ NodeKnown(dev)

LEMMA TypedFields ==
  ASSUME Typed
  PROVE  dev \in DeviceType /\ NodeKnown(dev) /\ usb \in UsbType /\ pc \in PcType /\ Counted
  BY DEF Typed, TypeOK, UsbType, PcType, Counted

LEMMA TypedRestored ==
  ASSUME dev' \in DeviceType, NodeKnown(dev'), usb' \in UsbType, pc' \in PcType,
         registered' \in BOOLEAN, raced' \in BOOLEAN,
         failed' \subseteq Nodes, Cardinality(failed') <= MaxFailures
  PROVE  Typed'
  BY DEF Typed, TypeOK, UsbType, PcType, NodeKnown

LEMMA ContinueTyped ==
  ASSUME Typed, NEW a \in Agents, NEW d \in DeviceType, NodeKnown(d), Continue(a, d)
  PROVE  dev' \in DeviceType /\ NodeKnown(dev') /\ pc' \in PcType
<1>1. dev' = ContinueAsyncClose(d)
  BY DEF Continue
<1>2. dev' \in DeviceType /\ NodeKnown(dev')
  BY <1>1, ContinueFields
<1>3. pc' \in PcType
  BY TypedFields DEF Continue, PcType
<1> QED
  BY <1>2, <1>3

(* The device records from which a close is continued.                       *)
LEMMA StoppingFields ==
  ASSUME dev \in DeviceType, NodeKnown(dev)
  PROVE  LET d == [dev EXCEPT !.stopping = TRUE]
         IN  /\ d \in DeviceType /\ NodeKnown(d) /\ d.stopping
             /\ d.attached = dev.attached /\ d.open = dev.open
             /\ d.closing = dev.closing /\ d.memory = dev.memory /\ d.node = dev.node
<1> DEFINE d == [dev EXCEPT !.stopping = TRUE]
<1>1. d \in DeviceType
  BY DEF DeviceType
<1>2. /\ d.stopping /\ d.attached = dev.attached /\ d.open = dev.open
      /\ d.closing = dev.closing /\ d.memory = dev.memory /\ d.node = dev.node
  BY DEF DeviceType
<1> HIDE DEF d
<1>3. NodeKnown(d)
  BY <1>2 DEF NodeKnown
<1> QED
  BY <1>1, <1>2, <1>3 DEF d

LEMMA CompletedFields ==
  ASSUME dev \in DeviceType, NodeKnown(dev), NEW x
  PROVE  LET d == [dev EXCEPT !.closing = dev.closing \ {x}]
         IN  /\ d \in DeviceType /\ NodeKnown(d) /\ d.stopping = dev.stopping
             /\ d.attached = dev.attached /\ d.open = dev.open
             /\ d.closing = dev.closing \ {x} /\ d.memory = dev.memory /\ d.node = dev.node
<1> DEFINE rest == dev.closing \ {x}
           d == [dev EXCEPT !.closing = rest]
<1>1. rest \in SUBSET (Nodes \X Endpoints)
  BY DEF DeviceType
<1> HIDE DEF rest
<1>2. d \in DeviceType
  BY <1>1 DEF DeviceType
<1>3. /\ d.stopping = dev.stopping /\ d.attached = dev.attached /\ d.open = dev.open
      /\ d.closing = rest /\ d.memory = dev.memory /\ d.node = dev.node
  BY <1>1 DEF DeviceType
<1> HIDE DEF d
<1>4. NodeKnown(d)
  BY <1>3 DEF NodeKnown
<1> QED
  BY <1>2, <1>3, <1>4 DEF d, rest

LEMMA AttachedFields ==
  ASSUME dev \in DeviceType, NodeKnown(dev), NEW b \in BOOLEAN
  PROVE  LET d == [dev EXCEPT !.attached = b]
         IN  /\ d \in DeviceType /\ NodeKnown(d) /\ d.stopping = dev.stopping
             /\ d.attached = b /\ d.open = dev.open
             /\ d.closing = dev.closing /\ d.memory = dev.memory /\ d.node = dev.node
<1> DEFINE d == [dev EXCEPT !.attached = b]
<1>1. d \in DeviceType
  BY DEF DeviceType
<1>2. /\ d.stopping = dev.stopping /\ d.attached = b /\ d.open = dev.open
      /\ d.closing = dev.closing /\ d.memory = dev.memory /\ d.node = dev.node
  BY DEF DeviceType
<1> HIDE DEF d
<1>3. NodeKnown(d)
  BY <1>2 DEF NodeKnown
<1> QED
  BY <1>1, <1>2, <1>3 DEF d

LEMMA InitialisedFields ==
  ASSUME dev \in DeviceType, NEW n \in Nodes
  PROVE  LET d == [Fresh(n, Len(OpenOrder)) EXCEPT !.memory = TRUE]
         IN  /\ d \in DeviceType /\ NodeKnown(d) /\ ~d.stopping /\ ~d.resetting
             /\ d.attached = dev.attached /\ d.closing = dev.closing /\ d.open # {}
             /\ d.node = n
<1> DEFINE f == Fresh(n, Len(OpenOrder))
           d == [f EXCEPT !.memory = TRUE]
<1>1. Len(OpenOrder) \in 0 .. Len(OpenOrder)
  OBVIOUS
<1>2. /\ f \in DeviceType /\ NodeKnown(f) /\ f.attached = dev.attached
      /\ ~f.stopping /\ ~f.resetting /\ f.closing = dev.closing /\ f.open # {} /\ f.node = n
  <2>1. /\ f \in DeviceType /\ NodeKnown(f) /\ f.attached = dev.attached
        /\ ~f.stopping /\ ~f.resetting /\ f.closing = dev.closing /\ f.node = n
        /\ f.open = {OpenOrder[i] : i \in 1 .. Len(OpenOrder)}
    BY <1>1, FreshFields
  <2> QED
    BY Zenon, <2>1, OpenOrderTyped
<1> HIDE DEF f
<1>3. d \in DeviceType
  BY <1>2 DEF DeviceType
<1>4. /\ d.stopping = f.stopping /\ d.attached = f.attached /\ d.open = f.open
      /\ d.closing = f.closing /\ d.resetting = f.resetting /\ d.node = f.node
  BY <1>2 DEF DeviceType
<1> HIDE DEF d
<1>5. NodeKnown(d)
  BY <1>2, <1>4 DEF NodeKnown
<1> QED
  BY <1>2, <1>3, <1>4, <1>5 DEF d, f

-----------------------------------------------------------------------------
(* Each action keeps the types.                                              *)

LEMMA AddDeviceTyped ==
  ASSUME Typed, NEW n \in Nodes, UsbEnetAddDevice(n)
  PROVE  Typed'
<1> DEFINE d == [dev EXCEPT !.attached = TRUE]
<1>1. dev \in DeviceType /\ NodeKnown(dev) /\ usb \in UsbType /\ pc \in PcType /\ Counted
  BY TypedFields
<1>2. usb' \in UsbType
  BY <1>1 DEF UsbEnetAddDevice, AllocDeviceExtension, UsbType
<1>3. pc' \in PcType
  BY <1>1 DEF UsbEnetAddDevice, AllocDeviceExtension, PcType
<1>4. dev' = dev \/ dev' = d
  BY DEF UsbEnetAddDevice, AllocDeviceExtension
<1>5. d \in DeviceType /\ NodeKnown(d)
  BY <1>1, AttachedFields
<1> HIDE DEF d
<1>6. dev' \in DeviceType /\ NodeKnown(dev')
  BY <1>1, <1>4, <1>5
<1>7. registered' = registered /\ raced' = raced /\ failed' = failed
  BY DEF UsbEnetAddDevice, history
<1> QED
  BY <1>1, <1>2, <1>3, <1>6, <1>7, TypedRestored DEF Counted

LEMMA InitDeviceTyped ==
  ASSUME Typed, NEW n \in Nodes, InitDevice(n)
  PROVE  Typed'
<1> DEFINE d == [Fresh(n, Len(OpenOrder)) EXCEPT !.memory = TRUE]
<1>1. dev \in DeviceType /\ NodeKnown(dev) /\ usb \in UsbType /\ pc \in PcType /\ Counted
  BY TypedFields
<1>2. usb' \in UsbType /\ registered' = registered /\ raced' = raced
  BY <1>1 DEF InitDevice, UsbType
<1>3. /\ dev' \in DeviceType /\ NodeKnown(dev') /\ pc' \in PcType
      /\ failed' \subseteq Nodes /\ Cardinality(failed') <= MaxFailures
  <2>1. CASE dev' = d /\ pc' = [pc EXCEPT !["usbd"] = "idle"] /\ failed' = failed
    <3>1. d \in DeviceType /\ NodeKnown(d)
      BY <1>1, InitialisedFields
    <3> HIDE DEF d
    <3>2. pc' \in PcType
      BY <1>1, <2>1 DEF PcType
    <3> QED
      BY <1>1, <2>1, <3>1, <3>2 DEF Counted
  <2>2. CASE /\ Cardinality(failed) < MaxFailures
             /\ failed' = failed \cup {n}
             /\ \E opened \in 0 .. Len(OpenOrder) : Continue("usbd", Fresh(n, opened))
    <3>1. PICK opened \in 0 .. Len(OpenOrder) : Continue("usbd", Fresh(n, opened))
      BY <2>2
    <3>2. Fresh(n, opened) \in DeviceType /\ NodeKnown(Fresh(n, opened))
      BY <1>1, FreshFields
    <3>3. "usbd" \in Agents
      BY DEF Agents
    <3>4. dev' \in DeviceType /\ NodeKnown(dev') /\ pc' \in PcType
      BY <3>1, <3>2, <3>3, ContinueTyped
    <3> QED
      BY <1>1, <2>2, <3>4, MoreFailed
  <2> QED
    BY <2>1, <2>2 DEF InitDevice
<1> QED
  BY <1>1, <1>2, <1>3, TypedRestored DEF Counted

LEMMA CloseCompletedTyped ==
  ASSUME Typed, NEW n \in Nodes, NEW e \in Endpoints, AsyncCompletionRoutineClose(n, e)
  PROVE  Typed'
<1> DEFINE d == [dev EXCEPT !.closing = dev.closing \ {<<n, e>>}]
<1>1. dev \in DeviceType /\ NodeKnown(dev) /\ usb \in UsbType /\ pc \in PcType /\ Counted
  BY TypedFields
<1>2. Continue("usbd", d) /\ usb' = usb /\ registered' = registered /\ raced' = raced /\ failed' = failed
  BY DEF AsyncCompletionRoutineClose, history
<1>3. d \in DeviceType /\ NodeKnown(d) /\ "usbd" \in Agents
  BY <1>1, CompletedFields DEF Agents
<1> HIDE DEF d
<1>4. dev' \in DeviceType /\ NodeKnown(dev') /\ pc' \in PcType
  BY <1>2, <1>3, ContinueTyped
<1> QED
  BY <1>1, <1>2, <1>4, TypedRestored DEF Counted

LEMMA FreeTyped ==
  ASSUME Typed, NEW a \in Agents, FreeDeviceExtension(a) \/ UsbdRemoveDeviceComplete(a)
  PROVE  Typed'
<1> DEFINE d == [dev EXCEPT !.attached = FALSE]
<1>1. dev \in DeviceType /\ NodeKnown(dev) /\ usb \in UsbType /\ pc \in PcType /\ Counted
  BY TypedFields
<1>2. d \in DeviceType /\ NodeKnown(d)
  BY <1>1, AttachedFields
<1>3. dev' = dev \/ dev' = d
  BY DEF FreeDeviceExtension, UsbdRemoveDeviceComplete
<1> HIDE DEF d
<1>4. dev' \in DeviceType /\ NodeKnown(dev')
  BY <1>1, <1>2, <1>3
<1>5. usb' \in UsbType
  BY <1>1 DEF FreeDeviceExtension, UsbdRemoveDeviceComplete, UsbType
<1>6. pc' \in PcType
  BY <1>1 DEF FreeDeviceExtension, UsbdRemoveDeviceComplete, PcType
<1>7. registered' = registered /\ raced' = raced /\ failed' = failed
  BY DEF FreeDeviceExtension, UsbdRemoveDeviceComplete, history
<1> QED
  BY <1>1, <1>4, <1>5, <1>6, <1>7, TypedRestored DEF Counted

LEMMA BeginRemoveTyped ==
  ASSUME Typed, NEW a \in Agents, BeginRemove(a)
  PROVE  dev' \in DeviceType /\ NodeKnown(dev') /\ pc' \in PcType
<1> DEFINE d == [dev EXCEPT !.stopping = TRUE]
<1>1. dev \in DeviceType /\ NodeKnown(dev) /\ pc \in PcType
  BY TypedFields
<1>2. d \in DeviceType /\ NodeKnown(d)
  BY <1>1, StoppingFields
<1>3. CASE Continue(a, d)
  <2> HIDE DEF d
  <2> QED
    BY <1>2, <1>3, ContinueTyped
<1>4. CASE pc' = [pc EXCEPT ![a] = "idle"] /\ dev' = dev
  BY <1>1, <1>4 DEF PcType
<1> QED
  BY <1>3, <1>4 DEF BeginRemove

LEMMA RemoveDeviceTyped ==
  ASSUME Typed, NEW n \in Nodes, UsbEnetRemoveDevice(n)
  PROVE  Typed'
<1>1. usb \in UsbType /\ Counted /\ "usbd" \in Agents
  BY TypedFields DEF Agents
<1>2. usb' \in UsbType
  BY <1>1 DEF UsbEnetRemoveDevice, UsbType
<1>3. dev' \in DeviceType /\ NodeKnown(dev') /\ pc' \in PcType
  BY <1>1, BeginRemoveTyped DEF UsbEnetRemoveDevice
<1>4. registered' = registered /\ raced' = raced /\ failed' = failed
  BY DEF UsbEnetRemoveDevice, history
<1> QED
  BY <1>1, <1>2, <1>3, <1>4, TypedRestored DEF Counted

LEMMA PowerDownTyped ==
  ASSUME Typed, BeginPowerDownAndClose
  PROVE  Typed'
<1> DEFINE d == [dev EXCEPT !.stopping = TRUE]
<1>1. dev \in DeviceType /\ NodeKnown(dev) /\ usb \in UsbType /\ pc \in PcType /\ Counted
  BY TypedFields
<1>2. d \in DeviceType /\ NodeKnown(d) /\ "shutdown" \in Agents
  BY <1>1, StoppingFields DEF Agents
<1>3. dev' \in DeviceType /\ NodeKnown(dev') /\ pc' \in PcType
  <2>1. CASE Continue("shutdown", d)
    <3> HIDE DEF d
    <3> QED
      BY <1>2, <2>1, ContinueTyped
  <2>2. CASE pc' = [pc EXCEPT !["shutdown"] = "idle"] /\ dev' = dev
    BY <1>1, <2>2 DEF PcType
  <2> QED
    BY <2>1, <2>2 DEF BeginPowerDownAndClose
<1>4. usb' = usb /\ registered' = registered /\ failed' = failed
  BY DEF BeginPowerDownAndClose
<1>5. raced' \in BOOLEAN
  BY <1>1 DEF BeginPowerDownAndClose, Counted
<1> QED
  BY <1>1, <1>3, <1>4, <1>5, TypedRestored DEF Counted

LEMMA UnloadTyped ==
  ASSUME Typed, UsbdUnregisterDriverObject \/ ShutdownChecks \/ ShutdownRemoves \/ UsbdEhciShutdown
  PROVE  Typed'
<1>1. dev \in DeviceType /\ NodeKnown(dev) /\ usb \in UsbType /\ pc \in PcType /\ Counted
  BY TypedFields
<1>2. "unload" \in Agents /\ "shutdown" \in Agents
  BY DEF Agents
<1>3. dev' \in DeviceType /\ NodeKnown(dev') /\ pc' \in PcType
  <2>1. CASE UsbdUnregisterDriverObject \/ ShutdownChecks \/ UsbdEhciShutdown
    <3>1. dev' = dev
      BY <2>1 DEF UsbdUnregisterDriverObject, ShutdownChecks, UsbdEhciShutdown
    <3>2. pc' \in PcType
      BY <1>1, <1>2, <2>1 DEF UsbdUnregisterDriverObject, ShutdownChecks, UsbdEhciShutdown, PcType
    <3> QED
      BY <1>1, <3>1, <3>2
  <2>2. CASE ShutdownRemoves
    BY <1>2, <2>2, BeginRemoveTyped DEF ShutdownRemoves
  <2> QED
    BY <2>1, <2>2
<1>4. usb' = usb /\ failed' = failed /\ registered' \in BOOLEAN /\ raced' \in BOOLEAN
  BY <1>1 DEF UsbdUnregisterDriverObject, ShutdownChecks, ShutdownRemoves, UsbdEhciShutdown, history, Counted
<1> QED
  BY <1>1, <1>3, <1>4, TypedRestored DEF Counted

LEMMA NextTyped == Typed /\ [Next]_vars => Typed'
<1> SUFFICES ASSUME Typed, [Next]_vars PROVE Typed'
  OBVIOUS
<1>1. CASE UNCHANGED vars
  <2>1. /\ dev' = dev /\ usb' = usb /\ pc' = pc /\ registered' = registered
        /\ failed' = failed /\ raced' = raced
    BY <1>1 DEF vars, history
  <2> QED
    BY <2>1, TypedFields, TypedRestored DEF Counted
<1>2. CASE Next
  BY <1>2, AddDeviceTyped, InitDeviceTyped, CloseCompletedTyped, FreeTyped, RemoveDeviceTyped,
     PowerDownTyped, UnloadTyped DEF Next, Proceed
<1> QED
  BY <1>1, <1>2

-----------------------------------------------------------------------------
(* Each action keeps the chain.                                              *)

LEMMA SoundBefore == Typed /\ [Next]_vars /\ Sound' => Sound
<1> SUFFICES ASSUME Typed, [Next]_vars, Sound' PROVE Sound
  OBVIOUS
<1>1. failed' = {} /\ raced' = FALSE /\ raced \in BOOLEAN
  BY TypedFields DEF Sound, Counted
<1>2. CASE UNCHANGED vars
  BY <1>1, <1>2 DEF vars, history, Sound
<1>3. CASE Next
  <2>1. failed' = failed \/ \E n \in Nodes : failed' = failed \cup {n}
    BY <1>3 DEF Next, Proceed, FreeDeviceExtension, UsbdRemoveDeviceComplete, InitDevice,
       AsyncCompletionRoutineClose, BeginPowerDownAndClose, ShutdownChecks, ShutdownRemoves,
       UsbEnetAddDevice, UsbEnetRemoveDevice, UsbdEhciShutdown, UsbdUnregisterDriverObject, history
  <2>2. raced' = raced \/ raced' = (raced \/ NotInitialised)
    BY <1>3 DEF Next, Proceed, FreeDeviceExtension, UsbdRemoveDeviceComplete, InitDevice,
       AsyncCompletionRoutineClose, BeginPowerDownAndClose, ShutdownChecks, ShutdownRemoves,
       UsbEnetAddDevice, UsbEnetRemoveDevice, UsbdEhciShutdown, UsbdUnregisterDriverObject, history
  <2>3. failed = {}
    BY <1>1, <2>1
  <2>4. ~raced
    BY <1>1, <2>2
  <2> QED
    BY <2>3, <2>4 DEF Sound
<1> QED
  BY <1>2, <1>3

(* A thread begins the close of a device in use.                             *)
LEMMA BegunChained ==
  ASSUME Typed, Chained(dev, pc, usb), NEW a \in Agents,
         dev.attached, pc["usbd"] = "idle", ~dev.stopping,
         Continue(a, [dev EXCEPT !.stopping = TRUE]),
         NEW n
  PROVE  Chained(dev', pc', n)
<1> DEFINE d == [dev EXCEPT !.stopping = TRUE]
<1>1. dev \in DeviceType /\ NodeKnown(dev) /\ pc \in PcType
  BY TypedFields
<1>2. dev.open # {} /\ dev.closing = {}
  BY DEF Chained
<1>3. /\ d \in DeviceType /\ NodeKnown(d) /\ d.stopping /\ d.attached
      /\ d.open # {} /\ d.closing = {}
  BY <1>1, <1>2, StoppingFields
<1>4. dev' = ContinueAsyncClose(d) /\ pc' = [pc EXCEPT ![a] = "idle"]
  BY <1>3 DEF Continue, CloseFinished
<1> HIDE DEF d
<1>5. /\ dev'.attached /\ dev'.stopping /\ dev'.resetting
      /\ \E x \in Nodes \X Endpoints : dev'.closing = {x}
  BY <1>3, <1>4, ContinueFields
<1>6. /\ pc'["usbd"] = "idle"
      /\ pc'["shutdown"] \notin {"init", "free", "complete"}
      /\ pc'["unload"] \notin {"init", "free", "complete"}
  BY <1>1, <1>4 DEF PcType, Agents, Chained
<1> QED
  BY <1>5, <1>6 DEF Chained

LEMMA AddDeviceChained ==
  ASSUME Typed, Chained(dev, pc, usb), NEW n \in Nodes, UsbEnetAddDevice(n)
  PROVE  Chained(dev', pc', usb')
<1> DEFINE d == [dev EXCEPT !.attached = TRUE]
<1>1. dev \in DeviceType /\ NodeKnown(dev) /\ usb \in UsbType /\ pc \in PcType
  BY TypedFields
<1>2. /\ d.attached /\ d.stopping = dev.stopping /\ d.open = dev.open
      /\ d.closing = dev.closing /\ d.memory = dev.memory
  BY <1>1, AttachedFields
<1>3. CASE AllocDeviceExtension(n)
  <2>1. ~dev.attached /\ dev' = d /\ pc' = [pc EXCEPT !["usbd"] = "init"]
    BY <1>3 DEF AllocDeviceExtension
  <2> HIDE DEF d
  <2>2. /\ pc'["usbd"] = "init" /\ pc'["shutdown"] = pc["shutdown"]
        /\ pc'["unload"] = pc["unload"]
    BY <1>1, <2>1 DEF PcType, Agents
  <2> QED
    BY <1>2, <2>1, <2>2 DEF Chained, Absent
<1>4. CASE usb' = [usb EXCEPT ![n] = "refused"] /\ UNCHANGED <<dev, pc>>
  <2>1. \A m \in Nodes : usb[m] # "added" => usb'[m] # "added"
    BY <1>1, <1>4 DEF UsbType
  <2>2. dev' = dev /\ pc' = pc
    BY <1>4
  <2> HIDE DEF d
  <2> QED
    BY <2>1, <2>2 DEF Chained
<1> QED
  BY <1>3, <1>4 DEF UsbEnetAddDevice

LEMMA InitDeviceChained ==
  ASSUME Typed, Chained(dev, pc, usb), NEW n \in Nodes, InitDevice(n), Sound'
  PROVE  Chained(dev', pc', usb')
<1> DEFINE d == [Fresh(n, Len(OpenOrder)) EXCEPT !.memory = TRUE]
<1>1. dev \in DeviceType /\ NodeKnown(dev) /\ pc \in PcType
  BY TypedFields
<1>2. failed' # failed \cup {n}
  BY DEF Sound
<1>3. dev' = d /\ pc' = [pc EXCEPT !["usbd"] = "idle"] /\ pc["usbd"] = "init"
  BY <1>2 DEF InitDevice
<1>4. /\ ~d.stopping /\ ~d.resetting /\ d.attached = dev.attached
      /\ d.closing = dev.closing /\ d.open # {}
  BY <1>1, InitialisedFields
<1> HIDE DEF d
<1>5. /\ pc'["usbd"] = "idle" /\ pc'["shutdown"] = pc["shutdown"]
      /\ pc'["unload"] = pc["unload"]
  BY <1>1, <1>3 DEF PcType, Agents
<1>6. dev.attached /\ dev.closing = {}
  BY <1>3 DEF Chained, Absent
<1> QED
  BY <1>3, <1>4, <1>5, <1>6 DEF Chained

LEMMA CloseCompletedChained ==
  ASSUME Typed, Chained(dev, pc, usb), NEW n \in Nodes, NEW e \in Endpoints,
         AsyncCompletionRoutineClose(n, e)
  PROVE  /\ Chained(dev', pc', usb')
         /\ dev.memory /\ ~dev'.memory => dev.open = {} /\ dev'.closing = {}
<1> DEFINE d == [dev EXCEPT !.closing = dev.closing \ {<<n, e>>}]
<1>1. dev \in DeviceType /\ NodeKnown(dev) /\ pc \in PcType
  BY TypedFields
<1>2. /\ dev' = ContinueAsyncClose(d)
      /\ pc' = [pc EXCEPT !["usbd"] = IF CloseFinished(d) THEN "free" ELSE "idle"]
      /\ pc["usbd"] = "idle" /\ <<n, e>> \in dev.closing /\ usb' = usb
  BY DEF AsyncCompletionRoutineClose, Continue
<1>3. dev.attached /\ dev.stopping /\ dev.closing = {<<n, e>>}
  <2>1. dev.attached
    BY <1>2 DEF Chained, Absent
  <2>2. dev.stopping
    BY <1>2, <2>1 DEF Chained
  <2>3. \E x \in Nodes \X Endpoints : dev.closing = {x}
    BY <1>2, <2>1, <2>2 DEF Chained
  <2> QED
    BY <1>2, <2>1, <2>2, <2>3
<1>4. /\ d \in DeviceType /\ NodeKnown(d) /\ d.stopping /\ d.attached
      /\ d.open = dev.open /\ d.closing = {} /\ d.memory = dev.memory
  BY <1>1, <1>3, CompletedFields
<1> HIDE DEF d
<1>5. /\ pc'["usbd"] = (IF CloseFinished(d) THEN "free" ELSE "idle")
      /\ pc'["shutdown"] = pc["shutdown"] /\ pc'["unload"] = pc["unload"]
  BY <1>1, <1>2 DEF PcType, Agents
<1>6. dev'.attached /\ dev'.stopping
  BY <1>2, <1>4, ContinueFields
<1>7. CASE d.open # {}
  <2>1. /\ dev'.resetting /\ dev'.memory = d.memory
        /\ \E x \in Nodes \X Endpoints : dev'.closing = {x}
    BY <1>2, <1>4, <1>7, ContinueFields
  <2>2. pc'["usbd"] = "idle"
    BY <1>5, <1>7 DEF CloseFinished
  <2> QED
    BY <1>4, <1>5, <1>6, <2>1, <2>2 DEF Chained
<1>8. CASE d.open = {}
  <2>1. dev'.open = {} /\ dev'.closing = {} /\ ~dev'.memory
    BY <1>2, <1>4, <1>8, ContinueFields
  <2>2. pc'["usbd"] = "free"
    BY <1>4, <1>5, <1>8 DEF CloseFinished
  <2> QED
    BY <1>4, <1>5, <1>6, <1>8, <2>1, <2>2 DEF Chained, Absent
<1> QED
  BY <1>7, <1>8

LEMMA FreeChained ==
  ASSUME Typed, Chained(dev, pc, usb), NEW a \in Agents, FreeDeviceExtension(a)
  PROVE  Chained(dev', pc', usb')
<1> DEFINE d == [dev EXCEPT !.attached = FALSE]
<1>1. dev \in DeviceType /\ NodeKnown(dev) /\ pc \in PcType
  BY TypedFields
<1>2. /\ ~d.attached /\ d.stopping = dev.stopping /\ d.open = dev.open
      /\ d.closing = dev.closing /\ d.memory = dev.memory
  BY <1>1, AttachedFields
<1>3. dev' = d /\ pc' = [pc EXCEPT ![a] = "complete"] /\ pc[a] = "free" /\ usb' = usb
  BY DEF FreeDeviceExtension
<1> HIDE DEF d
<1>4. a = "usbd"
  BY <1>3 DEF Chained, Agents
<1>5. /\ pc'["usbd"] = "complete" /\ pc'["shutdown"] = pc["shutdown"]
      /\ pc'["unload"] = pc["unload"]
  BY <1>1, <1>3, <1>4 DEF PcType, Agents
<1> QED
  BY <1>2, <1>3, <1>4, <1>5 DEF Chained, Absent

LEMMA RemovedChained ==
  ASSUME Typed, Chained(dev, pc, usb), NEW a \in Agents, UsbdRemoveDeviceComplete(a)
  PROVE  Chained(dev', pc', usb')
<1>1. pc \in PcType /\ usb \in UsbType
  BY TypedFields
<1>2. /\ dev' = dev /\ pc' = [pc EXCEPT ![a] = "idle"] /\ pc[a] = "complete"
      /\ usb' = [n \in Nodes |-> IF n = dev.node THEN "removed" ELSE usb[n]]
  BY DEF UsbdRemoveDeviceComplete
<1>3. a = "usbd"
  BY <1>2 DEF Chained, Agents
<1>4. /\ pc'["usbd"] = "idle" /\ pc'["shutdown"] = pc["shutdown"]
      /\ pc'["unload"] = pc["unload"]
  BY <1>1, <1>2, <1>3 DEF PcType, Agents
<1>5. \A m \in Nodes : usb[m] # "added" => usb'[m] # "added"
  BY <1>2
<1>6. ~dev.attached /\ Absent(dev)
  BY <1>2, <1>3 DEF Chained
<1> QED
  BY <1>2, <1>4, <1>5, <1>6 DEF Chained

LEMMA RemoveDeviceChained ==
  ASSUME Typed, Chained(dev, pc, usb), NEW n \in Nodes, UsbEnetRemoveDevice(n)
  PROVE  Chained(dev', pc', usb')
<1>1. /\ pc \in PcType /\ usb \in UsbType /\ "usbd" \in Agents
      /\ pc["usbd"] = "idle" /\ usb[n] = "added" /\ usb' = [usb EXCEPT ![n] = "removing"]
  BY TypedFields DEF UsbEnetRemoveDevice, Agents
<1>2. CASE ~dev.stopping /\ Continue("usbd", [dev EXCEPT !.stopping = TRUE])
  <2>1. dev.attached
    BY <1>1, <1>2 DEF Chained
  <2> QED
    BY <1>1, <1>2, <2>1, BegunChained
<1>3. CASE dev.stopping /\ pc' = [pc EXCEPT !["usbd"] = "idle"] /\ dev' = dev
  <2>1. /\ pc'["usbd"] = "idle" /\ pc'["shutdown"] = pc["shutdown"]
        /\ pc'["unload"] = pc["unload"]
    BY <1>1, <1>3 DEF PcType, Agents
  <2> QED
    BY <1>1, <1>3, <2>1 DEF Chained
<1> QED
  BY <1>2, <1>3 DEF UsbEnetRemoveDevice, BeginRemove

LEMMA PowerDownChained ==
  ASSUME Typed, Chained(dev, pc, usb), BeginPowerDownAndClose, Sound'
  PROVE  Chained(dev', pc', usb')
<1>1. /\ pc \in PcType /\ "shutdown" \in Agents /\ "usbd" \in Agents /\ usb' = usb
      /\ ~NotInitialised
  BY TypedFields DEF BeginPowerDownAndClose, Agents, Sound
<1>2. dev.attached /\ pc["usbd"] = "idle"
  BY <1>1 DEF NotInitialised, Chained
<1>3. CASE dev.stopping
  <2>1. pc' = [pc EXCEPT !["shutdown"] = "idle"] /\ dev' = dev
    BY <1>2, <1>3 DEF BeginPowerDownAndClose, Chained
  <2>2. /\ pc'["usbd"] = pc["usbd"] /\ pc'["shutdown"] = "idle"
        /\ pc'["unload"] = pc["unload"]
    BY <1>1, <2>1 DEF PcType, Agents
  <2> QED
    BY <1>1, <2>1, <2>2 DEF Chained
<1>4. CASE ~dev.stopping
  <2>1. Continue("shutdown", [dev EXCEPT !.stopping = TRUE])
    BY <1>4 DEF BeginPowerDownAndClose
  <2> QED
    BY <1>1, <1>2, <1>4, <2>1, BegunChained
<1> QED
  BY <1>3, <1>4

LEMMA UnloadRemovesChained ==
  ASSUME Typed, Chained(dev, pc, usb), ShutdownRemoves, Sound'
  PROVE  Chained(dev', pc', usb')
<1>1. /\ pc \in PcType /\ "unload" \in Agents /\ "usbd" \in Agents /\ usb' = usb
      /\ ~NotInitialised
  BY TypedFields DEF ShutdownRemoves, Agents, Sound
<1>2. dev.attached /\ pc["usbd"] = "idle"
  BY <1>1 DEF NotInitialised, Chained
<1>3. CASE ~dev.stopping /\ Continue("unload", [dev EXCEPT !.stopping = TRUE])
  BY <1>1, <1>2, <1>3, BegunChained
<1>4. CASE dev.stopping /\ pc' = [pc EXCEPT !["unload"] = "idle"] /\ dev' = dev
  <2>1. /\ pc'["usbd"] = pc["usbd"] /\ pc'["unload"] = "idle"
        /\ pc'["shutdown"] = pc["shutdown"]
    BY <1>1, <1>4 DEF PcType, Agents
  <2> QED
    BY <1>1, <1>4, <2>1 DEF Chained
<1> QED
  BY <1>3, <1>4 DEF ShutdownRemoves, BeginRemove

LEMMA ThreadChained ==
  ASSUME Typed, Chained(dev, pc, usb),
         UsbdEhciShutdown \/ UsbdUnregisterDriverObject \/ ShutdownChecks
  PROVE  Chained(dev', pc', usb')
<1>1. pc \in PcType
  BY TypedFields
<1>2. dev' = dev /\ usb' = usb
  BY DEF UsbdEhciShutdown, UsbdUnregisterDriverObject, ShutdownChecks
<1>3. /\ pc'["usbd"] = pc["usbd"]
      /\ pc'["shutdown"] \notin {"init", "free", "complete"}
      /\ pc'["unload"] \notin {"init", "free", "complete"}
  BY <1>1 DEF UsbdEhciShutdown, UsbdUnregisterDriverObject, ShutdownChecks, PcType, Agents, Chained
<1> QED
  BY <1>2, <1>3 DEF Chained

-----------------------------------------------------------------------------
(* Each action keeps the owner.                                              *)

(* A close that is begun or continued does not change it.                    *)
LEMMA OwnerKept ==
  ASSUME Owned(dev, pc, usb), dev'.attached = dev.attached, dev'.node = dev.node, usb' = usb,
         \/ pc'["usbd"] = pc["usbd"]
         \/ pc["usbd"] = "idle" /\ pc'["usbd"] = "free"
  PROVE  Owned(dev', pc', usb')
  BY DEF Owned

LEMMA ContinueKeeps ==
  ASSUME NEW d \in DeviceType, NodeKnown(d), d.attached = dev.attached, d.node = dev.node,
         NEW a \in Agents, Continue(a, d)
  PROVE  dev'.attached = dev.attached /\ dev'.node = dev.node
  BY ContinueFields DEF Continue

LEMMA StoppingKeeps ==
  ASSUME Typed, NEW a \in Agents, Continue(a, [dev EXCEPT !.stopping = TRUE])
  PROVE  dev'.attached = dev.attached /\ dev'.node = dev.node
<1> DEFINE d == [dev EXCEPT !.stopping = TRUE]
<1>1. d \in DeviceType /\ NodeKnown(d) /\ d.attached = dev.attached /\ d.node = dev.node
  BY TypedFields, StoppingFields
<1> HIDE DEF d
<1> QED
  BY <1>1, ContinueKeeps DEF d

LEMMA AddDeviceOwned ==
  ASSUME Typed, Owned(dev, pc, usb), NEW n \in Nodes, UsbEnetAddDevice(n)
  PROVE  Owned(dev', pc', usb')
<1> DEFINE d == [dev EXCEPT !.attached = TRUE]
<1>1. dev \in DeviceType /\ NodeKnown(dev) /\ usb \in UsbType /\ pc \in PcType
  BY TypedFields
<1>2. d.attached /\ pc["usbd"] = "idle" /\ usb[n] = "absent"
  BY <1>1, AttachedFields DEF UsbEnetAddDevice
<1>3. CASE AllocDeviceExtension(n)
  <2>1. /\ ~dev.attached /\ dev' = d /\ pc' = [pc EXCEPT !["usbd"] = "init"]
        /\ usb' = [usb EXCEPT ![n] = "adding"]
    BY <1>3 DEF AllocDeviceExtension
  <2> HIDE DEF d
  <2>2. pc'["usbd"] = "init"
    BY <1>1, <2>1 DEF PcType, Agents
  <2>3. \A m \in Nodes : usb[m] \notin Present
    BY <1>2, <2>1 DEF Owned
  <2>4. \A m \in Nodes : usb'[m] = "adding" => Alone(m, usb')
    BY <1>1, <2>1, <2>3 DEF UsbType, Alone, Present
  <2> QED
    BY <1>2, <2>1, <2>2, <2>4 DEF Owned
<1>4. CASE usb' = [usb EXCEPT ![n] = "refused"] /\ UNCHANGED <<dev, pc>>
  <2>1. \A m \in Nodes : usb'[m] = usb[m] \/ (usb[m] \notin Present /\ usb'[m] \notin Present)
    BY <1>1, <1>2, <1>4 DEF UsbType, Present
  <2>2. dev' = dev /\ pc' = pc
    BY <1>4
  <2> QED
    BY <1>2, <2>1, <2>2 DEF Owned, Alone, Present
<1> QED
  BY <1>3, <1>4 DEF UsbEnetAddDevice

LEMMA InitDeviceOwned ==
  ASSUME Typed, Owned(dev, pc, usb), NEW n \in Nodes, InitDevice(n), Sound'
  PROVE  Owned(dev', pc', usb')
<1> DEFINE d == [Fresh(n, Len(OpenOrder)) EXCEPT !.memory = TRUE]
<1>1. dev \in DeviceType /\ pc \in PcType /\ usb \in UsbType
  BY TypedFields
<1>2. failed' # failed \cup {n}
  BY DEF Sound
<1>3. /\ dev' = d /\ pc' = [pc EXCEPT !["usbd"] = "idle"] /\ pc["usbd"] = "init"
      /\ usb[n] = "adding" /\ usb' = [usb EXCEPT ![n] = "added"]
  BY <1>2 DEF InitDevice
<1>4. d.attached = dev.attached /\ d.node = n
  BY <1>1, InitialisedFields
<1> HIDE DEF d
<1>5. pc'["usbd"] = "idle"
  BY <1>1, <1>3 DEF PcType, Agents
<1>6. Alone(n, usb)
  BY <1>3 DEF Owned
<1>7. usb'[n] = "added" /\ Alone(n, usb')
  BY <1>1, <1>3, <1>6 DEF UsbType, Alone
<1>8. dev.attached
  BY <1>3 DEF Owned, Present
<1> QED
  BY <1>3, <1>4, <1>5, <1>7, <1>8 DEF Owned

LEMMA CloseCompletedOwned ==
  ASSUME Typed, Owned(dev, pc, usb), NEW n \in Nodes, NEW e \in Endpoints,
         AsyncCompletionRoutineClose(n, e)
  PROVE  Owned(dev', pc', usb')
<1> DEFINE d == [dev EXCEPT !.closing = dev.closing \ {<<n, e>>}]
<1>1. /\ d \in DeviceType /\ NodeKnown(d) /\ d.attached = dev.attached
      /\ d.node = dev.node /\ pc \in PcType /\ "usbd" \in Agents
  BY TypedFields, CompletedFields DEF Agents
<1>2. Continue("usbd", d) /\ pc["usbd"] = "idle" /\ usb' = usb
  BY DEF AsyncCompletionRoutineClose
<1> HIDE DEF d
<1>3. dev'.attached = dev.attached /\ dev'.node = dev.node
  BY <1>1, <1>2, ContinueKeeps
<1>4. pc'["usbd"] \in {"idle", "free"}
  BY <1>1, <1>2 DEF Continue, PcType
<1> QED
  BY <1>2, <1>3, <1>4, OwnerKept

LEMMA FreeOwned ==
  ASSUME Typed, Chained(dev, pc, usb), Owned(dev, pc, usb), NEW a \in Agents,
         FreeDeviceExtension(a)
  PROVE  Owned(dev', pc', usb')
<1> DEFINE d == [dev EXCEPT !.attached = FALSE]
<1>1. pc \in PcType /\ ~d.attached /\ d.node = dev.node
  BY TypedFields, AttachedFields
<1>2. dev' = d /\ pc' = [pc EXCEPT ![a] = "complete"] /\ pc[a] = "free" /\ usb' = usb
  BY DEF FreeDeviceExtension
<1> HIDE DEF d
<1>3. a = "usbd"
  BY <1>2 DEF Chained, Agents
<1>4. pc'["usbd"] = "complete" /\ pc["usbd"] = "free" /\ dev.attached
  BY <1>1, <1>2, <1>3 DEF PcType, Agents, Chained
<1> QED
  BY <1>1, <1>2, <1>4 DEF Owned

LEMMA RemovedOwned ==
  ASSUME Typed, Chained(dev, pc, usb), Owned(dev, pc, usb), NEW a \in Agents,
         UsbdRemoveDeviceComplete(a)
  PROVE  Owned(dev', pc', usb')
<1>1. pc \in PcType
  BY TypedFields
<1>2. /\ dev' = dev /\ pc' = [pc EXCEPT ![a] = "idle"] /\ pc[a] = "complete"
      /\ usb' = [n \in Nodes |-> IF n = dev.node THEN "removed" ELSE usb[n]]
  BY DEF UsbdRemoveDeviceComplete
<1>3. a = "usbd"
  BY <1>2 DEF Chained, Agents
<1>4. pc'["usbd"] = "idle" /\ ~dev.attached /\ Alone(dev.node, usb)
  BY <1>1, <1>2, <1>3 DEF PcType, Agents, Chained, Owned
<1>5. \A m \in Nodes : usb'[m] \notin Present
  BY <1>2, <1>4 DEF Alone, Present
<1> QED
  BY <1>2, <1>4, <1>5 DEF Owned

LEMMA RemoveDeviceOwned ==
  ASSUME Typed, Owned(dev, pc, usb), NEW n \in Nodes, UsbEnetRemoveDevice(n)
  PROVE  Owned(dev', pc', usb')
<1>1. /\ pc \in PcType /\ usb \in UsbType /\ "usbd" \in Agents /\ pc["usbd"] = "idle"
      /\ usb[n] = "added" /\ usb' = [usb EXCEPT ![n] = "removing"] /\ BeginRemove("usbd")
  BY TypedFields DEF UsbEnetRemoveDevice, Agents
<1>2. dev'.attached = dev.attached /\ dev'.node = dev.node
  BY <1>1, StoppingKeeps DEF BeginRemove
<1>3. pc'["usbd"] \in {"idle", "free"}
  BY <1>1 DEF BeginRemove, Continue, PcType
<1>4. dev.attached
  BY <1>1 DEF Owned, Present
<1>5. dev.node \in Nodes /\ dev.node = n /\ Alone(n, usb)
  BY <1>1, <1>4 DEF Owned, Alone, Present
<1>6. usb'[n] = "removing" /\ Alone(n, usb')
  BY <1>1, <1>5 DEF UsbType, Alone
<1> QED
  BY <1>2, <1>3, <1>4, <1>5, <1>6 DEF Owned

LEMMA ThreadOwned ==
  ASSUME Typed, Chained(dev, pc, usb), Owned(dev, pc, usb),
         \/ BeginPowerDownAndClose \/ ShutdownRemoves
         \/ UsbdEhciShutdown \/ UsbdUnregisterDriverObject \/ ShutdownChecks
  PROVE  Owned(dev', pc', usb')
<1>1. pc \in PcType /\ "shutdown" \in Agents /\ "unload" \in Agents
  BY TypedFields DEF Agents
<1>2. usb' = usb /\ pc'["usbd"] = pc["usbd"]
  BY <1>1 DEF BeginPowerDownAndClose, ShutdownRemoves, BeginRemove, Continue, UsbdEhciShutdown,
     UsbdUnregisterDriverObject, ShutdownChecks, PcType, Agents
<1>3. dev'.attached = dev.attached /\ dev'.node = dev.node
  BY <1>1, StoppingKeeps DEF BeginPowerDownAndClose, ShutdownRemoves, BeginRemove,
     UsbdEhciShutdown, UsbdUnregisterDriverObject, ShutdownChecks
<1> QED
  BY <1>2, <1>3, OwnerKept

-----------------------------------------------------------------------------
(* The specification.                                                        *)

LEMMA InitGood == Init => IInv
<1> SUFFICES ASSUME Init PROVE IInv
  OBVIOUS
<1>1. dev \in DeviceType
  BY DEF Init, DeviceType
<1>2. usb \in UsbType /\ pc \in PcType
  BY DEF Init, UsbType, PcType, Agents
<1>3. Cardinality(failed) = 0 /\ failed \subseteq Nodes
  BY FS_EmptySet DEF Init
<1>4. TypeOK
  <2>1. Cardinality(failed) <= MaxFailures
    BY <1>3
  <2>2. registered \in BOOLEAN /\ raced \in BOOLEAN
    BY DEF Init
  <2> QED
    BY <1>1, <1>2, <1>3, <2>1, <2>2 DEF TypeOK, UsbType, PcType
<1>5. NodeKnown(dev)
  BY DEF Init, NodeKnown
<1>6. /\ ~dev.attached /\ ~dev.stopping /\ Absent(dev)
      /\ pc["usbd"] \in {"idle", "ready"} /\ pc["usbd"] # "ready"
      /\ pc["shutdown"] \in {"idle", "ready"} /\ pc["unload"] \in {"idle", "ready"}
  BY DEF Init, Absent, Agents
<1>7. Chained(dev, pc, usb)
  BY <1>6 DEF Init, Chained
<1>8. Owned(dev, pc, usb)
  BY <1>6 DEF Init, Owned, Present
<1> QED
  BY <1>4, <1>5, <1>7, <1>8 DEF IInv

LEMMA NextGood == IInv /\ [Next]_vars => IInv'
<1> SUFFICES ASSUME IInv, [Next]_vars PROVE IInv'
  OBVIOUS
<1>1. Typed
  BY DEF IInv, Typed
<1>2. Typed'
  BY <1>1, NextTyped
<1>3. ASSUME Sound' PROVE Chained(dev', pc', usb') /\ Owned(dev', pc', usb')
  <2>1. Chained(dev, pc, usb) /\ Owned(dev, pc, usb)
    BY <1>1, <1>3, SoundBefore DEF IInv
  <2>2. CASE UNCHANGED vars
    BY <2>1, <2>2 DEF vars
  <2>3. CASE Next
    <3>1. Chained(dev', pc', usb')
      BY <1>1, <1>3, <2>1, <2>3, AddDeviceChained, InitDeviceChained, CloseCompletedChained,
         FreeChained, RemovedChained, RemoveDeviceChained, PowerDownChained,
         UnloadRemovesChained, ThreadChained DEF Next, Proceed
    <3>2. Owned(dev', pc', usb')
      BY <1>1, <1>3, <2>1, <2>3, AddDeviceOwned, InitDeviceOwned, CloseCompletedOwned,
         FreeOwned, RemovedOwned, RemoveDeviceOwned, ThreadOwned DEF Next, Proceed
    <3> QED
      BY <3>1, <3>2
  <2> QED
    BY <2>2, <2>3
<1> QED
  BY <1>2, <1>3 DEF IInv, Typed

(* The state of the extension keeps its types; every close that is queued is *)
(* one of a node, for failing Inits and racing threads too.                  *)
THEOREM TypeCorrect == Spec => []TypeOK
<1>1. IInv => TypeOK
  BY DEF IInv
<1> QED
  BY <1>1, InitGood, NextGood, PTL DEF Spec

(* A removal, a shutdown and an unloading that meet share one chain of       *)
(* closes, and one agent returns the extension, once.                        *)
THEOREM ClosesFormOneChain == Spec => []OneChain
<1>1. IInv => OneChain
  <2> SUFFICES ASSUME IInv, Sound
               PROVE  /\ Cardinality(dev.closing) <= 1
                      /\ Cardinality({a \in Agents : pc[a] = "free"}) <= 1
                      /\ \A a \in Agents : pc[a] = "free" => dev.attached
    BY DEF OneChain
  <2> DEFINE free == {a \in Agents : pc[a] = "free"}
  <2>1. Chained(dev, pc, usb)
    BY DEF IInv
  <2>2. \A x : Cardinality({x}) = 1
    BY FS_Singleton
  <2>3. Cardinality({}) = 0
    BY FS_EmptySet
  <2>4. dev.closing = {} \/ \E x \in Nodes \X Endpoints : dev.closing = {x}
    <3>1. dev.attached \in BOOLEAN /\ dev.stopping \in BOOLEAN
      BY DEF IInv, TypeOK, DeviceType
    <3> QED
      BY <2>1, <3>1 DEF Chained, Absent
  <2>5. free = {} \/ free = {"usbd"}
    BY <2>1 DEF Chained, Agents
  <2>6. \A a \in free : dev.attached
    BY <2>1 DEF Chained, Agents
  <2>7. Cardinality(dev.closing) <= 1
    <3>1. Cardinality(dev.closing) = 0 \/ Cardinality(dev.closing) = 1
      BY <2>2, <2>3, <2>4
    <3> QED
      BY <3>1
  <2>8. Cardinality(free) <= 1
    <3>1. Cardinality(free) = 0 \/ Cardinality(free) = 1
      BY <2>2, <2>3, <2>5
    <3> QED
      BY <3>1
  <2> QED
    BY <2>6, <2>7, <2>8
<1> QED
  BY <1>1, InitGood, NextGood, PTL DEF Spec

(* The agent that ends a chain answers for the node whose device it closed;  *)
(* no other device enters the extension before that.                         *)
THEOREM AnswersForOwnNode == Spec => []AnswersOwnNode
<1>1. IInv => AnswersOwnNode
  <2> SUFFICES ASSUME IInv, Sound, NEW a \in Agents, pc[a] \in {"free", "complete"}
               PROVE  /\ dev.node \in Nodes /\ usb[dev.node] \in {"added", "removing"}
                      /\ \A n \in Nodes \ {dev.node} :
                           usb[n] \notin {"adding", "added", "removing"}
    BY DEF AnswersOwnNode
  <2>1. Chained(dev, pc, usb) /\ Owned(dev, pc, usb)
    BY DEF IInv
  <2>2. a = "usbd" /\ (pc[a] = "free" => dev.attached)
    BY <2>1 DEF Chained, Agents
  <2> QED
    BY <2>1, <2>2 DEF Owned, Alone, Present
<1> QED
  BY <1>1, InitGood, NextGood, PTL DEF Spec

(* The transfer buffers are freed after the last endpoint, and Init never    *)
(* overwrites handles or buffers that are in use.                            *)
THEOREM BuffersFreedLast == Spec => BuffersOutliveEndpoints
<1> DEFINE Step ==
      Sound =>
        /\ dev.memory /\ ~dev'.memory => dev.open = {} /\ dev'.closing = {}
        /\ \A n \in Nodes : usb[n] = "adding" /\ usb'[n] = "added" =>
             dev.open = {} /\ ~dev.memory /\ dev.closing = {}
<1>1. IInv /\ [Next]_vars => [Step]_vars
  <2> SUFFICES ASSUME IInv, [Next]_vars, Sound
               PROVE  /\ dev.memory /\ ~dev'.memory => dev.open = {} /\ dev'.closing = {}
                      /\ \A n \in Nodes : usb[n] = "adding" /\ usb'[n] = "added" =>
                           dev.open = {} /\ ~dev.memory /\ dev.closing = {}
    OBVIOUS
  <2>1. Typed /\ Chained(dev, pc, usb)
    BY DEF IInv, Typed
  <2>2. dev \in DeviceType /\ NodeKnown(dev) /\ usb \in UsbType
    BY <2>1, TypedFields
  <2>3. ASSUME dev.memory, ~dev'.memory PROVE dev.open = {} /\ dev'.closing = {}
    <3>1. dev.attached /\ pc["usbd"] = "idle"
      BY <2>1, <2>3 DEF Chained, Absent
    <3>2. CASE \E n \in Nodes, e \in Endpoints : AsyncCompletionRoutineClose(n, e)
      BY <2>1, <2>3, <3>2, CloseCompletedChained
    <3>3. CASE \E a \in Agents : Continue(a, [dev EXCEPT !.stopping = TRUE]) /\ ~dev.stopping
      <4>1. PICK a \in Agents : Continue(a, [dev EXCEPT !.stopping = TRUE])
        BY <3>3
      <4> DEFINE d == [dev EXCEPT !.stopping = TRUE]
      <4>2. dev.open # {}
        BY <2>1, <3>1, <3>3 DEF Chained
      <4>3. /\ d \in DeviceType /\ NodeKnown(d) /\ d.open # {} /\ d.memory = dev.memory
        BY <2>2, <4>2, StoppingFields
      <4>4. dev' = ContinueAsyncClose(d)
        BY <4>1 DEF Continue
      <4> HIDE DEF d
      <4>5. dev'.memory = dev.memory
        BY <4>3, <4>4, ContinueFields
      <4> QED
        BY <2>3, <4>5
    <3>4. CASE dev' = dev \/ (\E b \in BOOLEAN : dev' = [dev EXCEPT !.attached = b])
      BY <2>2, <2>3, <3>4, AttachedFields
    <3>5. \/ \E n \in Nodes, e \in Endpoints : AsyncCompletionRoutineClose(n, e)
          \/ \E a \in Agents : Continue(a, [dev EXCEPT !.stopping = TRUE]) /\ ~dev.stopping
          \/ dev' = dev
          \/ \E b \in BOOLEAN : dev' = [dev EXCEPT !.attached = b]
      <4>1. CASE UNCHANGED vars
        BY <4>1 DEF vars
      <4>2. CASE Proceed
        <5>1. ~\E n \in Nodes : InitDevice(n)
          BY <3>1 DEF InitDevice
        <5>2. CASE BeginPowerDownAndClose
          <6>1. dev.stopping => dev.resetting
            BY <2>1, <3>1 DEF Chained
          <6> QED
            BY <5>2, <6>1 DEF BeginPowerDownAndClose, Agents
        <5>3. CASE ShutdownRemoves
          BY <5>3 DEF ShutdownRemoves, BeginRemove, Agents
        <5>4. CASE ShutdownChecks
          BY <5>4 DEF ShutdownChecks
        <5>5. CASE \E a \in Agents : FreeDeviceExtension(a) \/ UsbdRemoveDeviceComplete(a)
          BY <5>5 DEF FreeDeviceExtension, UsbdRemoveDeviceComplete
        <5> QED
          BY <4>2, <5>1, <5>2, <5>3, <5>4, <5>5 DEF Proceed
      <4>3. CASE \E n \in Nodes : UsbEnetAddDevice(n)
        BY <4>3 DEF UsbEnetAddDevice, AllocDeviceExtension
      <4>4. CASE \E n \in Nodes : UsbEnetRemoveDevice(n)
        BY <4>4 DEF UsbEnetRemoveDevice, BeginRemove, Agents
      <4>5. CASE UsbdEhciShutdown \/ UsbdUnregisterDriverObject
        BY <4>5 DEF UsbdEhciShutdown, UsbdUnregisterDriverObject
      <4> QED
        BY <4>1, <4>2, <4>3, <4>4, <4>5 DEF Next
    <3> QED
      BY <3>2, <3>3, <3>4, <3>5
  <2>4. ASSUME NEW n \in Nodes, usb[n] = "adding", usb'[n] = "added"
        PROVE  dev.open = {} /\ ~dev.memory /\ dev.closing = {}
    <3>1. pc["usbd"] = "init"
      <4>1. CASE UNCHANGED vars
        BY <2>4, <4>1 DEF vars
      <4>2. CASE \E m \in Nodes : InitDevice(m)
        BY <4>2 DEF InitDevice
      <4>3. CASE \E a \in Agents : UsbdRemoveDeviceComplete(a)
        BY <2>4, <4>3 DEF UsbdRemoveDeviceComplete
      <4>4. CASE \E m \in Nodes : UsbEnetAddDevice(m) \/ UsbEnetRemoveDevice(m)
        BY <2>2, <2>4, <4>4 DEF UsbEnetAddDevice, UsbEnetRemoveDevice, AllocDeviceExtension, UsbType
      <4>5. CASE usb' = usb
        BY <2>4, <4>5
      <4> QED
        BY <4>1, <4>2, <4>3, <4>4, <4>5
           DEF Next, Proceed, FreeDeviceExtension, AsyncCompletionRoutineClose, BeginPowerDownAndClose,
               ShutdownChecks, ShutdownRemoves, UsbdEhciShutdown, UsbdUnregisterDriverObject
    <3> QED
      BY <2>1, <3>1 DEF Chained, Absent
  <2> QED
    BY <2>3, <2>4
<1> QED
  BY <1>1, InitGood, NextGood, PTL DEF Spec, BuffersOutliveEndpoints
=============================================================================
