---------------------------- MODULE UsbEnetClose ----------------------------
(***************************************************************************)
(* The life of the one device extension: USBD adds a device, CUsbEnet::Init*)
(* opens its endpoints, and a removal, a console shutdown or the unloading *)
(* of the plug-in closes them one after the other.  A step is what runs    *)
(* while NicLock is held, or between two holders of it.                    *)
(***************************************************************************)
EXTENDS Naturals, Sequences, FiniteSets

CONSTANTS
  Nodes,       \* USBD_DEVICE_NODE objects: one for each time a device is plugged in
  NoNode,
  OpenOrder,   \* the endpoints the chipset uses, in the order Init opens them
  Threads,     \* those of "shutdown" and "unload" that run
  MaxFailures  \* bound: Inits that fail

Endpoints == {"default", "interrupt", "receive", "transmit"}

ASSUME CloseAssumption ==
  /\ IsFiniteSet(Nodes)
  /\ NoNode \notin Nodes
  /\ OpenOrder \in {<<"default", "interrupt", "receive", "transmit">>,
                    <<"default", "receive", "transmit">>}
  /\ Threads \subseteq {"shutdown", "unload"}
  /\ MaxFailures \in Nat

(* USBD runs on processor 2, one DPC at a time; shutdown is the thread in    *)
(* UsbdEhciShutdown, unload the one that detaches the plug-in.               *)
Agents == {"usbd", "shutdown", "unload"}

VARIABLES
  dev,         \* the device extension, see DeviceType
  usb,         \* what USBD knows of each node
  pc,          \* what each agent is about to do
  registered,  \* the driver object is registered
  failed,      \* history: the nodes whose Init failed
  raced        \* history: a thread closed a device that was not, or no longer, initialised

history == <<failed, raced>>
vars == <<dev, usb, pc, registered, history>>

DeviceType ==
  [attached  : BOOLEAN,                      \* DeviceAttached
   stopping  : BOOLEAN,                      \* STOPPING
   resetting : BOOLEAN,                      \* RESETTING
   node      : Nodes \cup {NoNode},          \* DeviceNode
   open      : SUBSET Endpoints,             \* endpoint handles that are not NULL
   closing   : SUBSET (Nodes \X Endpoints),  \* closes USBD has not completed
   memory    : BOOLEAN]                      \* PhysicalMemory

-----------------------------------------------------------------------------
(* ContinueAsyncCloseAndDropLock.                                            *)

CloseOrder == <<"interrupt", "transmit", "receive", "default">>

NextToClose(open) ==
  CloseOrder[CHOOSE i \in 1 .. 4 :
    CloseOrder[i] \in open /\ \A j \in 1 .. (i - 1) : CloseOrder[j] \notin open]

ContinueAsyncCloseFreesFirst(d) ==   \* mutant
  IF d.open # {}
  THEN LET e == NextToClose(d.open)
       IN [d EXCEPT !.resetting = TRUE,
                    !.open = @ \ {e},
                    !.closing = @ \cup {<<d.node, e>>},
                    !.memory = @ /\ e # "receive"]
  ELSE [d EXCEPT !.resetting = FALSE, !.memory = @ /\ ~d.stopping]

ContinueAsyncCloseDetachesEarly(d) ==   \* mutant
  IF d.open # {}
  THEN LET e == NextToClose(d.open)
       IN [d EXCEPT !.resetting = TRUE,
                    !.attached = @ /\ d.open # {e},
                    !.open = @ \ {e},
                    !.closing = @ \cup {<<d.node, e>>}]
  ELSE [d EXCEPT !.resetting = FALSE, !.memory = @ /\ ~d.stopping]

(* Queue the close of one endpoint; when none is left and the device is      *)
(* stopping, free its memory.                                                *)
ContinueAsyncClose(d) ==
  IF d.open # {}
  THEN LET e == NextToClose(d.open)
       IN [d EXCEPT !.resetting = TRUE,
                    !.open = @ \ {e},
                    !.closing = @ \cup {<<d.node, e>>}]
  ELSE [d EXCEPT !.resetting = FALSE, !.memory = @ /\ ~d.stopping]

CloseFinished(d) == d.open = {} /\ d.stopping

(* Agent a continues the close from device state d and drops the lock.       *)
Continue(a, d) ==
  /\ dev' = ContinueAsyncClose(d)
  /\ pc' = [pc EXCEPT ![a] = IF CloseFinished(d) THEN "free" ELSE "idle"]

(* The rest of it, without the lock.                                         *)
FreeDeviceExtension(a) ==
  /\ pc[a] = "free"
  /\ dev' = [dev EXCEPT !.attached = FALSE]
  /\ pc' = [pc EXCEPT ![a] = "complete"]
  /\ UNCHANGED <<usb, registered, history>>

(* DeviceNode is read again here.                                            *)
UsbdRemoveDeviceComplete(a) ==
  /\ pc[a] = "complete"
  /\ usb' = [n \in Nodes |-> IF n = dev.node THEN "removed" ELSE usb[n]]
  /\ pc' = [pc EXCEPT ![a] = "idle"]
  /\ UNCHANGED <<dev, registered, history>>

-----------------------------------------------------------------------------
(* UsbEnetAddDevice and Init.                                                *)

AllocDeviceExtension(n) ==
  /\ ~dev.attached
  /\ dev' = [dev EXCEPT !.attached = TRUE]
  /\ usb' = [usb EXCEPT ![n] = "adding"]
  /\ pc' = [pc EXCEPT !["usbd"] = "init"]

(* A node without the endpoints, or a second device, is refused.             *)
UsbEnetAddDevice(n) ==
  /\ registered /\ pc["usbd"] = "idle" /\ usb[n] = "absent"
  /\ \/ AllocDeviceExtension(n)
     \/ usb' = [usb EXCEPT ![n] = "refused"] /\ UNCHANGED <<dev, pc>>
  /\ UNCHANGED <<registered, history>>

(* Init opens the endpoints and allocates the transfer buffers; at the first *)
(* failure it begins to close what it opened.                                *)
Fresh(n, opened) ==
  [dev EXCEPT !.stopping = FALSE, !.resetting = FALSE, !.node = n,
              !.open = {OpenOrder[i] : i \in 1 .. opened}]

InitDevice(n) ==
  /\ pc["usbd"] = "init" /\ usb[n] = "adding"
  /\ usb' = [usb EXCEPT ![n] = "added"]
  /\ \/ /\ dev' = [Fresh(n, Len(OpenOrder)) EXCEPT !.memory = TRUE]
        /\ pc' = [pc EXCEPT !["usbd"] = "idle"]
        /\ UNCHANGED failed
     \/ /\ Cardinality(failed) < MaxFailures
        /\ failed' = failed \cup {n}
        /\ \E opened \in 0 .. Len(OpenOrder) : Continue("usbd", Fresh(n, opened))
  /\ UNCHANGED <<registered, raced>>

AsyncCompletionRoutineCloseLast(n, e) ==   \* mutant
  /\ pc["usbd"] = "idle" /\ <<n, e>> \in dev.closing
  /\ IF e = "default"
     THEN dev' = [dev EXCEPT !.closing = @ \ {<<n, e>>}] /\ UNCHANGED pc
     ELSE Continue("usbd", [dev EXCEPT !.closing = @ \ {<<n, e>>}])
  /\ UNCHANGED <<usb, registered, history>>

AsyncCompletionRoutineClose(n, e) ==
  /\ pc["usbd"] = "idle" /\ <<n, e>> \in dev.closing
  /\ Continue("usbd", [dev EXCEPT !.closing = @ \ {<<n, e>>}])
  /\ UNCHANGED <<usb, registered, history>>

-----------------------------------------------------------------------------
(* BeginRemove and BeginPowerDownAndClose.                                   *)

BeginRemove(a) ==
  \/ ~dev.stopping /\ Continue(a, [dev EXCEPT !.stopping = TRUE])
  \/ dev.stopping /\ pc' = [pc EXCEPT ![a] = "idle"] /\ UNCHANGED dev

UsbEnetRemoveDevice(n) ==
  /\ pc["usbd"] = "idle" /\ usb[n] = "added"
  /\ usb' = [usb EXCEPT ![n] = "removing"]
  /\ BeginRemove("usbd")
  /\ UNCHANGED <<registered, history>>

(* DeviceAttached was set when the thread looked, but Init has not run yet,  *)
(* or the device is closed already.                                          *)
NotInitialised ==
  \/ ~dev.attached
  \/ \E a \in Agents : pc[a] \in {"init", "free", "complete"}

(* UsbdEhciShutdown_Hook, once; the attached flag is read without the lock.  *)
UsbdEhciShutdown ==
  /\ pc["shutdown"] = "ready"
  /\ pc' = [pc EXCEPT !["shutdown"] = IF dev.attached THEN "powerDown" ELSE "idle"]
  /\ UNCHANGED <<dev, usb, registered, history>>

BeginPowerDownAlways ==   \* mutant
  /\ pc["shutdown"] = "powerDown"
  /\ Continue("shutdown", [dev EXCEPT !.stopping = TRUE])
  /\ raced' = (raced \/ NotInitialised)
  /\ UNCHANGED <<usb, registered, failed>>

BeginPowerDownUnlessResetting ==   \* mutant
  /\ pc["shutdown"] = "powerDown"
  /\ IF dev.stopping \/ dev.resetting
     THEN pc' = [pc EXCEPT !["shutdown"] = "idle"] /\ UNCHANGED dev
     ELSE Continue("shutdown", [dev EXCEPT !.stopping = TRUE])
  /\ raced' = (raced \/ NotInitialised)
  /\ UNCHANGED <<usb, registered, failed>>

BeginPowerDownAndClose ==
  /\ pc["shutdown"] = "powerDown"
  /\ IF dev.stopping /\ dev.resetting
     THEN pc' = [pc EXCEPT !["shutdown"] = "idle"] /\ UNCHANGED dev
     ELSE Continue("shutdown", [dev EXCEPT !.stopping = TRUE])
  /\ raced' = (raced \/ NotInitialised)
  /\ UNCHANGED <<usb, registered, failed>>

(* Main::Shutdown.                                                           *)
UsbdUnregisterDriverObject ==
  /\ pc["unload"] = "ready"
  /\ registered' = FALSE
  /\ pc' = [pc EXCEPT !["unload"] = "unregistered"]
  /\ UNCHANGED <<dev, usb, history>>

ShutdownChecks ==
  /\ pc["unload"] = "unregistered"
  /\ pc' = [pc EXCEPT !["unload"] = IF dev.attached THEN "remove" ELSE "idle"]
  /\ UNCHANGED <<dev, usb, registered, history>>

ShutdownRemoves ==
  /\ pc["unload"] = "remove"
  /\ BeginRemove("unload")
  /\ raced' = (raced \/ NotInitialised)
  /\ UNCHANGED <<usb, registered, failed>>

-----------------------------------------------------------------------------

Init ==
  /\ dev = [attached |-> FALSE, stopping |-> FALSE, resetting |-> FALSE, node |-> NoNode,
            open |-> {}, closing |-> {}, memory |-> FALSE]
  /\ usb = [n \in Nodes |-> "absent"]
  /\ pc = [a \in Agents |-> IF a \in Threads THEN "ready" ELSE "idle"]
  /\ registered = TRUE
  /\ failed = {} /\ raced = FALSE

Proceed ==
  \/ \E a \in Agents : FreeDeviceExtension(a) \/ UsbdRemoveDeviceComplete(a)
  \/ \E n \in Nodes : InitDevice(n) \/ \E e \in Endpoints : AsyncCompletionRoutineClose(n, e)
  \/ BeginPowerDownAndClose
  \/ ShutdownChecks \/ ShutdownRemoves

Next ==
  \/ Proceed
  \/ \E n \in Nodes : UsbEnetAddDevice(n) \/ UsbEnetRemoveDevice(n)
  \/ UsbdEhciShutdown \/ UsbdUnregisterDriverObject

Spec == Init /\ [][Next]_vars

(* USBD completes every close; DPCs and threads run on.                      *)
Fairness == WF_vars(Proceed)

FairSpec == Spec /\ Fairness

-----------------------------------------------------------------------------
(* Properties.  Two things break the close, and both are findings or hazards *)
(* of the project: an Init that fails starts a close of its own, which a     *)
(* removal does not know of; and a thread that closes on the word of a       *)
(* DeviceAttached that is stale.  The properties say what holds otherwise,   *)
(* and by that, that nothing else breaks it.                                 *)

Sound == failed = {} /\ ~raced

(* The variables hold values of their types; in particular every close is    *)
(* queued for a node.                                                        *)
TypeOK ==
  /\ dev \in DeviceType
  /\ usb \in [Nodes -> {"absent", "refused", "adding", "added", "removing", "removed"}]
  /\ pc \in [Agents -> {"ready", "idle", "init", "powerDown", "unregistered", "remove", "free", "complete"}]
  /\ registered \in BOOLEAN /\ raced \in BOOLEAN
  /\ failed \subseteq Nodes /\ Cardinality(failed) <= MaxFailures

(* CloseRequest is one object, so that only one close may be with USBD: a    *)
(* removal, a shutdown and an unloading that meet share one chain of closes, *)
(* and only one agent reaches the end of it and returns the extension.       *)
OneChain ==
  Sound =>
    /\ Cardinality(dev.closing) <= 1
    /\ Cardinality({a \in Agents : pc[a] = "free"}) <= 1
    /\ \A a \in Agents : pc[a] = "free" => dev.attached

(* The buffers that USB transfers write to are freed when every endpoint has *)
(* been closed, never while one is open or being closed; and since Init      *)
(* overwrites every handle and the buffers' address, a new device only gets  *)
(* the extension when the last one is closed completely.                     *)
BuffersOutliveEndpoints ==
  [][Sound =>
       /\ dev.memory /\ ~dev'.memory => dev.open = {} /\ dev'.closing = {}
       /\ \A n \in Nodes : usb[n] = "adding" /\ usb'[n] = "added" =>
            dev.open = {} /\ ~dev.memory /\ dev.closing = {}]_vars

(* FreeDeviceExtension lets the next AddDevice in before DeviceNode is read  *)
(* for the last time.  The agent that ends a chain still answers for the     *)
(* node whose device it closed: from the return of the extension to the      *)
(* answer no other device is in it.                                          *)
AnswersOwnNode ==
  Sound =>
    \A a \in Agents : pc[a] \in {"free", "complete"} =>
      /\ dev.node \in Nodes /\ usb[dev.node] \in {"added", "removing"}
      /\ \A n \in Nodes \ {dev.node} : usb[n] \notin {"adding", "added", "removing"}

(* Every removal USBD asks for is answered by UsbdRemoveDeviceComplete, also *)
(* when the device was being closed already.                                 *)
RemoveCompletes ==
  \A n \in Nodes : usb[n] = "removing" ~> usb[n] = "removed" \/ ~Sound

(* The shutdown's wait for IsPowerDownComplete ends, whatever it met.        *)
PowerDownCompletes == pc["shutdown"] = "powerDown" ~> ~dev.attached

(* TRAP_ASSERT(PreviousAttached == 1), CUsbEnet.cpp:1119: the extension is   *)
(* not returned twice for a device.                                          *)
PreviousAttachedIsOne == \A a \in Agents : pc[a] = "free" => dev.attached
=============================================================================
