----------------------------- MODULE XmitService -----------------------------
(***************************************************************************)
(* What the transmit path promises, without rings, trackers, flags or      *)
(* DPCs: an accepted frame is held by the driver until it leaves, once and *)
(* in one transfer, to the USB stack, which has at most `Limit' transfers  *)
(* outstanding and completes each of them once.                            *)
(***************************************************************************)
EXTENDS Naturals, FiniteSets

CONSTANTS
  Frames,   \* identities of the frames users send
  Limit     \* transfers the USB stack may have outstanding

VARIABLES
  held,     \* frames accepted and not yet in a transfer
  wire      \* outstanding transfers, each a set of frames

Init == held = {} /\ wire = {}

Inside == held \cup UNION wire

(* One call into the driver: at most one frame is accepted, and any number of *)
(* transfers start, built from the frames held and the one just accepted.     *)
Transmit ==
  LET accepted == Inside' \ Inside
      started  == wire' \ wire
  IN  /\ Cardinality(accepted) <= 1
      /\ accepted \subseteq Frames
      /\ wire \subseteq wire'
      /\ Cardinality(wire') <= Limit
      /\ \A F, G \in started : F # {} /\ (F # G => F \cap G = {})
      /\ UNION started \subseteq held \cup accepted
      /\ held' = (held \cup accepted) \ UNION started

(* The USB stack completes one transfer.                                      *)
Complete == \E F \in wire : wire' = wire \ {F} /\ UNCHANGED held

Next == Transmit \/ Complete

Spec == Init /\ [][Next]_<<held, wire>>
=============================================================================
