-------------------------- MODULE MCAx88178Recovery --------------------------
(* A small instance of the recovery of the AX88178.                          *)
EXTENDS Ax88178Recovery, TLC

MCPackets == {"p1", "p2"}
=============================================================================
