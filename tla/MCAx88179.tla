----------------------------- MODULE MCAx88179 ------------------------------
(* A small instance of the AX88179 backends.                                 *)
EXTENDS Ax88179

MCBoth == {"ax88179", "ax179a"}
=============================================================================
