---------------------------- MODULE MCUsbEnetXmit ----------------------------
(* Small instances of the transmit path.                                      *)
EXTENDS UsbEnetXmit, TLC

FrameSymmetry == Permutations(Frames)
=============================================================================
