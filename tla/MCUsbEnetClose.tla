--------------------------- MODULE MCUsbEnetClose ---------------------------
(* A chipset with an interrupt endpoint.                                     *)
EXTENDS UsbEnetClose

MCOpenOrder == <<"default", "interrupt", "receive", "transmit">>
=============================================================================
