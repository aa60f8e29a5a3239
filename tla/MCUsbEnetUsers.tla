--------------------------- MODULE MCUsbEnetUsers ---------------------------
(* A title and a debug user, with masks that overlap.                        *)
EXTENDS UsbEnetUsers

CONSTANTS title, debug

MCMask == [u \in {title, debug} |->
             IF u = title THEN {"unicast", "broadcast"} ELSE {"alternate", "broadcast"}]
=============================================================================
