-------------------------- MODULE MCUsbEnetReceive --------------------------
(* Trailers: none, the stale one, and tables of one and two entries.         *)
EXTENDS UsbEnetReceive

MCStale == [count |-> 0, offset |-> 0]
MCTrailers == {MCStale, [count |-> 2, offset |-> 64]} \cup [count: {1, 2}, offset: {48}]
=============================================================================
