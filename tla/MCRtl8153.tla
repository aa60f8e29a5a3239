----------------------------- MODULE MCRtl8153 ------------------------------
(* Small instances of the RTL8153 backend.                                   *)
EXTENDS Rtl8153

MCFilters == {{"unicast", "broadcast", "multicast"}, {"alternate", "broadcast"}}
=============================================================================
