----------------------------- MODULE MCAx88178 ------------------------------
(* A small instance of the AX88178 backend.                                  *)
EXTENDS Ax88178

MCFilters == {[hash |-> "none", rx |-> "broadcast"], [hash |-> "group", rx |-> "multicast"]}

MCEeproms == {[mode |-> "marvell", led |-> TRUE], [mode |-> "realtek", led |-> TRUE],
              [mode |-> "patch", led |-> FALSE]}
=============================================================================
