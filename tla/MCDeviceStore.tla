--------------------------- MODULE MCDeviceStore ---------------------------
(* Small instances of DeviceStore: each device reports a value of its own. *)
EXTENDS DeviceStore, TLC

MCReadings == [d \in Dev |-> {<<d, 1>>}]
\* table names that differ for different devices
Distinct   == [d \in Dev |-> d]
Symmetry   == Permutations(Client) \cup Permutations(Dev)
=============================================================================
