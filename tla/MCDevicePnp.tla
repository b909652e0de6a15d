---------------------------- MODULE MCDevicePnp ----------------------------
(* Instances of DevicePnp for TLC. *)
EXTENDS DevicePnp

\* LPT1 and LPT2, with an address by default.
MCDefaults == [n \in {0, 1} |-> 1]
=============================================================================
