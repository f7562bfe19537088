-------------------------- MODULE MCTransmisionDian --------------------------
(* Instances of TransmisionDian for TLC. *)
EXTENDS TransmisionDian
CONSTANTS u1, b1
=============================================================================
