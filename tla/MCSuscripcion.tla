--------------------------- MODULE MCSuscripcion ---------------------------
(****************************************************************************)
(* A company that subscribes, cancels and subscribes again, with one sweep. *)
(****************************************************************************)
EXTENDS Suscripcion

CONSTANTS u1, u2, c1, c2, b1
=============================================================================
