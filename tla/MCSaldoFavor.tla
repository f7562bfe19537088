--------------------------- MODULE MCSaldoFavor ---------------------------
(* Instances of SaldoFavor for TLC. *)
EXTENDS SaldoFavor, TLC
CONSTANTS a1, a2, v1, v2, b1, b2

MontoUno == [o \in Abonos \cup Ventas |-> 1]
TodosLosPasos == Pasos \ {"libre"}
\* Every cut and failure but the ones right after the claim.
SinReclamo == TodosLosPasos \ {"mover", "desmarcar"}
=============================================================================
