------------------------------ MODULE MCNomina ------------------------------
(* Instances of Nomina for TLC. *)
EXTENDS Nomina
CONSTANTS c1, n1, a1, v1

MontoDe == [c \in Consumos |-> 2]
UnMes == [n \in Corridas |-> 1]
VentaDe == [v \in Anuladores |-> c1]
=============================================================================
