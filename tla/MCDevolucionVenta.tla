------------------------- MODULE MCDevolucionVenta -------------------------
(* Instances of DevolucionVenta for TLC. *)
EXTENDS DevolucionVenta, TLC
CONSTANTS k1, k2, c1, c2, c3, j1, b1, v1, v2

\* A return and a rebate, or two returns; the first in cash, the rest in favour.
UnaRebaja == [k \in Ops |-> IF k = k2 THEN "rebaja" ELSE "devolucion"]
SoloDevoluciones == [k \in Ops |-> "devolucion"]
DeAUno == [k \in Ops |-> 1]
DeADos == [k \in Ops |-> 2]
UnoYDos == [k \in Ops |-> IF k = k2 THEN 2 ELSE 1]
Mixto == [k \in Ops |-> IF k = k1 THEN "cash" ELSE "credit_note"]
\* c1 asks for k1, c2 for k2 and c3 repeats c1.
Pide == [c \in Clientes |-> IF c = c2 THEN k2 ELSE k1]
Simetria == Permutations(Anuladores)

Todos == PasosRegistro \cup PasosAnular
\* The window the code declares open: between a movement and its mark.
Marcas == {"marcaStock", "marcaCaja"}
\* Between writing the record and checking it again.
Revision == {"revisarEstado", "revisarSuma", "retirar"}
CortesSeguros == PasosRegistro \ (Marcas \cup Revision)
=============================================================================
