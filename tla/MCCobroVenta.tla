--------------------------- MODULE MCCobroVenta ---------------------------
(* Instances of CobroVenta for TLC. *)
EXTENDS CobroVenta, TLC
CONSTANTS r1, r2, r3, k1, v1

\* r1 and r2 send the same charge; r3 is another one, without a key.
DosYUna == [p \in Peticiones |-> IF p = r3 THEN SinLlave ELSE k1]
Todas == [p \in Peticiones |-> k1]
DeAUno == [p \in Peticiones |-> 1]
Contado == [p \in Peticiones |-> "contado"]
ConSaldo == [p \in Peticiones |-> "saldo"]
ContadoYFiado == [p \in Peticiones |-> IF p = r3 THEN "fiado" ELSE "contado"]
SaldoYFiado == [p \in Peticiones |-> IF p = r3 THEN "fiado" ELSE "saldo"]

\* Only where every request sends the same charge.
Simetria == Permutations(Peticiones)

TodosLosPasos == PasosLlave \cup PasosCrear \cup PasosVoid
\* The stock is out and no sale backs it yet.
Ventana == {"numerar", "persistir", "compensar", "compensarDup"}
VentanaVoid == {"creditoV", "stockV", "restaurarV", "deshacerV"}
CortesSeguros == TodosLosPasos \ (Ventana \cup VentanaVoid)
\* A compensation that fails is reported for reconciliation by hand.
FallosSeguros == TodosLosPasos \ {"compensar"}
\* A process lost with the lock in hand, or between the charge and its entry.
CortesCobro == {"revisar", "asentar", "cxc", "soltar"}
SinSaldo == {"consumir"}
FallosCobro == {"consumir", "deshacer", "cxc", "asentar", "soltar", "stockV"}
=============================================================================
