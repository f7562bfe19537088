---------------------------- MODULE CobroPromesa ----------------------------
(*****************************************************************************)
(* What the checkout promises, without its steps: a sale takes its units     *)
(* and exists in one atomic step, once per key and only if there are units;  *)
(* undoing it (its charge was rejected) or voiding it gives them back, and a *)
(* void that cannot be finished takes them again.                            *)
(*****************************************************************************)
EXTENDS Integers

CONSTANTS Peticiones, LlaveDe, SinLlave, Cuanto, Existencias

VARIABLES disponible, venta

Init == disponible = Existencias /\ venta = [p \in Peticiones |-> "no"]

SinVenta(k) == \A p \in Peticiones : LlaveDe[p] = k => venta[p] = "no"

Vende(p) ==
    /\ venta[p] = "no"
    /\ LlaveDe[p] = SinLlave \/ SinVenta(LlaveDe[p])
    /\ disponible >= Cuanto[p]
    /\ venta' = [venta EXCEPT ![p] = "completa"]
    /\ disponible' = disponible - Cuanto[p]

Retira(p) ==
    /\ venta[p] = "completa"
    /\ \E estado \in {"no", "anulada"} : venta' = [venta EXCEPT ![p] = estado]
    /\ disponible' = disponible + Cuanto[p]

Restaura(p) ==
    /\ venta[p] = "anulada" /\ disponible >= Cuanto[p]
    /\ venta' = [venta EXCEPT ![p] = "completa"]
    /\ disponible' = disponible - Cuanto[p]

Next == \E p \in Peticiones : Vende(p) \/ Retira(p) \/ Restaura(p)

Spec == Init /\ [][Next]_<<disponible, venta>>
=============================================================================
