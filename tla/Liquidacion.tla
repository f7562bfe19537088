----------------------------- MODULE Liquidacion -----------------------------
(****************************************************************************)
(* The settlement of a delivery platform (platform-settlements.service):    *)
(* when the platform pays, its orders are reserved for one settlement, one  *)
(* conditional write each, and the ledger and the bank are told.  Annulling *)
(* a settlement goes the other way in steps that a retry resumes: it is     *)
(* taken, its entry is reversed, its orders are released and it is closed.  *)
(* The void of an order and its settlement exclude each other by their      *)
(* conditions alone.                                                        *)
(****************************************************************************)
EXTENDS Integers, FiniteSets

CONSTANTS
    Liquidaciones,  \* the settlements, named by the request that creates each
    Pedidos,        \* delivered orders of one platform and branch
    Cobra,          \* the orders that each settlement says it collects
    Anuladores,     \* requests that annul settlements
    Voids,          \* requests that void the sale of an order
    Nadie,
    Cruces,         \* may a settlement be annulled while its creation is under way
    Fallan, Cortan, \* steps that may fail, and where the process may be lost
    MaxFallas, MaxCortes

VARIABLES
    pedido,     \* the orders: state of the sale, and the settlement that has it
    liq,        \* status of each settlement
    libro,      \* its entry: none, alive, reversed, or left to reconcile
    banco,      \* settlements whose money is in the bank account
    pc, obj,    \* the next await of each actor, and what it works on
    tomados,    \* the orders each creation has gone over, and those it reserved
    fallas, cortes

vars == <<pedido, liq, libro, banco, pc, obj, tomados, fallas, cortes>>

Actores == Liquidaciones \cup Anuladores \cup Voids

\* The kinds of actors are disjoint, and a settlement collects orders there are.
Supuestos ==
    /\ Liquidaciones \cap (Anuladores \cup Voids) = {} /\ Anuladores \cap Voids = {}
    /\ Nadie \notin Liquidaciones
    /\ Cobra \in [Liquidaciones -> SUBSET Pedidos]
    /\ MaxFallas \in Nat /\ MaxCortes \in Nat

TypeOK ==
    /\ pedido \in [Pedidos -> [estado : {"completed", "void"}, liq : Liquidaciones \cup {Nadie}]]
    /\ liq \in [Liquidaciones -> {"no", "active", "voiding", "void", "borrada"}]
    /\ libro \in [Liquidaciones -> {"no", "vivo", "reversado", "pendiente"}]
    /\ banco \subseteq Liquidaciones
    /\ pc \in [Actores -> {"libre", "crear", "reservar", "soltar", "borrar", "asentar", "depositar",
                           "reversar", "retirar", "liberar", "cerrar", "voltear", "reponer",
                           "hecho", "fin"}]
    /\ obj \in [Actores -> Liquidaciones \cup Pedidos \cup {Nadie}]
    /\ tomados \in [Liquidaciones -> [vistos : SUBSET Pedidos, suyos : SUBSET Pedidos]]
    /\ fallas \in 0..MaxFallas /\ cortes \in 0..MaxCortes

Init ==
    /\ pedido = [p \in Pedidos |-> [estado |-> "completed", liq |-> Nadie]]
    /\ liq = [l \in Liquidaciones |-> "no"]
    /\ libro = [l \in Liquidaciones |-> "no"]
    /\ banco = {}
    /\ pc = [a \in Actores |-> "libre"]
    /\ obj = [a \in Actores |-> Nadie]
    /\ tomados = [l \in Liquidaciones |-> [vistos |-> {}, suyos |-> {}]]
    /\ fallas = 0 /\ cortes = 0

Va(a, paso) == pc' = [pc EXCEPT ![a] = paso]
Libres(P) == {p \in P : pedido[p] = [estado |-> "completed", liq |-> Nadie]}
\* liberar: the orders of a settlement are left without one.
Suelta(l) == pedido' = [p \in Pedidos |->
    IF pedido[p].liq = l THEN [pedido[p] EXCEPT !.liq = Nadie] ELSE pedido[p]]

-----------------------------------------------------------------------------
(* create *)

\* The orders must all be free and completed.
Pedir(l) ==
    /\ pc[l] = "libre"
    /\ Va(l, IF Libres(Cobra[l]) = Cobra[l] THEN "crear" ELSE "fin")
    /\ UNCHANGED <<pedido, liq, libro, banco, obj, tomados, fallas, cortes>>

Crear(l) ==
    /\ pc[l] = "crear"
    /\ liq' = [liq EXCEPT ![l] = "active"]
    /\ Va(l, "reservar")
    /\ UNCHANGED <<pedido, libro, banco, obj, tomados, fallas, cortes>>

\* Mutant: the write does not ask that the order has no settlement.
TomaCiega(l, p) == pedido[p].estado = "completed"

\* What the reservation asks of an order.
Toma(l, p) == pedido[p].estado = "completed" /\ pedido[p].liq = Nadie

\* The updateMany goes over the orders one by one, beside whoever else does.
Reservar(l, p) ==
    /\ pc[l] = "reservar" /\ p \in Cobra[l] \ tomados[l].vistos
    /\ tomados' = [tomados EXCEPT ![l] =
            [vistos |-> @.vistos \cup {p}, suyos |-> IF Toma(l, p) THEN @.suyos \cup {p} ELSE @.suyos]]
    /\ pedido' = IF Toma(l, p) THEN [pedido EXCEPT ![p].liq = l] ELSE pedido
    /\ UNCHANGED <<liq, libro, banco, pc, obj, fallas, cortes>>

\* All of them, or none.
Contar(l) ==
    /\ pc[l] = "reservar" /\ tomados[l].vistos = Cobra[l]
    /\ Va(l, IF tomados[l].suyos = Cobra[l] THEN "asentar" ELSE "soltar")
    /\ UNCHANGED <<pedido, liq, libro, banco, obj, tomados, fallas, cortes>>

Soltar(l) ==
    /\ pc[l] = "soltar"
    /\ Suelta(l)
    /\ Va(l, "borrar")
    /\ UNCHANGED <<liq, libro, banco, obj, tomados, fallas, cortes>>

Borrar(l) ==
    /\ pc[l] = "borrar"
    /\ liq' = [liq EXCEPT ![l] = "borrada"]
    /\ Va(l, "fin")
    /\ UNCHANGED <<pedido, libro, banco, obj, tomados, fallas, cortes>>

\* What could not be released is left for whoever annuls it.
FallaSoltar(l) ==
    /\ pc[l] \in {"soltar", "borrar"} \cap Fallan
    /\ fallas < MaxFallas /\ fallas' = fallas + 1
    /\ liq' = [liq EXCEPT ![l] = "voiding"]
    /\ Va(l, "fin")
    /\ UNCHANGED <<pedido, libro, banco, obj, tomados, cortes>>

\* The entry; if it fails it is left to reconcile.
Asentar(l) ==
    /\ pc[l] = "asentar"
    /\ \/ libro' = [libro EXCEPT ![l] = "vivo"] /\ UNCHANGED fallas
       \/ /\ "asentar" \in Fallan /\ fallas < MaxFallas /\ fallas' = fallas + 1
          /\ libro' = [libro EXCEPT ![l] = "pendiente"]
    /\ Va(l, "depositar")
    /\ UNCHANGED <<pedido, liq, banco, obj, tomados, cortes>>

Depositar(l) ==
    /\ pc[l] = "depositar"
    /\ banco' = banco \cup {l}
    /\ Va(l, "hecho")
    /\ UNCHANGED <<pedido, liq, libro, obj, tomados, fallas, cortes>>

-----------------------------------------------------------------------------
(* void *)

EnCurso(l) == pc[l] \in {"reservar", "soltar", "borrar", "asentar", "depositar"}

\* Taken if it is active, or an annulment of it was left halfway.
Tomar(a, l) ==
    /\ pc[a] = "libre" /\ liq[l] \in {"active", "voiding"}
    /\ Cruces \/ ~EnCurso(l)
    /\ liq' = [liq EXCEPT ![l] = "voiding"]
    /\ obj' = [obj EXCEPT ![a] = l]
    /\ Va(a, "reversar")
    /\ UNCHANGED <<pedido, libro, banco, tomados, fallas, cortes>>

\* The entry first: while it is alive the orders stay settled.
Reversar(a) ==
    LET l == obj[a] IN
    /\ pc[a] = "reversar"
    /\ libro' = IF libro[l] = "vivo" THEN [libro EXCEPT ![l] = "reversado"] ELSE libro
    /\ Va(a, "retirar")
    /\ UNCHANGED <<pedido, liq, banco, obj, tomados, fallas, cortes>>

Retirar(a) ==
    /\ pc[a] = "retirar"
    /\ banco' = banco \ {obj[a]}
    /\ Va(a, "liberar")
    /\ UNCHANGED <<pedido, liq, libro, obj, tomados, fallas, cortes>>

Liberar(a) ==
    /\ pc[a] = "liberar"
    /\ Suelta(obj[a])
    /\ Va(a, "cerrar")
    /\ UNCHANGED <<liq, libro, banco, obj, tomados, fallas, cortes>>

Cerrar(a) ==
    LET l == obj[a] IN
    /\ pc[a] = "cerrar"
    /\ liq' = IF liq[l] = "borrada" THEN liq ELSE [liq EXCEPT ![l] = "void"]
    /\ Va(a, "libre")
    /\ UNCHANGED <<pedido, libro, banco, obj, tomados, fallas, cortes>>

\* Mutant: what fails in the ledger is left to reconcile, as elsewhere, and the
\* annulment goes on.
FallaYSigue(a) == Va(a, IF pc[a] = "reversar" THEN "retirar" ELSE "libre")

\* A failure stops the annulment where it is.
TrasFalla(a) == Va(a, "libre")

FallaAnular(a) ==
    /\ pc[a] \in {"reversar", "liberar", "cerrar"} \cap Fallan
    /\ fallas < MaxFallas /\ fallas' = fallas + 1
    /\ TrasFalla(a)
    /\ UNCHANGED <<pedido, liq, libro, banco, obj, tomados, cortes>>

-----------------------------------------------------------------------------
(* The void of the sale of an order *)

Anular(v, p) ==
    /\ pc[v] = "libre" /\ pedido[p] = [estado |-> "completed", liq |-> Nadie]
    /\ obj' = [obj EXCEPT ![v] = p]
    /\ Va(v, "voltear")
    /\ UNCHANGED <<pedido, liq, libro, banco, tomados, fallas, cortes>>

\* Mutant: only what was read before the flip says that the order is not settled.
VoltearCiego(v) ==
    /\ pc[v] = "voltear"
    /\ pedido' = [pedido EXCEPT ![obj[v]].estado = "void"]
    /\ Va(v, "reponer")
    /\ UNCHANGED <<liq, libro, banco, obj, tomados, fallas, cortes>>

\* A settlement that came in between wins.
Voltear(v) ==
    LET p == obj[v] IN
    /\ pc[v] = "voltear"
    /\ IF pedido[p] = [estado |-> "completed", liq |-> Nadie]
       THEN pedido' = [pedido EXCEPT ![p].estado = "void"] /\ Va(v, "reponer")
       ELSE Va(v, "fin") /\ UNCHANGED pedido
    /\ UNCHANGED <<liq, libro, banco, obj, tomados, fallas, cortes>>

\* The void goes through, or its flip is undone.
Reponer(v) ==
    /\ pc[v] = "reponer"
    /\ \/ UNCHANGED <<pedido, fallas>>
       \/ /\ "reponer" \in Fallan /\ fallas < MaxFallas /\ fallas' = fallas + 1
          /\ pedido' = [pedido EXCEPT ![obj[v]].estado = "completed"]
    /\ Va(v, "fin")
    /\ UNCHANGED <<liq, libro, banco, obj, tomados, cortes>>

\* The process of an actor is lost.
Corte(a) ==
    /\ pc[a] \in Cortan /\ cortes < MaxCortes /\ cortes' = cortes + 1
    /\ Va(a, IF a \in Anuladores THEN "libre" ELSE "fin")
    /\ UNCHANGED <<pedido, liq, libro, banco, obj, tomados, fallas>>

Next ==
    \/ \E l \in Liquidaciones : Pedir(l) \/ Crear(l) \/ Contar(l) \/ Soltar(l) \/ Borrar(l)
    \/ \E l \in Liquidaciones, p \in Pedidos : Reservar(l, p)
    \/ \E l \in Liquidaciones : FallaSoltar(l) \/ Asentar(l) \/ Depositar(l)
    \/ \E a \in Anuladores, l \in Liquidaciones : Tomar(a, l)
    \/ \E a \in Anuladores : Reversar(a) \/ Retirar(a) \/ Liberar(a) \/ Cerrar(a) \/ FallaAnular(a)
    \/ \E v \in Voids, p \in Pedidos : Anular(v, p)
    \/ \E v \in Voids : Voltear(v) \/ Reponer(v)
    \/ \E a \in Actores : Corte(a)

Spec == Init /\ [][Next]_vars

-----------------------------------------------------------------------------
\* An order is collected once: while the entry of a settlement is alive its orders are its
\* own and their sales stand, whoever else settles, annuls or voids them (the
\* conditions of create and of the flip of void, and the order of the steps of void).
CobradoUnaVez ==
    \A l \in Liquidaciones : libro[l] = "vivo" =>
        \A p \in Cobra[l] : pedido[p] = [estado |-> "completed", liq |-> l]

\* No order is held by a settlement that nobody can annul, and one that is closed
\* left nothing in the ledger nor in the bank.
NadaQuedaPreso ==
    \A l \in Liquidaciones :
        /\ (\E p \in Pedidos : pedido[p].liq = l) => liq[l] \in {"active", "voiding"}
        /\ liq[l] = "void" => libro[l] # "vivo" /\ l \notin banco
        /\ pc[l] = "hecho" /\ liq[l] = "active" => libro[l] \in {"vivo", "pendiente"} /\ l \in banco
=============================================================================
