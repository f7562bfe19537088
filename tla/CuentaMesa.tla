------------------------------ MODULE CuentaMesa ------------------------------
(******************************************************************************)
(* The account of a table, charged in parts by several waiters                *)
(* (orders.service.ts, split-bill.ts) while others edit it, void it or close  *)
(* the drawer (caja.service.ts).  A charge takes its part of the account      *)
(* before it creates the sale and gives it back if the sale fails.            *)
(*                                                                            *)
(* What a sale does is CobroVenta: here it is made or fails.  Quantities are  *)
(* units, so that the rests below EPSILON are left out, and a product has one *)
(* line, as update leaves them.                                               *)
(******************************************************************************)
EXTENDS Integers, FiniteSets, Functions

CONSTANTS
    Productos, Pedido,      \* the products of the account, and the units ordered
    Cobros, Pide,           \* the charges; units each asks for, none for all that is left
    Ediciones, Edita,       \* the edits, and the units each leaves the account with
    Anuladores, Cierres,    \* voids of the account, closings of the drawer
    Fallan, MaxFallas       \* steps that may fail, and how many times

Unidades == [Productos -> Nat]

\* What the constants are (CuentaMesaProofs; the runs check it too).
Supuestos ==
    /\ Pedido \in Unidades /\ Pide \in [Cobros -> Unidades]
    /\ Edita \in [Ediciones -> Unidades]
    /\ IsFiniteSet(Cobros)
    /\ Cobros \cap Ediciones = {} /\ Cobros \cap Anuladores = {} /\ Cobros \cap Cierres = {}
    /\ Ediciones \cap Anuladores = {} /\ Ediciones \cap Cierres = {}
    /\ MaxFallas \in Nat

VARIABLES
    cuenta,         \* the account: status, units, units paid, paymentSeq, __v
    abierta,        \* there is an open drawer
    ventas,         \* the units sold by each charge
    enlazadas,      \* the charges whose sale is linked to the account
    pisada,         \* what is paid was written over by one who had not read it
    pc, leido, fallas

vars == <<cuenta, abierta, ventas, enlazadas, pisada, pc, leido, fallas>>

Actores == Cobros \cup Ediciones \cup Anuladores \cup Cierres
Nada == [p \in Productos |-> 0]

Cuentas == [estado : {"open", "closed", "void"}, qty : Unidades, pagado : Unidades,
            seq : Nat, v : Nat]
Pasos == {"libre", "tomar", "vender", "enlazar", "devolver", "guardar", "anular", "cerrar",
          "fin", "error"}

TypeOK ==
    /\ cuenta \in Cuentas /\ leido \in [Actores -> Cuentas]
    /\ abierta \in BOOLEAN /\ pisada \in BOOLEAN
    /\ ventas \in [Cobros -> Unidades] /\ enlazadas \subseteq Cobros
    /\ pc \in [Actores -> Pasos]
    /\ fallas \in 0..MaxFallas

Init ==
    /\ cuenta = [estado |-> "open", qty |-> Pedido, pagado |-> Nada, seq |-> 0, v |-> 0]
    /\ abierta = TRUE
    /\ ventas = [c \in Cobros |-> Nada] /\ enlazadas = {}
    /\ pisada = FALSE
    /\ pc = [a \in Actores |-> "libre"] /\ leido = [a \in Actores |-> cuenta]
    /\ fallas = 0

-----------------------------------------------------------------------------
Va(a, paso) == pc' = [pc EXCEPT ![a] = paso]

\* getOrFail and assertOpen, and the copy the request works on from then on.
Abre(a, paso) ==
    /\ pc[a] = "libre" /\ cuenta.estado = "open"
    /\ leido' = [leido EXCEPT ![a] = cuenta] /\ Va(a, paso)

Mayor(x, y) == IF x < y THEN y ELSE x
Falta(o) == [p \in Productos |-> o.qty[p] - o.pagado[p]]
Total(u) == SumFunctionOnSet(u, Productos)

\* planPayment: something is left, and what is asked for fits.
Cabe(c, o) ==
    /\ Total(Falta(o)) > 0
    /\ \A p \in Productos : Pide[c][p] > 0 => Pide[c][p] <= Falta(o)[p]

\* A charge of no products, or of as much as is left, settles the account.
Salda(c) == Pide[c] = Nada \/ Total(Falta(leido[c])) <= Total(Pide[c])
Parte(c) == IF Salda(c) THEN [p \in Productos |-> Mayor(0, Falta(leido[c])[p])] ELSE Pide[c]
PagadoDespues(c) ==
    [p \in Productos |-> IF Salda(c) THEN Mayor(leido[c].pagado[p], leido[c].qty[p])
                                     ELSE leido[c].pagado[p] + Pide[c][p]]

-----------------------------------------------------------------------------
(* checkout *)

Leer(c) ==
    /\ Cabe(c, cuenta) /\ Abre(c, "tomar")
    /\ UNCHANGED <<cuenta, abierta, ventas, enlazadas, pisada, fallas>>

\* Mutant: the update looks at the status only, as when accounts were not divided.
TomarSinSeq(c) ==
    /\ pc[c] = "tomar"
    /\ IF cuenta.estado = "open"
       THEN /\ cuenta' = [cuenta EXCEPT !.pagado = PagadoDespues(c), !.seq = @ + 1,
                 !.estado = IF Salda(c) THEN "closed" ELSE @]
            /\ pisada' = (pisada \/ cuenta.pagado # leido[c].pagado \/ cuenta.qty # leido[c].qty)
            /\ Va(c, "vender")
       ELSE Va(c, "fin") /\ UNCHANGED <<cuenta, pisada>>
    /\ UNCHANGED <<abierta, ventas, enlazadas, leido, fallas>>

\* The part is taken if nobody has charged since the read.
Tomar(c) ==
    /\ pc[c] = "tomar"
    /\ IF cuenta.estado = "open" /\ cuenta.seq = leido[c].seq
       THEN /\ cuenta' = [cuenta EXCEPT !.pagado = PagadoDespues(c), !.seq = @ + 1,
                 !.estado = IF Salda(c) THEN "closed" ELSE @]
            /\ pisada' = (pisada \/ cuenta.pagado # leido[c].pagado \/ cuenta.qty # leido[c].qty)
            /\ Va(c, "vender")
       ELSE Va(c, "fin") /\ UNCHANGED <<cuenta, pisada>>
    /\ UNCHANGED <<abierta, ventas, enlazadas, leido, fallas>>

\* The sale needs an open drawer, and may fail for its own reasons.
Vender(c) ==
    /\ pc[c] = "vender"
    /\ \/ /\ abierta /\ ventas' = [ventas EXCEPT ![c] = Parte(c)]
          /\ Va(c, "enlazar") /\ UNCHANGED fallas
       \/ ~abierta /\ Va(c, "devolver") /\ UNCHANGED <<ventas, fallas>>
       \/ /\ "vender" \in Fallan /\ fallas < MaxFallas /\ fallas' = fallas + 1
          /\ Va(c, "devolver") /\ UNCHANGED ventas
    /\ UNCHANGED <<cuenta, abierta, enlazadas, pisada, leido>>

\* What was taken goes back as it was READ, and the account opens; paymentSeq stays.
Devolver(c) ==
    /\ pc[c] = "devolver"
    /\ cuenta' = [cuenta EXCEPT !.pagado = leido[c].pagado, !.estado = "open"]
    /\ pisada' = (pisada \/ cuenta.pagado # PagadoDespues(c))
    /\ Va(c, "error")
    /\ UNCHANGED <<abierta, ventas, enlazadas, leido, fallas>>

Enlazar(c) ==
    /\ pc[c] = "enlazar"
    /\ enlazadas' = enlazadas \cup {c} /\ Va(c, "fin")
    /\ UNCHANGED <<cuenta, abierta, ventas, pisada, leido, fallas>>

-----------------------------------------------------------------------------
(* update, void *)

\* buildLines: what was paid of each product stays, up to what is ordered of it now.
Recorta(pagado, qty) == [p \in Productos |-> IF qty[p] < pagado[p] THEN qty[p] ELSE pagado[p]]

LeerEdicion(m) ==
    /\ Abre(m, "guardar")
    /\ UNCHANGED <<cuenta, abierta, ventas, enlazadas, pisada, fallas>>

\* The lines are written again with what the read said was paid of each; save
\* refuses only the edit of another edit.
Guardar(m) ==
    /\ pc[m] = "guardar"
    /\ IF cuenta.v = leido[m].v
       THEN /\ cuenta' = [cuenta EXCEPT !.qty = Edita[m], !.v = @ + 1,
                 !.pagado = Recorta(leido[m].pagado, Edita[m])]
            /\ pisada' = (pisada \/ cuenta.estado # "open"
                               \/ cuenta.pagado # Recorta(leido[m].pagado, Edita[m]))
            /\ Va(m, "fin")
       ELSE Va(m, "error") /\ UNCHANGED <<cuenta, pisada>>
    /\ UNCHANGED <<abierta, ventas, enlazadas, leido, fallas>>

LeerAnulacion(n) ==
    /\ Abre(n, "anular")
    /\ UNCHANGED <<cuenta, abierta, ventas, enlazadas, pisada, fallas>>

Anular(n) ==
    /\ pc[n] = "anular"
    /\ cuenta' = [cuenta EXCEPT !.estado = "void"] /\ Va(n, "fin")
    /\ UNCHANGED <<abierta, ventas, enlazadas, pisada, leido, fallas>>

-----------------------------------------------------------------------------
(* The drawer *)

\* No shift closes with open accounts, when they are counted.
Contar(k) ==
    /\ pc[k] = "libre" /\ abierta /\ cuenta.estado # "open"
    /\ Va(k, "cerrar")
    /\ UNCHANGED <<cuenta, abierta, ventas, enlazadas, pisada, leido, fallas>>

Cerrar(k) ==
    /\ pc[k] = "cerrar"
    /\ abierta' = FALSE /\ Va(k, "fin")
    /\ UNCHANGED <<cuenta, ventas, enlazadas, pisada, leido, fallas>>

Abrir ==
    /\ ~abierta /\ abierta' = TRUE
    /\ UNCHANGED <<cuenta, ventas, enlazadas, pisada, pc, leido, fallas>>

Next ==
    \/ \E c \in Cobros :
         Leer(c) \/ Tomar(c) \/ Vender(c) \/ Devolver(c) \/ Enlazar(c)
    \/ \E m \in Ediciones : LeerEdicion(m) \/ Guardar(m)
    \/ \E n \in Anuladores : LeerAnulacion(n) \/ Anular(n)
    \/ \E k \in Cierres : Contar(k) \/ Cerrar(k)
    \/ Abrir

Spec == Init /\ [][Next]_vars

-----------------------------------------------------------------------------
(* Properties *)

EnCurso == {c \in Cobros : pc[c] \in {"vender", "devolver"}}
Cobrado(p) == SumFunctionOnSet([c \in Cobros |-> ventas[c][p]], Cobros)
Tomado(p) == SumFunctionOnSet([c \in Cobros |-> Parte(c)[p]], EnCurso)

\* "Two waiters would charge them twice" (checkout): while nobody writes over what he
\* did not read, what the account has as paid is what its sales took, plus the charges
\* under way.
CuentaCuadra ==
    ~pisada => \A p \in Productos : cuenta.pagado[p] = Cobrado(p) + Tomado(p)

\* Until then nothing is paid that was not ordered, and an account that a charge closes
\* is paid, with edits that take units away from it in between.
CerradaPagada ==
    ~pisada => /\ \A p \in Productos : cuenta.pagado[p] <= cuenta.qty[p]
               /\ cuenta.estado = "closed" => cuenta.pagado = cuenta.qty

\* And only a charge that failed or an edit, whose writes are unconditional, lets
\* somebody do it: charges alone, in any number and order, never do.
SoloFallasPisan ==
    pisada => \/ \E c \in Cobros : pc[c] = "error"
              \/ \E m \in Ediciones : pc[m] = "fin"
=============================================================================
