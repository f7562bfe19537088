------------------------------ MODULE Cartera ------------------------------
(*****************************************************************************)
(* The receivable of ONE sale on credit to a customer (finance_receivables): *)
(* payments against it, returns and rebates that lower it and may withdraw,  *)
(* and the void of the sale that cancels it.  They run in three services     *)
(* over one document, each with reads that nothing protects and updates      *)
(* conditioned on part of what was read.                                     *)
(*                                                                           *)
(* Of a return only what touches the receivable is here (DevolucionVenta has *)
(* the rest): its record, its turn, its note and its adjustment.             *)
(*****************************************************************************)
EXTENDS Integers, Sequences, FiniteSets, FiniteSetsExt, Functions

CONSTANTS
    Pagos, Importe,             \* payments, and the pesos of each
    Devoluciones, Devuelto,     \* returns or rebates, and what each gives back
    Reanudadores,               \* cashiers and sweeps that resume a return
    Anuladores,
    Total,                      \* what the sale left on credit
    Nadie,
    FallaRevertir,              \* the call that gives the debt back may fail
    Cortan,                     \* steps where the process may be killed
    MaxCortes,                  \* bound on killed processes
    MaxFallas                   \* bound on refused notes, stock reversals and failed calls

VARIABLES
    cxc,        \* the receivable
    reg,        \* the record of each return
    venta,      \* status of the sale
    pc,         \* the next await of each actor
    obj,        \* the return a cashier or a sweep took
    leido,      \* what the actor read and has not used yet
    asentado,   \* the id under which each payment was posted to the ledger
    fiado,      \* what cancelCredit cancelled for each void
    fallas, cortes

vars == <<cxc, reg, venta, pc, obj, leido, asentado, fiado, fallas, cortes>>

Actores == Pagos \cup Devoluciones \cup Reanudadores \cup Anuladores

\* What the constants are: the actors are different processes and the amounts
\* are pesos.
Supuestos ==
    /\ Importe \in [Pagos -> Nat] /\ Devuelto \in [Devoluciones -> Nat] /\ Total \in Nat
    /\ IsFiniteSet(Devoluciones)
    /\ Reanudadores # {} => Devoluciones # {}
    /\ Pagos \cap Devoluciones = {} /\ Pagos \cap Reanudadores = {}
    /\ Pagos \cap Anuladores = {} /\ Devoluciones \cap Reanudadores = {}
    /\ Devoluciones \cap Anuladores = {} /\ Reanudadores \cap Anuladores = {}
    /\ Nadie \notin Actores
    /\ MaxCortes \in Nat /\ MaxFallas \in Nat

PasosPago == {"escribirPago", "asentar"}
PasosDevolucion == {"crear", "revisar", "leer", "escribir", "guardar", "nota", "revertir",
    "revertir2", "borrar", "completar"}
PasosVoid == {"flip", "recontar", "cancelar", "notaV", "stockV", "restaurar", "deshacer"}

SinRegistro == [estado |-> "no", turno |-> Nadie, hecha |-> FALSE, abono |-> 0, nota |-> FALSE]
SinLeer == [monto |-> 0, pagado |-> 0, abono |-> 0, intento |-> 0]

Pasos == {"libre", "fin", "error"} \cup PasosPago \cup PasosDevolucion \cup PasosVoid
Cuentas == [estado : {"open", "partial", "paid", "void"}, monto : Nat, pagado : Nat,
            pagos : Seq(Pagos), ajustes : [Devoluciones -> Nat]]
Registros == [estado : {"no", "en_curso", "completa", "retirada"},
              turno : Devoluciones \cup Reanudadores \cup {Nadie},
              hecha : BOOLEAN, abono : Nat, nota : BOOLEAN]
Lecturas == [monto : Nat, pagado : Nat, abono : Nat, intento : Nat]

TypeOK ==
    /\ cxc \in Cuentas
    /\ reg \in [Devoluciones -> Registros]
    /\ venta \in {"completed", "void"}
    /\ pc \in [Actores -> Pasos]
    /\ obj \in [Devoluciones \cup Reanudadores -> Devoluciones]
    /\ leido \in [Actores -> Lecturas]
    /\ asentado \in [Pagos -> Nat]
    /\ fiado \in [Anuladores -> {"none", "receivable"}]
    /\ fallas \in 0..MaxFallas /\ cortes \in 0..MaxCortes

Init ==
    /\ cxc = [estado |-> "open", monto |-> Total, pagado |-> 0, pagos |-> <<>>,
              ajustes |-> [d \in Devoluciones |-> 0]]
    /\ reg = [d \in Devoluciones |-> SinRegistro]
    /\ venta = "completed"
    /\ pc = [a \in Actores |-> "libre"]
    /\ obj = [a \in Devoluciones \cup Reanudadores |->
                IF a \in Devoluciones THEN a ELSE CHOOSE d \in Devoluciones : TRUE]
    /\ leido = [a \in Actores |-> SinLeer]
    /\ asentado = [p \in Pagos |-> 0]
    /\ fiado = [v \in Anuladores |-> "none"]
    /\ fallas = 0 /\ cortes = 0

-----------------------------------------------------------------------------
Va(a, paso) == pc' = [pc EXCEPT ![a] = paso]
Falla == fallas < MaxFallas /\ fallas' = fallas + 1

\* receivableStatus; the returns ask the same with the two cases swapped.
EstadoSegun(monto, pagado) ==
    IF pagado <= 0 THEN "open" ELSE IF pagado >= monto THEN "paid" ELSE "partial"
EstadoAjuste(monto, pagado) ==
    IF pagado >= monto THEN "paid" ELSE IF pagado > 0 THEN "partial" ELSE "open"

Vivas == {d \in Devoluciones : reg[d].estado \in {"en_curso", "completa"}}

-----------------------------------------------------------------------------
(* addReceivablePayment *)

LeerPago(p) ==
    /\ pc[p] = "libre"
    /\ IF cxc.estado = "void" \/ cxc.pagado + Importe[p] > cxc.monto
       THEN Va(p, "error") /\ UNCHANGED leido
       ELSE /\ leido' = [leido EXCEPT ![p].monto = cxc.monto, ![p].pagado = cxc.pagado]
            /\ Va(p, "escribirPago")
    /\ UNCHANGED <<cxc, reg, venta, obj, asentado, fiado, fallas, cortes>>

\* Mutant: the document that was read is saved back.
EscribirPagoPisando(p) ==
    /\ pc[p] = "escribirPago"
    /\ cxc' = [cxc EXCEPT !.pagado = leido[p].pagado + Importe[p],
                          !.pagos = Append(@, p),
                          !.estado = EstadoSegun(leido[p].monto, leido[p].pagado + Importe[p])]
    /\ leido' = [leido EXCEPT ![p].abono = Len(cxc.pagos) + 1]
    /\ Va(p, "asentar")
    /\ UNCHANGED <<reg, venta, obj, asentado, fiado, fallas, cortes>>

\* The update is conditioned on the payments that were read, not on the amount.
EscribirPago(p) ==
    /\ pc[p] = "escribirPago"
    /\ IF cxc.estado # "void" /\ cxc.pagado = leido[p].pagado
       THEN /\ cxc' = [cxc EXCEPT
                  !.pagado = @ + Importe[p],
                  !.pagos = Append(@, p),
                  !.estado = EstadoSegun(leido[p].monto, leido[p].pagado + Importe[p])]
            /\ leido' = [leido EXCEPT ![p].abono = Len(cxc.pagos) + 1]
            /\ Va(p, "asentar")
       ELSE Va(p, "error") /\ UNCHANGED <<cxc, leido>>
    /\ UNCHANGED <<reg, venta, obj, asentado, fiado, fallas, cortes>>

\* postReceivablePayment under "id:position" (unique by source).
Asentar(p) ==
    /\ pc[p] = "asentar"
    /\ asentado' = [asentado EXCEPT ![p] = leido[p].abono]
    /\ Va(p, "fin")
    /\ UNCHANGED <<cxc, reg, venta, obj, leido, fiado, fallas, cortes>>

-----------------------------------------------------------------------------
(* A return: create, and continuar by a cashier or a sweep. *)

Pedir(d) ==
    /\ pc[d] = "libre" /\ venta = "completed" /\ cxc.estado # "void"
    /\ Va(d, "crear")
    /\ UNCHANGED <<cxc, reg, venta, obj, leido, asentado, fiado, fallas, cortes>>

Crear(d) ==
    /\ pc[d] = "crear"
    /\ reg' = [reg EXCEPT ![d].estado = "en_curso", ![d].turno = d]
    /\ Va(d, "revisar")
    /\ UNCHANGED <<cxc, venta, obj, leido, asentado, fiado, fallas, cortes>>

\* With the record written the sale is looked at again.
Revisar(d) ==
    /\ pc[d] = "revisar"
    /\ IF venta = "void"
       THEN reg' = [reg EXCEPT ![d].estado = "retirada"] /\ Va(d, "error")
       ELSE Va(d, "leer") /\ UNCHANGED reg
    /\ UNCHANGED <<cxc, venta, obj, leido, asentado, fiado, fallas, cortes>>

\* Mutant: a turn never expires.
ReanudarSinVencer(a) ==
    /\ pc[a] = "libre"
    /\ \E d \in Devoluciones :
         /\ reg[d].estado = "en_curso" /\ reg[d].turno = Nadie
         /\ reg' = [reg EXCEPT ![d].turno = a]
         /\ obj' = [obj EXCEPT ![a] = d]
         /\ Va(a, IF ~reg[d].hecha THEN "leer" ELSE IF ~reg[d].nota THEN "nota" ELSE "completar")
    /\ leido' = [leido EXCEPT ![a] = SinLeer]
    /\ UNCHANGED <<cxc, venta, asentado, fiado, fallas, cortes>>

\* tomarTurno of a return in course whose owner is gone.
Reanudar(a) ==
    /\ pc[a] = "libre"
    /\ \E d \in Devoluciones :
         /\ reg[d].estado = "en_curso"
         /\ reg[d].turno # Nadie => pc[reg[d].turno] \in {"libre", "error"}
         /\ reg' = [reg EXCEPT ![d].turno = a]
         /\ obj' = [obj EXCEPT ![a] = d]
         /\ Va(a, IF ~reg[d].hecha THEN "leer"
                  ELSE IF ~reg[d].nota THEN "nota" ELSE "completar")
    /\ leido' = [leido EXCEPT ![a] = SinLeer]
    /\ UNCHANGED <<cxc, venta, asentado, fiado, fallas, cortes>>

\* What follows the adjustment: create emits the note and saves both together,
\* continuar saves the adjustment first.
TrasCartera(a) == Va(a, IF a \in Devoluciones THEN "nota" ELSE "guardar")

\* A return lowers the debt up to what is still owed.
Abono(d) == Min({Devuelto[d], Max({0, cxc.monto - cxc.pagado})})

\* abonarCartera: what the return had lowered already, or the most it can.
Leer(a) ==
    /\ pc[a] = "leer"
    /\ LET d == obj[a]
           hay == cxc.estado # "void"
       IN  \/ /\ hay /\ cxc.ajustes[d] = 0 /\ Abono(d) > 0
              /\ leido' = [leido EXCEPT ![a] = [monto |-> cxc.monto, pagado |-> cxc.pagado,
                              abono |-> Abono(d), intento |-> @.intento + 1]]
              /\ Va(a, "escribir")
           \/ /\ ~hay \/ cxc.ajustes[d] > 0 \/ Abono(d) = 0
              /\ leido' = [leido EXCEPT ![a].abono = IF hay THEN cxc.ajustes[d] ELSE 0]
              /\ TrasCartera(a)
    /\ UNCHANGED <<cxc, reg, venta, obj, asentado, fiado, fallas, cortes>>

\* The third conflict gives up: create withdraws its record, continuar leaves it.
Rendirse(a) ==
    \/ a \in Devoluciones /\ Va(a, "borrar") /\ UNCHANGED reg
    \/ /\ a \in Reanudadores /\ Va(a, "libre")
       /\ reg' = [reg EXCEPT ![obj[a]].turno = Nadie]

Escribir(a) ==
    /\ pc[a] = "escribir"
    /\ IF cxc.estado # "void" /\ cxc.monto = leido[a].monto /\ cxc.pagado = leido[a].pagado
       THEN LET monto == cxc.monto - leido[a].abono IN
            /\ cxc' = [cxc EXCEPT !.monto = monto,
                                  !.ajustes[obj[a]] = leido[a].abono,
                                  !.estado = EstadoAjuste(monto, cxc.pagado)]
            /\ TrasCartera(a) /\ UNCHANGED reg
       ELSE /\ IF leido[a].intento < 3 THEN Va(a, "leer") /\ UNCHANGED reg ELSE Rendirse(a)
            /\ UNCHANGED cxc
    /\ UNCHANGED <<venta, obj, leido, asentado, fiado, fallas, cortes>>

\* Mutant: create withdraws its record before it gives the debt back.
NotaBorraAntes(a) ==
    /\ pc[a] = "nota"
    /\ \/ Va(a, IF a \in Devoluciones THEN "guardar" ELSE "completar")
          /\ reg' = [reg EXCEPT ![obj[a]].nota = TRUE] /\ UNCHANGED fallas
       \/ /\ Falla /\ a \in Devoluciones
          /\ reg' = [reg EXCEPT ![a].estado = "retirada"]
          /\ Va(a, IF leido[a].abono > 0 THEN "revertir" ELSE "error")
    /\ UNCHANGED <<cxc, venta, obj, leido, asentado, fiado, cortes>>

\* The fiscal note; refused, create gives the debt back and withdraws.
Nota(a) ==
    /\ pc[a] = "nota"
    /\ \/ /\ reg' = [reg EXCEPT ![obj[a]].nota = a \in Reanudadores]
          /\ Va(a, IF a \in Devoluciones THEN "guardar" ELSE "completar")
          /\ UNCHANGED fallas
       \/ /\ Falla /\ a \in Devoluciones
          /\ Va(a, IF leido[a].abono > 0 THEN "revertir" ELSE "borrar") /\ UNCHANGED reg
       \/ /\ Falla /\ a \in Reanudadores
          /\ reg' = [reg EXCEPT ![obj[a]].turno = Nadie] /\ Va(a, "libre")
    /\ UNCHANGED <<cxc, venta, obj, leido, asentado, fiado, cortes>>

Guardar(a) ==
    /\ pc[a] = "guardar"
    /\ reg' = [reg EXCEPT ![obj[a]].hecha = TRUE, ![obj[a]].abono = leido[a].abono,
                          ![obj[a]].nota = @ \/ a \in Devoluciones]
    /\ Va(a, IF a \in Devoluciones \/ reg[obj[a]].nota THEN "completar" ELSE "nota")
    /\ UNCHANGED <<cxc, venta, obj, leido, asentado, fiado, fallas, cortes>>

\* revertirAbono: the amount in one update...
Revertir(a) ==
    /\ pc[a] = "revertir"
    /\ IF cxc.ajustes[obj[a]] > 0
       THEN /\ cxc' = [cxc EXCEPT !.monto = @ + leido[a].abono, !.ajustes[obj[a]] = 0]
            /\ leido' = [leido EXCEPT ![a].monto = cxc.monto + leido[a].abono,
                                      ![a].pagado = cxc.pagado]
            /\ Va(a, "revertir2")
       ELSE Va(a, "borrar") /\ UNCHANGED <<cxc, leido>>
    /\ UNCHANGED <<reg, venta, obj, asentado, fiado, fallas, cortes>>

\* ... and the status in another one, with what the first returned.
Revertir2(a) ==
    /\ pc[a] = "revertir2"
    /\ cxc' = [cxc EXCEPT !.estado = EstadoAjuste(leido[a].monto, leido[a].pagado)]
    /\ Va(a, "borrar")
    /\ UNCHANGED <<reg, venta, obj, leido, asentado, fiado, fallas, cortes>>

\* Its failure is only logged: the return is withdrawn all the same.
RevertirFalla(a) ==
    /\ FallaRevertir /\ pc[a] \in {"revertir", "revertir2"} /\ Falla
    /\ Va(a, "borrar")
    /\ UNCHANGED <<cxc, reg, venta, obj, leido, asentado, fiado, cortes>>

Borrar(a) ==
    /\ pc[a] = "borrar"
    /\ reg' = [reg EXCEPT ![obj[a]].estado = "retirada"]
    /\ Va(a, "error")
    /\ UNCHANGED <<cxc, venta, obj, leido, asentado, fiado, fallas, cortes>>

\* completar and soltarTurno (their steps are in DevolucionVenta).
Completar(a) ==
    /\ pc[a] = "completar"
    /\ reg' = [reg EXCEPT ![obj[a]].estado = "completa", ![obj[a]].turno = Nadie]
    /\ Va(a, IF a \in Devoluciones THEN "fin" ELSE "libre")
    /\ UNCHANGED <<cxc, venta, obj, leido, asentado, fiado, fallas, cortes>>

-----------------------------------------------------------------------------
(* void, as far as the credit goes *)

Contar(v) ==
    /\ pc[v] = "libre" /\ Vivas = {} /\ Va(v, "flip")
    /\ UNCHANGED <<cxc, reg, venta, obj, leido, asentado, fiado, fallas, cortes>>

Flip(v) ==
    /\ pc[v] = "flip"
    /\ IF venta = "completed" THEN venta' = "void" /\ Va(v, "recontar")
                              ELSE Va(v, "error") /\ UNCHANGED venta
    /\ UNCHANGED <<cxc, reg, obj, leido, asentado, fiado, fallas, cortes>>

\* Mutant: the returns are not counted again after the flip.
RecontarNunca(v) ==
    /\ pc[v] = "recontar" /\ Va(v, "cancelar")
    /\ UNCHANGED <<cxc, reg, venta, obj, leido, asentado, fiado, fallas, cortes>>

Recontar(v) ==
    /\ pc[v] = "recontar"
    /\ Va(v, IF Vivas = {} THEN "cancelar" ELSE "deshacer")
    /\ UNCHANGED <<cxc, reg, venta, obj, leido, asentado, fiado, fallas, cortes>>

\* cancelCredit: only an open account without payments.
Cancelar(v) ==
    /\ pc[v] = "cancelar"
    /\ \/ /\ cxc.estado = "open" /\ cxc.pagado = 0
          /\ cxc' = [cxc EXCEPT !.estado = "void"]
          /\ fiado' = [fiado EXCEPT ![v] = "receivable"]
          /\ Va(v, "notaV")
       \/ /\ cxc.estado # "open" \/ cxc.pagado # 0
          /\ Va(v, IF cxc.estado = "void" THEN "notaV" ELSE "deshacer")
          /\ fiado' = [fiado EXCEPT ![v] = "none"] /\ UNCHANGED cxc
    /\ UNCHANGED <<reg, venta, obj, leido, asentado, fallas, cortes>>

\* The note of the void and then the reversal of the stock, which may be refused.
Reversar(v) ==
    /\ pc[v] \in {"notaV", "stockV"}
    /\ \/ Va(v, IF pc[v] = "notaV" THEN "stockV" ELSE "fin") /\ UNCHANGED fallas
       \/ Falla /\ Va(v, "restaurar")
    /\ UNCHANGED <<cxc, reg, venta, obj, leido, asentado, fiado, cortes>>

\* restoreCredit
Restaurar(v) ==
    /\ pc[v] = "restaurar"
    /\ cxc' = IF fiado[v] = "receivable" /\ cxc.estado = "void" /\ cxc.pagado = 0
              THEN [cxc EXCEPT !.estado = "open"] ELSE cxc
    /\ Va(v, "deshacer")
    /\ UNCHANGED <<reg, venta, obj, leido, asentado, fiado, fallas, cortes>>

DeshacerFlip(v) ==
    /\ pc[v] = "deshacer"
    /\ venta' = "completed" /\ Va(v, "libre")
    /\ UNCHANGED <<cxc, reg, obj, leido, asentado, fiado, fallas, cortes>>

-----------------------------------------------------------------------------
(* The process is killed: a request is gone, its turn expires.               *)
Corte(a) ==
    /\ pc[a] \in Cortan /\ cortes < MaxCortes
    /\ cortes' = cortes + 1
    /\ Va(a, IF a \in Reanudadores THEN "libre" ELSE "error")
    /\ UNCHANGED <<cxc, reg, venta, obj, leido, asentado, fiado, fallas>>

Paga(p) == EscribirPago(p) \/ Asentar(p)
Devuelve(a) ==
    \/ Leer(a) \/ Escribir(a) \/ Nota(a) \/ Guardar(a) \/ Revertir(a) \/ Revertir2(a)
    \/ RevertirFalla(a) \/ Borrar(a) \/ Completar(a)
Anula(v) ==
    \/ Contar(v) \/ Flip(v) \/ Recontar(v) \/ Cancelar(v) \/ Reversar(v) \/ Restaurar(v)
    \/ DeshacerFlip(v)

Next ==
    \/ \E p \in Pagos : LeerPago(p) \/ Paga(p)
    \/ \E d \in Devoluciones : Pedir(d) \/ Crear(d) \/ Revisar(d)
    \/ \E a \in Reanudadores : Reanudar(a)
    \/ \E a \in Devoluciones \cup Reanudadores : Devuelve(a)
    \/ \E v \in Anuladores : Anula(v)
    \/ \E a \in Actores : Corte(a)

Spec == Init /\ [][Next]_vars

(* A request in flight goes on and the cron keeps resuming what is left.     *)
FairSpec ==
    /\ Spec
    /\ \A d \in Devoluciones : WF_vars(Crear(d) \/ Revisar(d) \/ Devuelve(d))
    /\ \A a \in Reanudadores : WF_vars(Reanudar(a) \/ Devuelve(a))

-----------------------------------------------------------------------------
(* Properties *)

SumaPagos ==
    SumFunctionOnSet([i \in DOMAIN cxc.pagos |-> Importe[cxc.pagos[i]]], DOMAIN cxc.pagos)
SumaAjustes == SumFunctionOnSet(cxc.ajustes, Devoluciones)

\* No payment is lost or written over by another one, a return or a void: the
\* account has paid exactly what its payments say, and each payment is posted
\* under the position it really has.
AbonosCompletos ==
    /\ cxc.pagado = SumaPagos
    /\ \A p \in Pagos :
         /\ pc[p] \in {"asentar", "fin"} => p \in Range(cxc.pagos)
         /\ asentado[p] # 0 => cxc.pagos[asentado[p]] = p

\* However often a return is cut and resumed, the debt goes down once for it,
\* by what its record says, and one that withdrew leaves nothing lowered.
AjusteSegunRegistro ==
    /\ cxc.monto = Total - SumaAjustes
    /\ \A d \in Devoluciones :
         /\ reg[d].hecha => cxc.ajustes[d] = reg[d].abono
         /\ reg[d].estado \in {"no", "retirada"} => cxc.ajustes[d] = 0

\* A sale that was voided leaves no debt and no payment of it; one that was not
\* (or whose void was undone) keeps its account.
AnuladaSinDeuda ==
    /\ cxc.estado = "void" => venta = "void" /\ cxc.pagado = 0 /\ SumaAjustes = 0
    /\ (\E v \in Anuladores : pc[v] = "fin") => venta = "void" /\ cxc.estado = "void"
    /\ (\A v \in Anuladores : pc[v] \notin PasosVoid) /\ venta = "completed"
         => cxc.estado # "void"

\* "The payment exceeds the balance of the account" (finance.service.ts): what
\* was paid never exceeds what is owed.
AbonadoNoExcede == cxc.pagado <= cxc.monto

\* A return in course ends complete or withdrawn: three conflicts, a refused
\* note or a lost process do not leave it for ever.
AjusteTermina ==
    \A d \in Devoluciones : reg[d].estado = "en_curso" ~> reg[d].estado # "en_curso"
=============================================================================
