--------------------------- MODULE NotaSinReferencia ---------------------------
(****************************************************************************)
(* A discount given later to ONE customer over the invoices of a period     *)
(* (notas-sin-referencia.service.ts): it lowers the open receivables of the *)
(* customer, emits a credit note without reference, and pays the rest in    *)
(* cash, to the balance in favour or by another means; a repeated request   *)
(* or the sweep completes what was left halfway.                            *)
(*                                                                          *)
(* What the note may not exceed and how it is shared among the invoices are *)
(* left out: here a note is emitted or refused.                             *)
(****************************************************************************)
EXTENDS Integers, Sequences, FiniteSetsExt, Functions

CONSTANTS
    Descuentos, MontoDe,    \* the records, by key, and the pesos of each
    Medio,                  \* [Descuentos -> {"cash", "credit_note", "transfer"}]
    Cuentas, Debe,          \* the receivables from the oldest, and what each owes
    Pagos, PagoDe, Importe, \* payments against them
    Cajeros, Barridos,      \* who sends a key again, and the sweeps
    Nadie,
    Fallan, Cortan,         \* steps that may fail, steps where the process may be killed
    MaxFallas, MaxCortes    \* bounds

VARIABLES
    cxc,        \* the receivables
    reg,        \* the record of each discount
    notas,      \* the discounts whose note exists
    salida,     \* what left the drawer for each
    aFavor,     \* what went to the balance for each
    libro,      \* of what was posted, the part against the receivables, or -1
    pc, obj,    \* the next await of each actor, and the discount it works on
    leido,      \* its copy of the record and of the receivables
    fallas, cortes

vars == <<cxc, reg, notas, salida, aFavor, libro, pc, obj, leido, fallas, cortes>>

Numeros == DOMAIN Cuentas
Reanudadores == Cajeros \cup Barridos
Trabajan == Descuentos \cup Reanudadores
Actores == Trabajan \cup Pagos
Pasos == {"leer", "abonar", "revertir", "revertir2", "guardarCartera", "nota", "borrar",
    "guardar", "caja", "marcaCaja", "favor", "libro", "marcaLibro", "cerrar", "soltar"}

\* Each amount is of pesos, each payment is of one of the receivables, and who sends a
\* key again, a sweep and a payment are not the first request.
Supuestos ==
    /\ IsFiniteSet(Descuentos) /\ Descuentos # {}
    /\ Cuentas \in Seq(DOMAIN Debe)
    /\ \A c \in DOMAIN Debe : Debe[c] \in Nat
    /\ \A d \in Descuentos : MontoDe[d] \in Nat /\ Medio[d] \in {"cash", "credit_note", "transfer"}
    /\ \A p \in Pagos : Importe[p] \in Nat /\ \E i \in Numeros : Cuentas[i] = PagoDe[p]
    /\ Descuentos \cap Reanudadores = {} /\ Trabajan \cap Pagos = {} /\ Nadie \notin Actores
    /\ Cortan \subseteq Pasos /\ MaxFallas \in Nat /\ MaxCortes \in Nat

SinRegistro == [estado |-> "no", turno |-> Nadie, abono |-> 0, cartera |-> FALSE,
    caja |-> FALSE, asiento |-> FALSE]
SinLeer == [cuentas |-> [i \in Numeros |-> [monto |-> 0, pagado |-> 0]], i |-> 0,
    abono |-> 0, estado |-> [monto |-> 0, pagado |-> 0]]

TypeOK ==
    /\ \A i \in Numeros :
         /\ cxc[i].monto \in Nat /\ cxc[i].pagado \in Nat
         /\ cxc[i].ajustes \in [Descuentos -> Nat]
         /\ cxc[i].estado \in {"open", "partial", "paid"}
    /\ \A d \in Descuentos :
         /\ reg[d].estado \in {"no", "en_curso", "pendiente_caja", "completa", "retirada"}
         /\ reg[d].turno \in Trabajan \cup {Nadie} /\ reg[d].abono \in 0..MontoDe[d]
    /\ notas \subseteq Descuentos
    /\ salida \in [Descuentos -> Nat] /\ aFavor \in [Descuentos -> Nat]
    /\ libro \in [Descuentos -> Nat \cup {-1}]
    /\ pc \in [Actores -> {"libre", "fin", "error"} \cup Pasos]
    /\ obj \in [Trabajan -> Descuentos]
    /\ fallas \in 0..MaxFallas /\ cortes \in 0..MaxCortes

Init ==
    /\ cxc = [i \in Numeros |-> [monto |-> Debe[Cuentas[i]], pagado |-> 0, estado |-> "open",
                                 ajustes |-> [d \in Descuentos |-> 0]]]
    /\ reg = [d \in Descuentos |-> SinRegistro]
    /\ notas = {} /\ salida = [d \in Descuentos |-> 0] /\ aFavor = [d \in Descuentos |-> 0]
    /\ libro = [d \in Descuentos |-> -1]
    /\ pc = [a \in Actores |-> "libre"]
    /\ obj = [a \in Trabajan |->
                IF a \in Descuentos THEN a ELSE CHOOSE d \in Descuentos : TRUE]
    /\ leido = [a \in Trabajan |-> SinLeer]
    /\ fallas = 0 /\ cortes = 0

-----------------------------------------------------------------------------
Va(a, paso) == pc' = [pc EXCEPT ![a] = paso]
Falla(paso) == paso \in Fallan /\ fallas < MaxFallas /\ fallas' = fallas + 1
Bien == UNCHANGED fallas

Ajustado(d) == SumFunctionOnSet([i \in Numeros |-> cxc[i].ajustes[d]], Numeros)
EnPlata(d) == Max({0, MontoDe[d] - reg[d].abono})
EstadoSegun(c) == IF c.pagado >= c.monto THEN "paid" ELSE IF c.pagado > 0 THEN "partial" ELSE "open"

-----------------------------------------------------------------------------
(* create, and reanudar or completarVaradas *)

\* The record comes before anything else.
Crear(d) ==
    /\ pc[d] = "libre"
    /\ reg' = [reg EXCEPT ![d].estado = "en_curso", ![d].turno = d]
    /\ Va(d, "leer")
    /\ UNCHANGED <<cxc, notas, salida, aFavor, libro, obj, leido, fallas, cortes>>

\* Who has the turn is still there.
Ocupado(d) == reg[d].turno # Nadie /\ pc[reg[d].turno] \notin {"libre", "error"}

\* A cashier resumes any that is not complete, the sweep those in course.
Reanudar(a) ==
    /\ pc[a] = "libre"
    /\ \E d \in Descuentos :
         /\ \/ reg[d].estado = "en_curso"
            \/ reg[d].estado = "pendiente_caja" /\ a \in Cajeros
         /\ ~Ocupado(d)
         /\ reg' = [reg EXCEPT ![d].turno = a]
         /\ obj' = [obj EXCEPT ![a] = d]
         /\ leido' = [leido EXCEPT ![a] = [SinLeer EXCEPT !.abono = reg[d].abono]]
         /\ Va(a, IF reg[d].cartera THEN "nota" ELSE "leer")
    /\ UNCHANGED <<cxc, notas, salida, aFavor, libro, fallas, cortes>>

TrasCartera(a) == Va(a, IF a \in Descuentos THEN "nota" ELSE "guardarCartera")

\* What is thrown: create withdraws its record, continuar leaves it, and its turn.
Lanza(a) == Va(a, IF a \in Descuentos THEN "borrar" ELSE "libre")

-----------------------------------------------------------------------------
(* abonarCartera, revertirCartera *)

\* Mutant: what the record had lowered before is not looked for.
LeerSinYa(a) ==
    /\ pc[a] = "leer"
    /\ leido' = [leido EXCEPT ![a] = [SinLeer EXCEPT
           !.i = 1,
           !.cuentas = [i \in Numeros |-> [monto |-> cxc[i].monto, pagado |-> cxc[i].pagado]]]]
    /\ Va(a, "abonar")
    /\ UNCHANGED <<cxc, reg, notas, salida, aFavor, libro, obj, fallas, cortes>>

\* What this record lowered already, or the open accounts.
Leer(a) ==
    /\ pc[a] = "leer"
    /\ IF Ajustado(obj[a]) > 0
       THEN leido' = [leido EXCEPT ![a].abono = Ajustado(obj[a])] /\ TrasCartera(a)
       ELSE /\ leido' = [leido EXCEPT ![a] = [SinLeer EXCEPT
                 !.i = 1,
                 !.cuentas = [i \in Numeros |->
                     IF cxc[i].estado = "paid" THEN [monto |-> 0, pagado |-> 0]
                     ELSE [monto |-> cxc[i].monto, pagado |-> cxc[i].pagado]]]]
            /\ Va(a, "abonar")
    /\ UNCHANGED <<cxc, reg, notas, salida, aFavor, libro, obj, fallas, cortes>>

\* The oldest account that still owes, of those read, from the i-th on.
Sigue(a) ==
    {i \in Numeros : i >= leido[a].i /\ leido[a].cuentas[i].monto > leido[a].cuentas[i].pagado}

\* One account at a time, if it is as it was read; what lowered others goes back.
Abonar(a) ==
    LET d == obj[a]
        falta == MontoDe[d] - leido[a].abono
    IN  /\ pc[a] = "abonar"
        /\ \/ /\ falta = 0 \/ Sigue(a) = {}
              /\ TrasCartera(a) /\ UNCHANGED <<cxc, leido>>
           \/ \E i \in Sigue(a) :
                LET c == leido[a].cuentas[i]
                    abono == Min({falta, c.monto - c.pagado})
                    nueva == [cxc[i] EXCEPT !.monto = @ - abono, !.ajustes[d] = @ + abono]
                IN  /\ falta > 0 /\ \A j \in Sigue(a) : i <= j
                    /\ IF cxc[i].monto = c.monto /\ cxc[i].pagado = c.pagado
                       THEN /\ cxc' = [cxc EXCEPT ![i] = [nueva EXCEPT !.estado = EstadoSegun(nueva)]]
                            /\ leido' = [leido EXCEPT ![a].i = i + 1, ![a].abono = @ + abono]
                            /\ UNCHANGED pc
                       ELSE /\ IF leido[a].abono > 0 THEN Va(a, "revertir") ELSE Lanza(a)
                            /\ UNCHANGED <<cxc, leido>>
        /\ UNCHANGED <<reg, notas, salida, aFavor, libro, obj, fallas, cortes>>

\* Each account: its amount in one update...
Revertir(a) ==
    LET d == obj[a] IN
    /\ pc[a] = "revertir"
    /\ \/ \E i \in Numeros :
            /\ cxc[i].ajustes[d] > 0
            /\ cxc' = [cxc EXCEPT ![i].monto = @ + cxc[i].ajustes[d], ![i].ajustes[d] = 0]
            /\ leido' = [leido EXCEPT ![a].i = i, ![a].estado =
                           [monto |-> cxc'[i].monto, pagado |-> cxc[i].pagado]]
            /\ Va(a, "revertir2")
       \/ Ajustado(d) = 0 /\ Lanza(a) /\ UNCHANGED <<cxc, leido>>
    /\ UNCHANGED <<reg, notas, salida, aFavor, libro, obj, fallas, cortes>>

\* ... and its status in another, by what the first one returned.
Revertir2(a) ==
    /\ pc[a] = "revertir2"
    /\ cxc' = [cxc EXCEPT ![leido[a].i].estado = EstadoSegun(leido[a].estado)]
    /\ Va(a, "revertir")
    /\ UNCHANGED <<reg, notas, salida, aFavor, libro, obj, leido, fallas, cortes>>

GuardarCartera(a) ==
    /\ pc[a] = "guardarCartera"
    /\ reg' = [reg EXCEPT ![obj[a]].abono = leido[a].abono, ![obj[a]].cartera = TRUE]
    /\ Va(a, "nota")
    /\ UNCHANGED <<cxc, notas, salida, aFavor, libro, obj, leido, fallas, cortes>>

-----------------------------------------------------------------------------
\* The note, one per record; refused, create gives the debt back and withdraws.
Nota(a) ==
    /\ pc[a] = "nota"
    /\ \/ Bien /\ notas' = notas \cup {obj[a]} /\ Va(a, "guardar")
       \/ /\ obj[a] \notin notas /\ Falla("nota") /\ UNCHANGED notas
          /\ IF a \in Descuentos /\ leido[a].abono > 0 THEN Va(a, "revertir") ELSE Lanza(a)
    /\ UNCHANGED <<cxc, reg, salida, aFavor, libro, obj, leido, cortes>>

Borrar(d) ==
    /\ pc[d] = "borrar"
    /\ reg' = [reg EXCEPT ![d] = [SinRegistro EXCEPT !.estado = "retirada"]] /\ Va(d, "error")
    /\ UNCHANGED <<cxc, notas, salida, aFavor, libro, obj, leido, fallas, cortes>>

\* terminar
Guardar(a) ==
    LET d == obj[a] IN
    /\ pc[a] = "guardar"
    /\ reg' = [reg EXCEPT ![d].abono = leido[a].abono, ![d].cartera = TRUE]
    /\ Va(a, IF reg[d].caja THEN IF reg[d].asiento THEN "cerrar" ELSE "favor" ELSE "caja")
    /\ UNCHANGED <<cxc, notas, salida, aFavor, libro, obj, leido, fallas, cortes>>

-----------------------------------------------------------------------------
(* completar *)

TrasCaja(a) == Va(a, IF reg[obj[a]].asiento THEN "cerrar" ELSE "favor")

\* Cash leaves only with a cashier, and the drawer may refuse it.
Caja(a) ==
    LET d == obj[a]
        efectivo == Medio[d] = "cash" /\ EnPlata(d) > 0
    IN  /\ pc[a] = "caja"
        /\ \/ /\ ~efectivo /\ Bien /\ Va(a, "marcaCaja") /\ UNCHANGED salida
           \/ /\ efectivo /\ a \in Barridos /\ Bien /\ TrasCaja(a) /\ UNCHANGED salida
           \/ /\ efectivo /\ a \notin Barridos /\ Bien
              /\ salida' = [salida EXCEPT ![d] = @ + EnPlata(d)] /\ Va(a, "marcaCaja")
           \/ /\ efectivo /\ a \notin Barridos /\ Falla("caja")
              /\ TrasCaja(a) /\ UNCHANGED salida
        /\ UNCHANGED <<cxc, reg, notas, aFavor, libro, obj, leido, cortes>>

MarcaCaja(a) ==
    /\ pc[a] = "marcaCaja"
    /\ reg' = [reg EXCEPT ![obj[a]].caja = TRUE] /\ TrasCaja(a)
    /\ UNCHANGED <<cxc, notas, salida, aFavor, libro, obj, leido, fallas, cortes>>

\* abonar of the balance, once per record (SaldoFavor).
Favor(a) ==
    LET d == obj[a] IN
    /\ pc[a] = "favor"
    /\ \/ /\ Medio[d] # "credit_note" /\ Bien /\ Va(a, "libro") /\ UNCHANGED aFavor
       \/ /\ Medio[d] = "credit_note" /\ Bien /\ Va(a, "libro")
          /\ aFavor' = [aFavor EXCEPT ![d] = IF @ = 0 THEN EnPlata(d) ELSE @]
       \/ /\ Medio[d] = "credit_note" /\ Falla("favor") /\ Va(a, "soltar") /\ UNCHANGED aFavor
    /\ UNCHANGED <<cxc, reg, notas, salida, libro, obj, leido, cortes>>

\* postSaleReturn, once per record.
Libro(a) ==
    LET d == obj[a] IN
    /\ pc[a] = "libro"
    /\ libro' = [libro EXCEPT ![d] = IF @ = -1 THEN reg[d].abono ELSE @]
    /\ Va(a, "marcaLibro")
    /\ UNCHANGED <<cxc, reg, notas, salida, aFavor, obj, leido, fallas, cortes>>

MarcaLibro(a) ==
    /\ pc[a] = "marcaLibro"
    /\ reg' = [reg EXCEPT ![obj[a]].asiento = TRUE] /\ Va(a, "cerrar")
    /\ UNCHANGED <<cxc, notas, salida, aFavor, libro, obj, leido, fallas, cortes>>

Cerrar(a) ==
    LET d == obj[a] IN
    /\ pc[a] = "cerrar"
    /\ reg' = [reg EXCEPT ![d].estado =
         IF reg[d].caja /\ reg[d].asiento THEN "completa" ELSE "pendiente_caja"]
    /\ Va(a, "soltar")
    /\ UNCHANGED <<cxc, notas, salida, aFavor, libro, obj, leido, fallas, cortes>>

\* The turn is released if it is still one's own.
Soltar(a) ==
    LET d == obj[a] IN
    /\ pc[a] = "soltar"
    /\ reg' = IF reg[d].turno = a THEN [reg EXCEPT ![d].turno = Nadie] ELSE reg
    /\ Va(a, IF a \in Descuentos THEN "fin" ELSE "libre")
    /\ UNCHANGED <<cxc, notas, salida, aFavor, libro, obj, leido, fallas, cortes>>

-----------------------------------------------------------------------------
\* addReceivablePayment, in one step (Cartera has its own).
Pagar(p) ==
    LET i == CHOOSE n \in Numeros : Cuentas[n] = PagoDe[p]
        c == [cxc[i] EXCEPT !.pagado = @ + Importe[p]]
    IN  /\ pc[p] = "libre"
        /\ c.pagado <= c.monto
        /\ cxc' = [cxc EXCEPT ![i] = [c EXCEPT !.estado = EstadoSegun(c)]]
        /\ Va(p, "fin")
        /\ UNCHANGED <<reg, notas, salida, aFavor, libro, obj, leido, fallas, cortes>>

Corte(a) ==
    /\ pc[a] \in Cortan /\ cortes < MaxCortes
    /\ cortes' = cortes + 1
    /\ Va(a, IF a \in Descuentos THEN "error" ELSE "libre")
    /\ UNCHANGED <<cxc, reg, notas, salida, aFavor, libro, obj, leido, fallas>>

Trabaja(a) ==
    \/ Leer(a) \/ Abonar(a) \/ Revertir(a) \/ Revertir2(a) \/ GuardarCartera(a)
    \/ Nota(a) \/ Guardar(a) \/ Caja(a) \/ MarcaCaja(a) \/ Favor(a) \/ Libro(a)
    \/ MarcaLibro(a) \/ Cerrar(a) \/ Soltar(a)
Next ==
    \/ \E d \in Descuentos : Crear(d) \/ Borrar(d)
    \/ \E a \in Reanudadores : Reanudar(a)
    \/ \E a \in Trabajan : Trabaja(a) \/ Corte(a)
    \/ \E p \in Pagos : Pagar(p)

Spec == Init /\ [][Next]_vars

-----------------------------------------------------------------------------
(* Properties *)

\* A discount is given once and in full, whoever completes it: what its record says
\* is what the receivables went down, the rest left by its means, and the entry
\* says the same.
DescuentoCuadra ==
    /\ \A i \in Numeros :
         cxc[i].monto = Debe[Cuentas[i]] - SumFunctionOnSet(cxc[i].ajustes, Descuentos)
    /\ \A d \in Descuentos :
         /\ reg[d].cartera => reg[d].abono = Ajustado(d)
         /\ libro[d] # -1 => libro[d] = Ajustado(d) /\ d \in notas
         /\ salida[d] \in {0, IF Medio[d] = "cash" THEN MontoDe[d] - Ajustado(d) ELSE 0}
         /\ reg[d].estado = "completa" =>
              /\ d \in notas /\ libro[d] # -1
              /\ salida[d] + aFavor[d] = IF Medio[d] = "transfer" THEN 0
                                         ELSE MontoDe[d] - Ajustado(d)

\* "Without a note nothing moves" (create): a discount that withdrew left the debt
\* as it was and gave nothing.
RetiradoNoDeja ==
    \A d \in Descuentos : reg[d].estado = "retirada" =>
      Ajustado(d) = 0 /\ d \notin notas /\ salida[d] = 0 /\ aFavor[d] = 0 /\ libro[d] = -1

\* No two work on one discount.
UnTurno ==
    \A a, b \in Trabajan :
      a # b /\ pc[a] \in Pasos /\ pc[b] \in Pasos => obj[a] # obj[b]
=============================================================================
