-------------------------- MODULE DevolucionVenta --------------------------
(****************************************************************************)
(* Returns, later rebates and the void of ONE sale, paid in full, of one    *)
(* product: SaleReturnsService and SalesService.void.  Nothing is wrapped   *)
(* in a transaction: each operation is a chain of awaits over the sale, its *)
(* return records, the stock, the drawer and the balance in favour, and     *)
(* what protects them is checks repeated after writing, a turn per record   *)
(* and marks left after each step.  One await is one action.                *)
(*                                                                          *)
(* Actors: requests of clients (a request of an idempotency key may be      *)
(* repeated, also at the same time), cashiers that complete a pending       *)
(* return by hand, sweeps of the daily cron, and voids.                     *)
(****************************************************************************)
EXTENDS Integers, FiniteSets, Functions

CONSTANTS
    Ops,             \* operations on the sale, named by their idempotency key
    Clase,           \* "devolucion" or "rebaja"
    Cuanto,          \* units returned, or pesos of the rebate
    Medio,           \* refundMethod: "cash" or "credit_note"
    Clientes, OpDe,  \* the requests and the operation each one asks for
    Cajeros, Barridos, Anuladores,
    Nadie,
    Vendido,         \* units of the sale
    Pagado,          \* pesos paid for them
    PagadoConSaldo,  \* part of Pagado paid with saldo_favor
    Cortan,          \* steps where the process may be killed or its call throw
    MaxCortes,       \* bound on those
    MaxFallas        \* bound on refusals of the note, the drawer and the stock

Registradores == Clientes \cup Cajeros \cup Barridos
Actores == Registradores \cup Anuladores

ASSUME DevolucionAssumption ==
    /\ Ops # {} /\ IsFiniteSet(Ops) /\ OpDe \in [Clientes -> Ops]
    /\ Clase \in [Ops -> {"devolucion", "rebaja"}]
    /\ Cuanto \in [Ops -> Nat \ {0}]
    /\ Medio \in [Ops -> {"cash", "credit_note"}]
    /\ Vendido \in Nat \ {0} /\ Pagado \in Nat /\ PagadoConSaldo \in 0..Pagado
    /\ Nadie \notin Actores
    /\ Clientes \cap Cajeros = {} /\ Clientes \cap Barridos = {}
    /\ Cajeros \cap Barridos = {} /\ Registradores \cap Anuladores = {}
    /\ MaxFallas \in Nat /\ MaxCortes \in Nat

VARIABLES
    venta,     \* status of the sale
    reg,       \* sale_returns: the record of each operation
    pc,        \* the next await of each actor
    obj,       \* the operation a cashier or a sweep took
    temp,      \* what a request read and has not written yet: refund, aSaldoFavor
    entradas,  \* history: times the units of each record entered the stock
    salidas,   \* history: pesos of each record that left the drawer
    abonado,   \* pesos of each record credited to the balance, once per record
    anulado,   \* history: what the void reversed
    fallas, cortes

vars == <<venta, reg, pc, obj, temp, entradas, salidas, abonado, anulado, fallas, cortes>>

PasosRegistro == {"buscar", "leer", "crear", "revisarEstado", "revisarSuma", "nota",
    "dividir", "guardar", "retirar", "tomar", "dividirC", "guardarC", "notaC", "stock",
    "marcaStock", "caja", "marcaCaja", "libro", "marcaLibro", "cerrar", "soltar"}
PasosAnular == {"flip", "recontar", "deshacer", "notaV", "stockV", "libroV", "saldoV", "cajaV"}

SinRegistro == [estado |-> "no", turno |-> Nadie, monto |-> 0, aSaldo |-> 0,
    cartera |-> FALSE, nota |-> FALSE, stock |-> FALSE, caja |-> FALSE, libro |-> FALSE]

Registro == [estado: {"no", "en_curso", "pendiente_caja", "completa"},
    turno: Registradores \cup {Nadie}, monto: Nat, aSaldo: Nat, cartera: BOOLEAN,
    nota: BOOLEAN, stock: BOOLEAN, caja: BOOLEAN, libro: BOOLEAN]

TypeOK ==
    /\ venta \in {"completed", "void"}
    /\ reg \in [Ops -> Registro]
    /\ pc \in [Actores -> {"libre"} \cup PasosRegistro \cup PasosAnular]
    /\ obj \in [Registradores -> Ops]
    /\ temp \in [Registradores -> Nat]
    /\ entradas \in [Ops -> Nat] /\ salidas \in [Ops -> Nat] /\ abonado \in [Ops -> Nat]
    /\ anulado \in [stock: Nat, libro: BOOLEAN, saldo: BOOLEAN, caja: BOOLEAN]
    /\ fallas \in 0..MaxFallas /\ cortes \in 0..MaxCortes

Init ==
    /\ venta = "completed"
    /\ reg = [k \in Ops |-> SinRegistro]
    /\ pc = [p \in Actores |-> "libre"]
    /\ obj = [p \in Registradores |-> IF p \in Clientes THEN OpDe[p] ELSE CHOOSE k \in Ops : TRUE]
    /\ temp = [p \in Registradores |-> 0]
    /\ entradas = [k \in Ops |-> 0] /\ salidas = [k \in Ops |-> 0]
    /\ abonado = [k \in Ops |-> 0]
    /\ anulado = [stock |-> 0, libro |-> FALSE, saldo |-> FALSE, caja |-> FALSE]
    /\ fallas = 0 /\ cortes = 0

-----------------------------------------------------------------------------
(* What the services read. *)
NoNeg(n) == IF n \in Nat THEN n ELSE 0
Menor(a, b) == IF a < b THEN a ELSE b

Existe(k) == reg[k].estado # "no"
Abierta(k) == reg[k].estado \in {"en_curso", "pendiente_caja"}
Unidades(k) == IF Clase[k] = "devolucion" THEN Cuanto[k] ELSE 0
Monto(k) == reg[k].monto

Devoluciones == {k \in Ops : Existe(k) /\ Clase[k] = "devolucion"}
Rebajas == {k \in Ops : Existe(k) /\ Clase[k] = "rebaja"}

\* alreadyReturned: units and money of every record, finished or not.
YaDevuelto == SumFunctionOnSet([k \in Ops |-> Unidades(k)], Devoluciones)
YaReembolsado == SumFunctionOnSet([k \in Ops |-> Monto(k)], Devoluciones)
YaRebajado == SumFunctionOnSet([k \in Ops |-> Monto(k)], Rebajas)

\* The pesos of q of the units sold, rounded to the peso (cop, half up).
Parte(monto, q) == (2 * monto * q + Vendido) \div (2 * Vendido)

\* refundForLine: what corresponds to the accumulated return, less what left.
Reembolso(q) == NoNeg(Parte(NoNeg(Pagado - YaRebajado), YaDevuelto + q) - YaReembolsado)

\* buildReturnPlan and planDeRebaja: does it fit in what is left?
Cabe(k) == IF Clase[k] = "devolucion"
           THEN Cuanto[k] <= Vendido - YaDevuelto
           ELSE Cuanto[k] <= NoNeg(Pagado - YaReembolsado - YaRebajado)
Plan(k) == IF Clase[k] = "devolucion" THEN Reembolso(Cuanto[k]) ELSE Cuanto[k]

\* Mutants: only the units are checked again, or nothing is.
ExcedeSoloUnidades(k) == Clase[k] = "devolucion" /\ YaDevuelto > Vendido
ExcedeNunca(k) == FALSE

\* The check repeated with the record already written.
Excede(k) ==
    \/ Clase[k] = "devolucion" /\ YaDevuelto > Vendido
    \/ YaReembolsado + YaRebajado > Pagado

\* parteASaldoFavor: up to what was paid with saldo_favor and has not gone back.
OtrosASaldo(k) ==
    SumFunctionOnSet([o \in Ops |-> reg[o].aSaldo], {o \in Ops \ {k} : Existe(o)})
ParteASaldo(k) == Menor(Monto(k), NoNeg(PagadoConSaldo - OtrosASaldo(k)))

\* Of what is refunded, what leaves in cash and what goes to the balance.
EnPlata(k) == IF Medio[k] = "cash" THEN NoNeg(Monto(k) - reg[k].aSaldo) ELSE 0
AlSaldo(k) == reg[k].aSaldo
              + (IF Medio[k] = "credit_note" THEN NoNeg(Monto(k) - reg[k].aSaldo) ELSE 0)

Rechazo == fallas < MaxFallas /\ fallas' = fallas + 1
Va(p, paso) == pc' = [pc EXCEPT ![p] = paso]
En(p, paso) == pc[p] = paso

-----------------------------------------------------------------------------
(* create and createRebaja. *)

\* The request reads the sale; a void sale admits nothing.
Pedir(p) ==
    /\ p \in Clientes /\ En(p, "libre") /\ venta = "completed"
    /\ Va(p, "buscar")
    /\ UNCHANGED <<venta, reg, obj, temp, entradas, salidas, abonado, anulado, fallas, cortes>>

\* A record with the same key is resumed; a complete one moves nothing.
Buscar(p) ==
    /\ En(p, "buscar")
    /\ Va(p, IF ~Existe(obj[p]) THEN "leer" ELSE IF Abierta(obj[p]) THEN "tomar" ELSE "libre")
    /\ UNCHANGED <<venta, reg, obj, temp, entradas, salidas, abonado, anulado, fallas, cortes>>

\* The plan is made of what was returned up to now.
Leer(p) ==
    /\ En(p, "leer")
    /\ IF Cabe(obj[p])
       THEN temp' = [temp EXCEPT ![p] = Plan(obj[p])] /\ Va(p, "crear")
       ELSE UNCHANGED temp /\ Va(p, "libre")
    /\ UNCHANGED <<venta, reg, obj, entradas, salidas, abonado, anulado, fallas, cortes>>

\* The record is born with the turn of its creator; a duplicate key resumes
\* the record that won.
Crear(p) ==
    /\ En(p, "crear")
    /\ \/ /\ ~Existe(obj[p])
          /\ reg' = [reg EXCEPT ![obj[p]] =
                [SinRegistro EXCEPT !.estado = "en_curso", !.turno = p, !.monto = temp[p],
                                    !.stock = Clase[obj[p]] = "rebaja"]]
          /\ Va(p, "revisarEstado")
       \/ /\ Existe(obj[p])
          /\ Va(p, IF Abierta(obj[p]) THEN "tomar" ELSE "libre")
          /\ UNCHANGED reg
    /\ UNCHANGED <<venta, obj, temp, entradas, salidas, abonado, anulado, fallas, cortes>>

\* Mutant: the sale is not looked at again.
RevisarEstadoNunca(p) ==
    /\ En(p, "revisarEstado") /\ Va(p, "revisarSuma")
    /\ UNCHANGED <<venta, reg, obj, temp, entradas, salidas, abonado, anulado, fallas, cortes>>

\* With the record written, the sale is looked at again: a void may have won.
RevisarEstado(p) ==
    /\ En(p, "revisarEstado")
    /\ Va(p, IF venta = "void" THEN "retirar" ELSE "revisarSuma")
    /\ UNCHANGED <<venta, reg, obj, temp, entradas, salidas, abonado, anulado, fallas, cortes>>

\* And everything returned is summed again, with its own record in it.
RevisarSuma(p) ==
    /\ En(p, "revisarSuma")
    /\ Va(p, IF Excede(obj[p]) THEN "retirar" ELSE "nota")
    /\ UNCHANGED <<venta, reg, obj, temp, entradas, salidas, abonado, anulado, fallas, cortes>>

\* Mutant: the withdrawn record is kept, marked.
RetirarMarcando(p) ==
    /\ En(p, "retirar")
    /\ reg' = [reg EXCEPT ![obj[p]] = [SinRegistro EXCEPT !.estado = "retirada"]]
    /\ Va(p, "libre")
    /\ UNCHANGED <<venta, obj, temp, entradas, salidas, abonado, anulado, fallas, cortes>>

\* deleteOne of the record; the request answers 400 or 409.
Retirar(p) ==
    /\ En(p, "retirar")
    /\ reg' = [reg EXCEPT ![obj[p]] = SinRegistro]
    /\ Va(p, "libre")
    /\ UNCHANGED <<venta, obj, temp, entradas, salidas, abonado, anulado, fallas, cortes>>

\* The fiscal note fails closed: with no note the return is withdrawn.
EmitirNota(p) ==
    /\ En(p, "nota")
    /\ \/ Va(p, "dividir") /\ UNCHANGED fallas
       \/ Rechazo /\ Va(p, "retirar")
    /\ UNCHANGED <<venta, reg, obj, temp, entradas, salidas, abonado, anulado, cortes>>

-----------------------------------------------------------------------------
(* continuar: whoever resumes a record takes its turn first. *)

\* A cashier completes by hand a record that is still open.
CompletarPendiente(p) ==
    /\ p \in Cajeros /\ En(p, "libre")
    /\ \E k \in Ops : Abierta(k) /\ obj' = [obj EXCEPT ![p] = k]
    /\ Va(p, "tomar")
    /\ UNCHANGED <<venta, reg, temp, entradas, salidas, abonado, anulado, fallas, cortes>>

\* The sweep takes those in course, old enough and without a live turn.  A
\* turn (5 min) outlives its owner (300 s): it is free once the owner is gone.
BarrerVarada(p) ==
    /\ p \in Barridos /\ En(p, "libre")
    /\ \E k \in Ops :
         /\ reg[k].estado = "en_curso" /\ reg[k].turno = Nadie
         /\ obj' = [obj EXCEPT ![p] = k]
    /\ Va(p, "tomar")
    /\ UNCHANGED <<venta, reg, temp, entradas, salidas, abonado, anulado, fallas, cortes>>

\* What completar does first with the marks of the record.
SinCaja(r) == IF ~r.libro THEN "libro" ELSE "cerrar"
Completar(r) == IF ~r.stock THEN "stock" ELSE IF ~r.caja THEN "caja" ELSE SinCaja(r)
TrasCartera(r) == IF ~r.nota THEN "notaC" ELSE Completar(r)

\* Mutant: the turn is taken whoever has it.
TomarTurnoAjeno(p) ==
    /\ En(p, "tomar")
    /\ LET k == obj[p]
       IN  IF Abierta(k)
           THEN /\ reg' = [reg EXCEPT ![k].turno = p]
                /\ Va(p, IF ~reg[k].cartera THEN "dividirC" ELSE TrasCartera(reg[k]))
           ELSE UNCHANGED reg /\ Va(p, "libre")
    /\ UNCHANGED <<venta, obj, temp, entradas, salidas, abonado, anulado, fallas, cortes>>

\* tomarTurno, conditioned on the record being open and the turn free.
TomarTurno(p) ==
    /\ En(p, "tomar")
    /\ LET k == obj[p]
       IN  IF Abierta(k) /\ reg[k].turno = Nadie
           THEN /\ reg' = [reg EXCEPT ![k].turno = p]
                /\ Va(p, IF ~reg[k].cartera THEN "dividirC" ELSE TrasCartera(reg[k]))
           ELSE UNCHANGED reg /\ Va(p, "libre")
    /\ UNCHANGED <<venta, obj, temp, entradas, salidas, abonado, anulado, fallas, cortes>>

\* parteASaldoFavor reads what the other records gave back to the balance.
Dividir(p) ==
    /\ \/ En(p, "dividir") /\ Va(p, "guardar")
       \/ En(p, "dividirC") /\ Va(p, "guardarC")
    /\ temp' = [temp EXCEPT ![p] = ParteASaldo(obj[p])]
    /\ UNCHANGED <<venta, reg, obj, entradas, salidas, abonado, anulado, fallas, cortes>>

\* The record is saved with its part to the balance (create: and its note).
Guardar(p) ==
    /\ pc[p] \in {"guardar", "guardarC"}
    /\ reg' = [reg EXCEPT ![obj[p]].aSaldo = temp[p], ![obj[p]].cartera = TRUE,
                          ![obj[p]].nota = @ \/ En(p, "guardar")]
    /\ Va(p, TrasCartera(reg'[obj[p]]))
    /\ UNCHANGED <<venta, obj, temp, entradas, salidas, abonado, anulado, fallas, cortes>>

\* The note of a resumed return; a refusal leaves it for the next attempt.
EmitirNotaC(p) ==
    /\ En(p, "notaC")
    /\ \/ /\ reg' = [reg EXCEPT ![obj[p]].nota = TRUE]
          /\ Va(p, Completar(reg[obj[p]])) /\ UNCHANGED fallas
       \/ Rechazo /\ Va(p, "soltar") /\ UNCHANGED reg
    /\ UNCHANGED <<venta, obj, temp, entradas, salidas, abonado, anulado, cortes>>

-----------------------------------------------------------------------------
(* completar: stock, drawer and ledger, each with its mark. *)

\* stock.reverseSale, a transaction of its own: the units enter.
ReponerStock(p) ==
    /\ En(p, "stock")
    /\ entradas' = [entradas EXCEPT ![obj[p]] = @ + 1]
    /\ Va(p, "marcaStock")
    /\ UNCHANGED <<venta, reg, obj, temp, salidas, abonado, anulado, fallas, cortes>>

MarcarStock(p) ==
    /\ En(p, "marcaStock")
    /\ reg' = [reg EXCEPT ![obj[p]].stock = TRUE]
    /\ Va(p, Completar(reg'[obj[p]]))
    /\ UNCHANGED <<venta, obj, temp, entradas, salidas, abonado, anulado, fallas, cortes>>

\* Mutant: with no drawer open the return is withdrawn, its units already in.
SacarDeCajaORetirar(p) ==
    /\ En(p, "caja")
    /\ \/ salidas' = [salidas EXCEPT ![obj[p]] = @ + EnPlata(obj[p])]
          /\ Va(p, "marcaCaja") /\ UNCHANGED fallas
       \/ Rechazo /\ Va(p, "retirar") /\ UNCHANGED salidas
    /\ UNCHANGED <<venta, reg, obj, temp, entradas, abonado, anulado, cortes>>

\* The cash leaves the open drawer.  The sweep does not touch it; with no
\* drawer open a request goes on without its mark and a cashier gets a 409.
SacarDeCaja(p) ==
    /\ En(p, "caja")
    /\ LET k == obj[p]
       IN  \/ /\ EnPlata(k) = 0
              /\ Va(p, "marcaCaja") /\ UNCHANGED <<salidas, fallas>>
           \/ /\ EnPlata(k) > 0 /\ p \in Barridos
              /\ Va(p, SinCaja(reg[k])) /\ UNCHANGED <<salidas, fallas>>
           \/ /\ EnPlata(k) > 0 /\ p \notin Barridos
              /\ salidas' = [salidas EXCEPT ![k] = @ + EnPlata(k)]
              /\ Va(p, "marcaCaja") /\ UNCHANGED fallas
           \/ /\ EnPlata(k) > 0 /\ p \notin Barridos /\ Rechazo
              /\ Va(p, IF p \in Cajeros THEN "soltar" ELSE SinCaja(reg[k]))
              /\ UNCHANGED salidas
    /\ UNCHANGED <<venta, reg, obj, temp, entradas, abonado, anulado, cortes>>

MarcarCaja(p) ==
    /\ En(p, "marcaCaja")
    /\ reg' = [reg EXCEPT ![obj[p]].caja = TRUE]
    /\ Va(p, SinCaja(reg[obj[p]]))
    /\ UNCHANGED <<venta, obj, temp, entradas, salidas, abonado, anulado, fallas, cortes>>

\* The balance in favour and the ledger entry, idempotent by the record.
Asentar(p) ==
    /\ En(p, "libro")
    /\ abonado' = [abonado EXCEPT ![obj[p]] = IF @ = 0 THEN AlSaldo(obj[p]) ELSE @]
    /\ Va(p, "marcaLibro")
    /\ UNCHANGED <<venta, reg, obj, temp, entradas, salidas, anulado, fallas, cortes>>

MarcarLibro(p) ==
    /\ En(p, "marcaLibro")
    /\ reg' = [reg EXCEPT ![obj[p]].libro = TRUE]
    /\ Va(p, "cerrar")
    /\ UNCHANGED <<venta, obj, temp, entradas, salidas, abonado, anulado, fallas, cortes>>

\* Mutant: complete without looking at the cash.
CerrarSinCaja(p) ==
    /\ En(p, "cerrar")
    /\ reg' = [reg EXCEPT ![obj[p]].estado = "completa"]
    /\ Va(p, "soltar")
    /\ UNCHANGED <<venta, obj, temp, entradas, salidas, abonado, anulado, fallas, cortes>>

\* All done, or everything but the cash.
Cerrar(p) ==
    /\ En(p, "cerrar")
    /\ LET r == reg[obj[p]]
       IN  reg' = [reg EXCEPT ![obj[p]].estado =
             IF r.stock /\ r.libro THEN IF r.caja THEN "completa" ELSE "pendiente_caja" ELSE @]
    /\ Va(p, "soltar")
    /\ UNCHANGED <<venta, obj, temp, entradas, salidas, abonado, anulado, fallas, cortes>>

\* Mutant: the turn is left taken, and it does not expire.
SoltarTurnoNunca(p) ==
    /\ En(p, "soltar") /\ Va(p, "libre")
    /\ UNCHANGED <<venta, reg, obj, temp, entradas, salidas, abonado, anulado, fallas, cortes>>

\* soltarTurno, only its own; if it fails the turn expires.
SoltarTurno(p) ==
    /\ En(p, "soltar")
    /\ reg' = [reg EXCEPT ![obj[p]].turno = IF @ = p THEN Nadie ELSE @]
    /\ Va(p, "libre")
    /\ UNCHANGED <<venta, obj, temp, entradas, salidas, abonado, anulado, fallas, cortes>>

-----------------------------------------------------------------------------
(* SalesService.void *)

HayDevoluciones == \E k \in Ops : Existe(k)

\* The returns are counted before touching anything.
ContarDevoluciones(v) ==
    /\ v \in Anuladores /\ En(v, "libre") /\ ~HayDevoluciones
    /\ Va(v, "flip")
    /\ UNCHANGED <<venta, reg, obj, temp, entradas, salidas, abonado, anulado, fallas, cortes>>

\* Only one caller wins the flip.
TomarVenta(v) ==
    /\ En(v, "flip")
    /\ IF venta = "completed"
       THEN venta' = "void" /\ Va(v, "recontar")
       ELSE UNCHANGED venta /\ Va(v, "libre")
    /\ UNCHANGED <<reg, obj, temp, entradas, salidas, abonado, anulado, fallas, cortes>>

\* The returns are counted again with the sale taken.
Recontar(v) ==
    /\ En(v, "recontar")
    /\ Va(v, IF HayDevoluciones THEN "deshacer" ELSE "notaV")
    /\ UNCHANGED <<venta, reg, obj, temp, entradas, salidas, abonado, anulado, fallas, cortes>>

\* Mutant: the flip is not undone.
DeshacerFlipNunca(v) ==
    /\ En(v, "deshacer") /\ Va(v, "libre")
    /\ UNCHANGED <<venta, reg, obj, temp, entradas, salidas, abonado, anulado, fallas, cortes>>

DeshacerFlip(v) ==
    /\ En(v, "deshacer")
    /\ venta' = "completed" /\ Va(v, "libre")
    /\ UNCHANGED <<reg, obj, temp, entradas, salidas, abonado, anulado, fallas, cortes>>

EmitirNotaAnulacion(v) ==
    /\ En(v, "notaV")
    /\ \/ Va(v, "stockV") /\ UNCHANGED fallas
       \/ Rechazo /\ Va(v, "deshacer")
    /\ UNCHANGED <<venta, reg, obj, temp, entradas, salidas, abonado, anulado, cortes>>

\* All the units enter, or the void did not happen.
ReponerVenta(v) ==
    /\ En(v, "stockV")
    /\ \/ /\ anulado' = [anulado EXCEPT !.stock = @ + 1]
          /\ Va(v, "libroV") /\ UNCHANGED fallas
       \/ Rechazo /\ Va(v, "deshacer") /\ UNCHANGED anulado
    /\ UNCHANGED <<venta, reg, obj, temp, entradas, salidas, abonado, cortes>>

\* Ledger and treasury, balance in favour and drawer: none of them throws.
ReversarLibro(v) ==
    /\ En(v, "libroV")
    /\ anulado' = [anulado EXCEPT !.libro = TRUE] /\ Va(v, "saldoV")
    /\ UNCHANGED <<venta, reg, obj, temp, entradas, salidas, abonado, fallas, cortes>>

RevertirSaldo(v) ==
    /\ En(v, "saldoV")
    /\ anulado' = [anulado EXCEPT !.saldo = TRUE] /\ Va(v, "cajaV")
    /\ UNCHANGED <<venta, reg, obj, temp, entradas, salidas, abonado, fallas, cortes>>

SacarAnulacion(v) ==
    /\ En(v, "cajaV")
    /\ \/ anulado' = [anulado EXCEPT !.caja = TRUE] /\ UNCHANGED fallas
       \/ Rechazo /\ UNCHANGED anulado
    /\ Va(v, "libre")
    /\ UNCHANGED <<venta, reg, obj, temp, entradas, salidas, abonado, cortes>>

-----------------------------------------------------------------------------
(* The process is killed, or a call throws where nothing undoes it: the turn  *)
(* it held is released by its finally or expires.                            *)
Corte(p) ==
    /\ pc[p] \in Cortan /\ cortes < MaxCortes
    /\ cortes' = cortes + 1
    /\ Va(p, "libre")
    /\ reg' = [k \in Ops |-> IF reg[k].turno = p THEN [reg[k] EXCEPT !.turno = Nadie] ELSE reg[k]]
    /\ UNCHANGED <<venta, obj, temp, entradas, salidas, abonado, anulado, fallas>>

Sigue(p) ==
    \/ Buscar(p) \/ Leer(p) \/ Crear(p) \/ RevisarEstado(p) \/ RevisarSuma(p)
    \/ Retirar(p) \/ EmitirNota(p) \/ TomarTurno(p) \/ Dividir(p) \/ Guardar(p)
    \/ EmitirNotaC(p) \/ ReponerStock(p) \/ MarcarStock(p) \/ SacarDeCaja(p)
    \/ MarcarCaja(p) \/ Asentar(p) \/ MarcarLibro(p) \/ Cerrar(p) \/ SoltarTurno(p)

Anula(v) ==
    \/ TomarVenta(v) \/ Recontar(v) \/ DeshacerFlip(v) \/ EmitirNotaAnulacion(v)
    \/ ReponerVenta(v) \/ ReversarLibro(v) \/ RevertirSaldo(v) \/ SacarAnulacion(v)

Next ==
    \/ \E p \in Registradores :
          Pedir(p) \/ CompletarPendiente(p) \/ BarrerVarada(p) \/ Sigue(p)
    \/ \E v \in Anuladores : ContarDevoluciones(v) \/ Anula(v)
    \/ \E p \in Actores : Corte(p)

Spec == Init /\ [][Next]_vars

(* What is in flight goes on and the cron keeps sweeping.                   *)
FairSpec ==
    /\ Spec
    /\ \A p \in Registradores : WF_vars(Sigue(p))
    /\ \A b \in Barridos : WF_vars(BarrerVarada(b))
    /\ \A v \in Anuladores : WF_vars(Anula(v))

-----------------------------------------------------------------------------
(* Properties *)

Movio(k) == entradas[k] > 0 \/ salidas[k] > 0 \/ abonado[k] > 0

\* A void that reversed the stock and a return or rebate that moved anything
\* never coexist: the record-then-check of one meets the flip-then-count of the
\* other in any order.
AnuladaODevuelta == anulado.stock > 0 => \A k \in Ops : ~Movio(k)

\* At most what was sold comes back to the stock, with two returns at once, a
\* retry of the same key, the sweep and the cashier on the same record.
NoVuelveMasDeLoVendido ==
    SumFunctionOnSet([k \in Ops |-> entradas[k] * Unidades(k)], Ops) + anulado.stock * Vendido
        <= Vendido

\* And at most what was paid goes back, adding returns and rebates, cash and balance.
NoSaleMasDeLoPagado ==
    SumFunctionOnSet([k \in Ops |-> salidas[k] + abonado[k]], Ops)
        + (IF anulado.stock > 0 THEN Pagado ELSE 0) <= Pagado

\* A return and a rebate that each fit alone are planned from one count: no more
\* units come back than were sold, no more pesos than were paid.
NadaVuelveDeMas == NoSaleMasDeLoPagado /\ NoVuelveMasDeLoVendido

\* Steps taken with the record in hand.
ConTurno == PasosRegistro \ {"buscar", "leer", "crear", "tomar"}

\* The turn excludes: two actors never work on one record at once.
TurnoExclusivo ==
    \A p, q \in Registradores :
        p # q /\ pc[p] \in ConTurno /\ pc[q] \in ConTurno => obj[p] # obj[q]

\* A complete return moved exactly its part: its units once, its cash and its
\* balance to the peso.
CompletaMovioTodo ==
    \A k \in Ops : reg[k].estado = "completa" =>
        /\ entradas[k] = IF Clase[k] = "devolucion" THEN 1 ELSE 0
        /\ salidas[k] = EnPlata(k) /\ abonado[k] = AlSaldo(k)
        /\ salidas[k] + abonado[k] = Monto(k)

\* A return that moved anything never loses its record: what came back keeps
\* counting as returned for the operations that follow.
LoMovidoNoSeBorra ==
    [][\A k \in Ops : Movio(k) => reg'[k].estado # "no" /\ reg'[k].monto = reg[k].monto]_vars

\* A return cut at any step does not stay in course: a retry, a cashier or the
\* sweep finishes it, or leaves only its cash pending.
VaradaTermina ==
    \A k \in Ops : reg[k].estado = "en_curso" ~> reg[k].estado # "en_curso"

\* A sale left void was reversed: stock, ledger and balance.
AnuladaFueReversada ==
    venta = "void" /\ (\A v \in Anuladores : pc[v] = "libre")
        => anulado.stock = 1 /\ anulado.libro /\ anulado.saldo

\* What goes back to the balance never passes what was paid with it.
SaldoHastaLoPagado ==
    SumFunctionOnSet([k \in Ops |-> reg[k].aSaldo], Ops) <= PagadoConSaldo
=============================================================================
