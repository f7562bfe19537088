---------------------------- MODULE SaldoFavor ----------------------------
(*****************************************************************************)
(* The balance in favour of ONE customer (PUC 2805), saldo-favor.service.ts: *)
(* a row with the live balance (`saldo_favor_clientes`) and the auxiliary of *)
(* movements (`saldo_favor_movimientos`, unique per origin and type).        *)
(*                                                                           *)
(* Every await of the service is one action.  A movement is identified by    *)
(* what its unique index says, <<tipo, origen>>, and the request that works  *)
(* on it is the actor of the same name: its callers (the turn of a return,   *)
(* the atomic flip of a void, the fresh _id of a sale) never run two         *)
(* requests for one origin at once.  The sweeps of the daily cron are actors *)
(* too, and several instances may run together.                              *)
(*****************************************************************************)
EXTENDS Integers, FiniteSets, Functions

CONSTANTS
    Abonos,      \* origins of credits: returns, rebates, notes without reference
    Ventas,      \* sales paid with saldo_favor
    Barridos,    \* instances that run the sweep
    Anonimos,    \* credits of sales without a customer
    Monto,       \* pesos of each origin
    Fallan,      \* steps whose database call may fail
    Cortan,      \* steps before which the process may be killed
    MaxFallas,   \* bound on failed calls
    MaxCortes    \* bound on killed processes

Mov == ({"abono"} \X Abonos) \cup ({"consumo", "reverso"} \X Ventas)

ASSUME SaldoAssumption ==
    /\ Monto \in [Abonos \cup Ventas -> Nat \ {0}]
    /\ Abonos # {} /\ Anonimos \subseteq Abonos
    /\ IsFiniteSet(Abonos) /\ IsFiniteSet(Ventas)
    /\ Barridos \cap Mov = {}
    /\ MaxFallas \in Nat /\ MaxCortes \in Nat

VARIABLES
    saldo,        \* saldo_favor_clientes.saldo
    mov,          \* the movement's document: absent, aplicado: false, aplicado: true
    venta,        \* the sale that consumes
    pc,           \* the next await of each actor
    blanco,       \* the movement a sweep is applying
    lista,        \* what a sweep's find() returned and it has not reached yet
    respuesta,    \* what the last request of the origin answered to its caller
    veces,        \* history: how many times the movement moved the balance
    fallas, cortes

vars == <<saldo, mov, venta, pc, blanco, lista, respuesta, veces, fallas, cortes>>

Actores == Mov \cup Barridos
Pasos == {"libre", "buscar", "reservar", "reclamar", "mover", "desmarcar",
          "soltar", "borrar"}

Tipo(m) == m[1]
Consumo(s) == <<"consumo", s>>
Reverso(s) == <<"reverso", s>>
Signo(m) == IF Tipo(m) = "consumo" THEN -Monto[m[2]] ELSE Monto[m[2]]
SinTercero(m) == Tipo(m) = "abono" /\ m[2] \in Anonimos

Obj(p) == IF p \in Mov THEN p ELSE blanco[p]

TypeOK ==
    /\ saldo \in Int
    /\ mov \in [Mov -> {"no", "pendiente", "aplicado"}]
    /\ venta \in [Ventas -> {"nueva", "verificada", "persistida", "anulada", "borrada"}]
    /\ pc \in [Actores -> Pasos]
    /\ blanco \in [Barridos -> Mov]
    /\ lista \in [Barridos -> SUBSET Mov]
    /\ respuesta \in [Mov -> {"ninguna", "hecho", "error"}]
    /\ veces \in [Mov -> Nat]
    /\ fallas \in 0..MaxFallas
    /\ cortes \in 0..MaxCortes

Init ==
    /\ saldo = 0
    /\ mov = [m \in Mov |-> "no"]
    /\ venta = [s \in Ventas |-> "nueva"]
    /\ pc = [p \in Actores |-> "libre"]
    /\ blanco = [b \in Barridos |-> CHOOSE m \in Mov : TRUE]
    /\ lista = [b \in Barridos |-> {}]
    /\ respuesta = [m \in Mov |-> "ninguna"]
    /\ veces = [m \in Mov |-> 0]
    /\ fallas = 0 /\ cortes = 0

-----------------------------------------------------------------------------
(* A call to the database that fails: bounded, and only in the steps Fallan. *)
Falla(paso) ==
    /\ paso \in Fallan /\ fallas < MaxFallas
    /\ fallas' = fallas + 1

(* The request answers; a rejected charge goes on to undo its sale.          *)
Responde(m, r) ==
    /\ respuesta' = [respuesta EXCEPT ![m] = r]
    /\ pc' = [pc EXCEPT ![m] = IF r = "error" /\ Tipo(m) = "consumo"
                               THEN "borrar" ELSE "libre"]

-----------------------------------------------------------------------------
(* The callers. *)

\* completar() of a return or of a note credits the balance; it is retried
\* until it succeeds, one request at a time.
PedirAbono(m) ==
    /\ Tipo(m) = "abono" /\ pc[m] = "libre" /\ respuesta[m] # "hecho"
    /\ pc' = [pc EXCEPT ![m] = "reservar"]
    /\ UNCHANGED <<saldo, mov, venta, blanco, lista, respuesta, veces, fallas, cortes>>

\* crear checks that the balance suffices, with a read that nothing protects.
Verificar(s) ==
    /\ venta[s] = "nueva" /\ saldo >= Monto[s]
    /\ venta' = [venta EXCEPT ![s] = "verificada"]
    /\ UNCHANGED <<saldo, mov, pc, blanco, lista, respuesta, veces, fallas, cortes>>

\* finalizeSale persists the sale and then consumes; a sale is charged once.
PedirConsumo(s) ==
    /\ venta[s] = "verificada"
    /\ venta' = [venta EXCEPT ![s] = "persistida"]
    /\ pc' = [pc EXCEPT ![Consumo(s)] = "reservar"]
    /\ UNCHANGED <<saldo, mov, blanco, lista, respuesta, veces, fallas, cortes>>

\* void flips a sale that exists, also while it is being charged, and gives the
\* balance back.
PedirReverso(s) ==
    /\ venta[s] = "persistida"
    /\ venta' = [venta EXCEPT ![s] = "anulada"]
    /\ pc' = [pc EXCEPT ![Reverso(s)] = "buscar"]
    /\ UNCHANGED <<saldo, mov, blanco, lista, respuesta, veces, fallas, cortes>>

-----------------------------------------------------------------------------
(* The requests. *)

\* revertirConsumo looks for the movement of the charge, applied or not.
BuscarConsumo(m) ==
    /\ pc[m] = "buscar"
    /\ \/ /\ mov[Consumo(m[2])] # "no"
          /\ pc' = [pc EXCEPT ![m] = "reservar"]
          /\ UNCHANGED <<respuesta, fallas>>
       \/ /\ mov[Consumo(m[2])] = "no"
          /\ Responde(m, "hecho") /\ UNCHANGED fallas
       \/ Falla("buscar") /\ Responde(m, "error")
    /\ UNCHANGED <<saldo, mov, venta, blanco, lista, veces, cortes>>

\* reservar: the unique index turns a repeated origin into "already there".
Reservar(m) ==
    /\ pc[m] = "reservar"
    /\ \/ /\ mov[m] = "no" /\ SinTercero(m)
          /\ mov' = [mov EXCEPT ![m] = "aplicado"]
          /\ Responde(m, "hecho") /\ UNCHANGED fallas
       \/ /\ mov[m] = "no" /\ ~SinTercero(m)
          /\ mov' = [mov EXCEPT ![m] = "pendiente"]
          /\ pc' = [pc EXCEPT ![m] = "reclamar"]
          /\ UNCHANGED <<respuesta, fallas>>
       \/ /\ mov[m] # "no"
          /\ Responde(m, "hecho") /\ UNCHANGED <<mov, fallas>>
       \/ Falla("reservar") /\ Responde(m, "error") /\ UNCHANGED mov
    /\ UNCHANGED <<saldo, venta, blanco, lista, veces, cortes>>

\* What an actor does when aplicar() returns or throws: the sweep goes on to
\* its next movement, a request answers or withdraws its movement.
Devuelve(p, r) ==
    IF p \in Barridos
    THEN pc' = [pc EXCEPT ![p] = "libre"] /\ UNCHANGED respuesta
    ELSE \/ /\ r = "true" \/ (r = "false" /\ Tipo(p) # "consumo")
            /\ Responde(p, "hecho")
         \/ /\ r = "throw" \/ (r = "false" /\ Tipo(p) = "consumo")
            /\ pc' = [pc EXCEPT ![p] = "soltar"]
            /\ UNCHANGED respuesta

\* Mutant: the claim is not conditioned on aplicado: false.
ReclamarSinCondicion(p) ==
    /\ pc[p] = "reclamar"
    /\ mov' = [mov EXCEPT ![Obj(p)] = "aplicado"]
    /\ pc' = [pc EXCEPT ![p] = "mover"]
    /\ UNCHANGED <<saldo, venta, blanco, lista, respuesta, veces, fallas, cortes>>

\* aplicar, first half: claim the movement (aplicado false -> true).
Reclamar(p) ==
    /\ pc[p] = "reclamar"
    /\ \/ /\ mov[Obj(p)] = "pendiente"
          /\ mov' = [mov EXCEPT ![Obj(p)] = "aplicado"]
          /\ pc' = [pc EXCEPT ![p] = "mover"]
          /\ UNCHANGED <<respuesta, fallas>>
       \/ /\ mov[Obj(p)] # "pendiente"
          /\ Devuelve(p, "false") /\ UNCHANGED <<mov, fallas>>
       \/ Falla("reclamar") /\ Devuelve(p, "throw") /\ UNCHANGED mov
    /\ UNCHANGED <<saldo, venta, blanco, lista, veces, cortes>>

\* aplicar, second half: move the balance; a charge only if it suffices.
Mover(p) ==
    /\ pc[p] = "mover"
    /\ \/ /\ saldo + Signo(Obj(p)) >= 0
          /\ saldo' = saldo + Signo(Obj(p))
          /\ veces' = [veces EXCEPT ![Obj(p)] = @ + 1]
          /\ Devuelve(p, "true") /\ UNCHANGED fallas
       \/ /\ saldo + Signo(Obj(p)) < 0
          /\ pc' = [pc EXCEPT ![p] = "desmarcar"]
          /\ UNCHANGED <<saldo, veces, respuesta, fallas>>
       \/ /\ Falla("mover")
          /\ pc' = [pc EXCEPT ![p] = "desmarcar"]
          /\ UNCHANGED <<saldo, veces, respuesta>>
    /\ UNCHANGED <<mov, venta, blanco, lista, cortes>>

\* Mutant: a charge that does not suffice is undone and reported as applied.
DesmarcarYSeguir(p) ==
    /\ pc[p] = "desmarcar"
    /\ mov' = [mov EXCEPT ![Obj(p)] = "pendiente"]
    /\ Devuelve(p, "true")
    /\ UNCHANGED <<saldo, venta, blanco, lista, veces, fallas, cortes>>

\* The claim is undone; its failure is swallowed.
Desmarcar(p) ==
    /\ pc[p] = "desmarcar"
    /\ \/ mov' = [mov EXCEPT ![Obj(p)] = "pendiente"] /\ UNCHANGED fallas
       \/ Falla("desmarcar") /\ UNCHANGED mov
    /\ Devuelve(p, "throw")
    /\ UNCHANGED <<saldo, venta, blanco, lista, veces, cortes>>

\* Mutant: the withdrawn movement is marked instead of deleted.
SoltarMarcando(m) ==
    /\ pc[m] = "soltar"
    /\ mov' = [mov EXCEPT ![m] = "anulado"]
    /\ Responde(m, "error")
    /\ UNCHANGED <<saldo, venta, blanco, lista, veces, fallas, cortes>>

\* soltar: the request withdraws its movement; its failure is only logged.
Soltar(m) ==
    /\ pc[m] = "soltar"
    /\ \/ mov' = [mov EXCEPT ![m] = "no"] /\ UNCHANGED fallas
       \/ Falla("soltar") /\ UNCHANGED mov
    /\ Responde(m, "error")
    /\ UNCHANGED <<saldo, venta, blanco, lista, veces, cortes>>

\* finalizeSale deletes the sale whose charge was rejected.
BorrarVenta(m) ==
    /\ pc[m] = "borrar"
    /\ pc' = [pc EXCEPT ![m] = "libre"]
    /\ \/ venta' = [venta EXCEPT ![m[2]] = "borrada"] /\ UNCHANGED fallas
       \/ Falla("borrar") /\ UNCHANGED venta
    /\ UNCHANGED <<saldo, mov, blanco, lista, respuesta, veces, cortes>>

-----------------------------------------------------------------------------
(* The sweep, aplicarPendientes. *)

\* Mutants: the sweep takes movements of any age, or only charges.
VaradoSinEdad(m) == mov[m] = "pendiente"
VaradoSoloConsumo(m) == mov[m] = "pendiente" /\ pc[m] = "libre" /\ Tipo(m) = "consumo"

\* Older than VARADO_MS (10 min): no request lives that long (300 s), so the
\* one that reserved it is over.
Varado(m) == mov[m] = "pendiente" /\ pc[m] = "libre"

BarridoLee(b) ==
    /\ pc[b] = "libre" /\ lista[b] = {}
    /\ \E m \in Mov : Varado(m)
    /\ lista' = [lista EXCEPT ![b] = {m \in Mov : Varado(m)}]
    /\ UNCHANGED <<saldo, mov, venta, pc, blanco, respuesta, veces, fallas, cortes>>

BarridoSigue(b) ==
    /\ pc[b] = "libre"
    /\ \E m \in lista[b] :
         /\ blanco' = [blanco EXCEPT ![b] = m]
         /\ lista' = [lista EXCEPT ![b] = @ \ {m}]
    /\ pc' = [pc EXCEPT ![b] = "reclamar"]
    /\ UNCHANGED <<saldo, mov, venta, respuesta, veces, fallas, cortes>>

-----------------------------------------------------------------------------
(* The process is killed between two awaits and nobody is answered. *)
Corte(p) ==
    /\ pc[p] \in Cortan /\ cortes < MaxCortes
    /\ cortes' = cortes + 1
    /\ pc' = [pc EXCEPT ![p] = "libre"]
    /\ lista' = [b \in Barridos |-> IF b = p THEN {} ELSE lista[b]]
    /\ UNCHANGED <<saldo, mov, venta, blanco, respuesta, veces, fallas>>

Aplicar(p) == Reclamar(p) \/ Mover(p) \/ Desmarcar(p)

Peticion(m) ==
    \/ BuscarConsumo(m) \/ Reservar(m) \/ Aplicar(m) \/ Soltar(m) \/ BorrarVenta(m)

Barrido(b) == BarridoLee(b) \/ BarridoSigue(b) \/ Aplicar(b)

Next ==
    \/ \E m \in Mov : PedirAbono(m) \/ Peticion(m)
    \/ \E s \in Ventas : Verificar(s) \/ PedirConsumo(s) \/ PedirReverso(s)
    \/ \E b \in Barridos : Barrido(b)
    \/ \E p \in Actores : Corte(p)

Spec == Init /\ [][Next]_vars

(* A request in flight goes on, and the cron keeps sweeping; nobody is forced *)
(* to start or to retry a request.                                          *)
FairSpec ==
    /\ Spec
    /\ \A m \in Mov : WF_vars(Peticion(m))
    /\ \A b \in Barridos : WF_vars(Barrido(b))

-----------------------------------------------------------------------------
(* Refinement: only Mover's success is a step of the promise. *)
Movidos == {m \in Mov : veces[m] >= 1}
Promesa == INSTANCE SaldoFavorPromesa WITH movidos <- Movidos
-----------------------------------------------------------------------------
(* Properties *)

\* The steps of reserve, claim and undo implement the atomic promise.
CumplePromesa == Promesa!Spec

\* The balance never goes below zero: two charges at once do not spend the
\* same peso (findOneAndUpdate conditioned on saldo >= amount).
SaldoNoNegativo == saldo >= 0

\* However requests, retries, sweeps and cuts interleave, a movement moves the
\* balance at most once, and what moved it stays in the auxiliary, applied: it
\* is never withdrawn by the request nor put back for the sweep.
EfectoUnico ==
    \A m \in Mov : veces[m] <= 1 /\ (veces[m] = 1 => mov[m] = "aplicado")

\* reporte(): saldo minus the auxiliary of the customer.
EnElAuxiliar(m) == mov[m] # "no" /\ ~SinTercero(m)
Total(movimientos) == SumFunctionOnSet([m \in Mov |-> Signo(m)], movimientos)
Descuadre == saldo - Total({m \in Mov : EnElAuxiliar(m)})

\* The report's difference is exactly what the half-done steps will still move:
\* with none, saldo and auxiliary agree.
AMedias(m) == EnElAuxiliar(m) /\ veces[m] = 0
DescuadreExplicado == Descuadre = -Total({m \in Mov : AMedias(m)})

\* A sale whose payment with balance was accepted did take the balance, and a
\* void gives back no more than that sale took.
CobroAceptadoGasta ==
    \A s \in Ventas :
        respuesta[Consumo(s)] = "hecho" =>
            veces[Consumo(s)] = 1 /\ veces[Reverso(s)] <= veces[Consumo(s)]

\* What a balance is out by is explained, and an accepted charge spends it.
SaldoCuadra == DescuadreExplicado /\ CobroAceptadoGasta

\* A credit answered as done reaches the balance, although the request that
\* reserved it was cut and only the sweep is left to apply it.
AbonoHechoLlega ==
    \A m \in Mov :
        Tipo(m) = "abono" /\ ~SinTercero(m) /\ respuesta[m] = "hecho" ~> veces[m] = 1
=============================================================================
