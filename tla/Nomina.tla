------------------------------- MODULE Nomina -------------------------------
(*****************************************************************************)
(* Payroll runs and the deductions they discount (payroll.service.ts): a run *)
(* is computed, tied to its deductions, recalculated, deleted or closed,     *)
(* while consumptions are approved, and cancelled by the void of their sale. *)
(* A negative net leaves a balance that the close turns into a deduction of  *)
(* a later run.                                                              *)
(*                                                                           *)
(* One employee.  A bulk update of the deductions is one step, as is what    *)
(* createRun and recalcRun read between two writes.                          *)
(*****************************************************************************)
EXTENDS Integers, FiniteSets, FiniteSetsExt

CONSTANTS
    Consumos, Monto,            \* deductions by hand or of a sale, and their pesos
    Corridas, Periodo,          \* runs (each id is created once) and their month
    Admins,
    Anuladores, ConsumoDe,      \* voids of sales charged to the employee
    Salario,                    \* net of the month before these deductions
    Cruces,                     \* may two requests work on one run or deduction at once
    EnMedio,                    \* may a bulk update fall between a look and its update
    Ninguna,
    Cortan,                     \* steps where the process may be killed
    MaxCortes                   \* bound on killed processes

VARIABLES
    ded,        \* the deductions; a run names the one its close leaves
    corrida,    \* the runs, with the deductions their slips discount
    libro,      \* what the entry of each run says was discounted
    pc,         \* the next await of each actor
    leido,      \* what each admin read and has not used yet
    cortes

vars == <<ded, corrida, libro, pc, leido, cortes>>

Deducciones == Consumos \cup Corridas
PasosRun == {"insertar", "aplicar", "soltarTodas", "mirarSaldo", "anularSaldo", "soltar",
    "construir", "guardar", "borrar", "cuadrar", "arrastrar", "cerrar", "asentar"}
PasosDeduccion == {"aprobar", "rechazar"}
PasosVoid == {"cancelar", "mirarOtra", "sigue"}

SinLeer == [op |-> "nada", obj |-> Ninguna, colillas |-> {}, intento |-> 0,
    vigente |-> FALSE]

TypeOK ==
    /\ \A d \in Deducciones :
         /\ ded[d].estado \in {"no", "pending", "approved", "applied", "rejected", "cancelled"}
         /\ ded[d].corrida \in Corridas \cup {Ninguna}
         /\ ded[d].monto \in Nat
         /\ ded[d].estado = "applied" => ded[d].corrida # Ninguna
    /\ \A n \in Corridas : /\ corrida[n].estado \in {"no", "borrador", "cerrada", "borrada"}
                           /\ corrida[n].colillas \subseteq Deducciones
    /\ \A n \in Corridas : libro[n] \in SUBSET SUBSET Deducciones
    /\ pc \in [Admins \cup Anuladores ->
                 {"libre", "fin"} \cup PasosRun \cup PasosDeduccion \cup PasosVoid]
    /\ \A a \in Admins : /\ leido[a].obj \in Deducciones \cup {Ninguna}
                         /\ leido[a].colillas \subseteq Deducciones
                         /\ leido[a].intento \in 0..3
    /\ cortes \in 0..MaxCortes

Init ==
    /\ ded = [d \in Deducciones |-> [estado |-> "no", corrida |-> Ninguna,
                monto |-> IF d \in Consumos THEN Monto[d] ELSE 0]]
    /\ corrida = [n \in Corridas |-> [estado |-> "no", colillas |-> {}]]
    /\ libro = [n \in Corridas |-> {}]
    /\ pc = [a \in Admins \cup Anuladores |-> "libre"]
    /\ leido = [a \in Admins |-> SinLeer]
    /\ cortes = 0

-----------------------------------------------------------------------------
Va(a, paso) == pc' = [pc EXCEPT ![a] = paso]

\* An admin goes on with what was read, or answers and forgets it.
Sigue(a, paso) ==
    /\ Va(a, paso)
    /\ leido' = IF paso = "libre" THEN [leido EXCEPT ![a] = SinLeer] ELSE leido

Suma(S) == MapThenSumSet(LAMBDA d : ded[d].monto, S)
Neto(S) == Salario - Suma(S)

Aprobadas == {d \in Deducciones : ded[d].estado = "approved"}
De(n) == {d \in Deducciones : ded[d].corrida = n}
AplicadasA(n) == {d \in De(n) : ded[d].estado = "applied"}

\* Every deduction tied to the run goes back to approved.
Sueltas(n) == [d \in Deducciones |->
    IF d \in De(n) THEN [ded[d] EXCEPT !.estado = "approved", !.corrida = Ninguna] ELSE ded[d]]

\* A release between the two looks of a void, and a run that takes a balance
\* another request looked at to cancel it.
PuedeSoltar == EnMedio \/ \A v \in Anuladores : pc[v] \notin {"cancelar", "mirarOtra"}
PuedeAplicar == EnMedio \/ \A b \in Admins : pc[b] # "anularSaldo"

Ocupada(x) == \E b \in Admins : pc[b] # "libre" /\ leido[b].obj = x
Toma(a, op, x) ==
    /\ pc[a] = "libre" /\ (Cruces \/ ~Ocupada(x))
    /\ leido' = [leido EXCEPT ![a] = [SinLeer EXCEPT !.op = op, !.obj = x, !.vigente = TRUE]]

-----------------------------------------------------------------------------
(* createRun *)

\* The month has no run yet (the unique index asks again at the insert), and the
\* slips discount what is approved now.
Crear(a, n) ==
    /\ pc[a] = "libre" /\ corrida[n].estado = "no" /\ ~Ocupada(n)
    /\ \A k \in Corridas : Periodo[k] = Periodo[n] => corrida[k].estado \in {"no", "borrada"}
    /\ leido' = [leido EXCEPT ![a] = [op |-> "crear", obj |-> n, colillas |-> Aprobadas,
                                      intento |-> 0, vigente |-> FALSE]]
    /\ Va(a, "insertar")
    /\ UNCHANGED <<ded, corrida, libro, cortes>>

Insertar(a) ==
    LET n == leido[a].obj IN
    /\ pc[a] = "insertar"
    /\ IF \E k \in Corridas : Periodo[k] = Periodo[n] /\ corrida[k].estado \in {"borrador", "cerrada"}
       THEN Sigue(a, "libre") /\ UNCHANGED corrida
       ELSE /\ corrida' = [corrida EXCEPT
                  ![n] = [estado |-> "borrador", colillas |-> leido[a].colillas]]
            /\ Sigue(a, "aplicar")
    /\ UNCHANGED <<ded, libro, cortes>>

TrasAplicar(a) == Sigue(a, IF leido[a].op = "crear" THEN "libre" ELSE "guardar")

\* Mutant: the update is not conditioned on the deduction being approved.
AplicarSinCondicion(a) ==
    LET n == leido[a].obj IN
    /\ pc[a] = "aplicar" /\ PuedeAplicar
    /\ ded' = [d \in Deducciones |-> IF d \in leido[a].colillas
                 THEN [ded[d] EXCEPT !.estado = "applied", !.corrida = n] ELSE ded[d]]
    /\ TrasAplicar(a)
    /\ UNCHANGED <<corrida, libro, cortes>>

\* applyDeductionsToRun: those still approved become applied to the run...
Aplicar(a) ==
    LET n == leido[a].obj IN
    /\ pc[a] = "aplicar" /\ PuedeAplicar
    /\ ded' = [d \in Deducciones |-> IF d \in leido[a].colillas \cap Aprobadas
                 THEN [ded[d] EXCEPT !.estado = "applied", !.corrida = n] ELSE ded[d]]
    /\ IF leido[a].colillas \subseteq Aprobadas THEN TrasAplicar(a) ELSE Sigue(a, "soltarTodas")
    /\ UNCHANGED <<corrida, libro, cortes>>

\* ... and if one was not, all are released: createRun deletes the run,
\* recalcRun computes again up to three times.
SoltarTodas(a) ==
    /\ pc[a] = "soltarTodas" /\ PuedeSoltar
    /\ ded' = Sueltas(leido[a].obj)
    /\ Sigue(a, IF leido[a].op = "crear" THEN "borrar"
             ELSE IF leido[a].intento < 3 THEN "construir" ELSE "libre")
    /\ UNCHANGED <<corrida, libro, cortes>>

-----------------------------------------------------------------------------
(* recalcRun and removeRun *)

Tomar(a, n) ==
    /\ corrida[n].estado = "borrador"
    /\ \E op \in {"recalcular", "eliminar"} : Toma(a, op, n)
    /\ Va(a, "mirarSaldo")
    /\ UNCHANGED <<ded, corrida, libro, cortes>>

\* anularArrastresDe: a balance of this run that a later run discounted stays...
MirarSaldo(a) ==
    /\ pc[a] = "mirarSaldo"
    /\ Sigue(a, IF ded[leido[a].obj].estado = "applied" THEN "libre" ELSE "anularSaldo")
    /\ UNCHANGED <<ded, corrida, libro, cortes>>

\* Mutant: a failed close leaves its balance although the slips will change.
AnularSaldoNunca(a) ==
    /\ pc[a] = "anularSaldo" /\ Sigue(a, "soltar")
    /\ UNCHANGED <<ded, corrida, libro, cortes>>

\* ... and one that was not is cancelled and leaves the unique index.
AnularSaldo(a) ==
    LET n == leido[a].obj IN
    /\ pc[a] = "anularSaldo"
    /\ ded' = IF ded[n].estado = "approved"
              THEN [ded EXCEPT ![n].estado = "no", ![n].monto = 0] ELSE ded
    /\ Sigue(a, "soltar")
    /\ UNCHANGED <<corrida, libro, cortes>>

Soltar(a) ==
    /\ pc[a] = "soltar" /\ PuedeSoltar
    /\ ded' = Sueltas(leido[a].obj)
    /\ Sigue(a, IF leido[a].op = "recalcular" THEN "construir" ELSE "borrar")
    /\ UNCHANGED <<corrida, libro, cortes>>

Construir(a) ==
    /\ pc[a] = "construir"
    /\ leido' = [leido EXCEPT ![a].colillas = Aprobadas, ![a].intento = @ + 1]
    /\ Va(a, "aplicar")
    /\ UNCHANGED <<ded, corrida, libro, cortes>>

\* The save of the slips carries the version of the document (mongoose).
Guardar(a) ==
    LET n == leido[a].obj IN
    /\ pc[a] = "guardar"
    /\ corrida' = IF leido[a].vigente /\ corrida[n].estado # "borrada"
                  THEN [corrida EXCEPT ![n].colillas = leido[a].colillas] ELSE corrida
    /\ leido' = [b \in Admins |->
         IF b = a THEN SinLeer
         ELSE [leido[b] EXCEPT !.vigente = @ /\ (leido[b].obj # n \/ corrida'[n] = corrida[n])]]
    /\ Va(a, "libre")
    /\ UNCHANGED <<ded, libro, cortes>>

Borrar(a) ==
    /\ pc[a] = "borrar"
    /\ corrida' = [corrida EXCEPT ![leido[a].obj] = [estado |-> "borrada", colillas |-> {}]]
    /\ Sigue(a, "libre")
    /\ UNCHANGED <<ded, libro, cortes>>

-----------------------------------------------------------------------------
(* closeRun *)

Cerrando(a, n) ==
    /\ corrida[n].estado = "borrador"
    /\ pc[a] = "libre" /\ (Cruces \/ ~Ocupada(n))
    /\ leido' = [leido EXCEPT ![a] = [op |-> "cerrar", obj |-> n,
                    colillas |-> corrida[n].colillas, intento |-> 0, vigente |-> FALSE]]
    /\ Va(a, "cuadrar")
    /\ UNCHANGED <<ded, corrida, libro, cortes>>

\* What the slips discount is tied to this run, by count and by sum.
Cuadrar(a) ==
    LET aplicadas == AplicadasA(leido[a].obj) IN
    /\ pc[a] = "cuadrar"
    /\ Sigue(a, IF /\ Cardinality(aplicadas) = Cardinality(leido[a].colillas)
                /\ Suma(aplicadas) = Suma(leido[a].colillas)
             THEN "arrastrar" ELSE "libre")
    /\ UNCHANGED <<ded, corrida, libro, cortes>>

\* crearArrastres: one live deduction per run for a negative net.
Arrastrar(a) ==
    LET n == leido[a].obj
        neto == Neto(leido[a].colillas)
    IN  /\ pc[a] = "arrastrar"
        /\ ded' = IF neto < 0 /\ ded[n].estado = "no"
                  THEN [ded EXCEPT ![n] = [estado |-> "approved", corrida |-> Ninguna,
                                           monto |-> -neto]]
                  ELSE ded
        /\ Sigue(a, "cerrar")
        /\ UNCHANGED <<corrida, libro, cortes>>

\* The save of the status does not carry the version.
Cerrar(a) ==
    LET n == leido[a].obj IN
    /\ pc[a] = "cerrar"
    /\ IF corrida[n].estado = "borrada" THEN Sigue(a, "libre") /\ UNCHANGED corrida
       ELSE corrida' = [corrida EXCEPT ![n].estado = "cerrada"] /\ Sigue(a, "asentar")
    /\ UNCHANGED <<ded, libro, cortes>>

\* postPayrollRun, once per run.
Asentar(a) ==
    LET n == leido[a].obj IN
    /\ pc[a] = "asentar"
    /\ libro' = IF libro[n] = {} THEN [libro EXCEPT ![n] = {leido[a].colillas}] ELSE libro
    /\ Sigue(a, "libre")
    /\ UNCHANGED <<ded, corrida, cortes>>

-----------------------------------------------------------------------------
(* The deductions *)

\* createDeduction
Registrar(d) ==
    /\ ded[d].estado = "no"
    /\ ded' = [ded EXCEPT ![d].estado = "pending"]
    /\ UNCHANGED <<corrida, libro, pc, leido, cortes>>

\* approveDeduction and rejectDeduction read...
Decidir(a, d) ==
    /\ ded[d].estado = "pending"
    /\ Cruces \/ \A v \in Anuladores : ConsumoDe[v] = d => pc[v] \in {"libre", "fin"}
    /\ \E paso \in PasosDeduccion : Toma(a, paso, d) /\ Va(a, paso)
    /\ UNCHANGED <<ded, corrida, libro, cortes>>

\* ... and save the document, whatever it has become.
Decidida(a) ==
    LET d == leido[a].obj IN
    /\ pc[a] \in PasosDeduccion
    /\ ded' = [ded EXCEPT ![d].estado = IF pc[a] = "aprobar" THEN "approved" ELSE "rejected"]
    /\ Sigue(a, "libre")
    /\ UNCHANGED <<corrida, libro, cortes>>

\* cancelSaleDeduction: one that was applied is refused...
MirarAplicada(v) ==
    LET d == ConsumoDe[v] IN
    /\ pc[v] = "libre" /\ ded[d].estado # "no" /\ (Cruces \/ ~Ocupada(d))
    /\ ded[d].estado # "applied" /\ Va(v, "cancelar")
    /\ UNCHANGED <<ded, corrida, libro, leido, cortes>>

\* ... one that is pending or approved is cancelled...
Cancelar(v) ==
    LET d == ConsumoDe[v] IN
    /\ pc[v] = "cancelar"
    /\ ded' = IF ded[d].estado \in {"pending", "approved"}
              THEN [ded EXCEPT ![d].estado = "cancelled"] ELSE ded
    /\ Va(v, "mirarOtra")
    /\ UNCHANGED <<corrida, libro, leido, cortes>>

\* Mutant: the deduction is not looked at again.
MirarOtraNunca(v) ==
    /\ pc[v] = "mirarOtra" /\ Va(v, "sigue")
    /\ UNCHANGED <<ded, corrida, libro, leido, cortes>>

\* ... and one a run applied in between refuses the void.
MirarOtra(v) ==
    /\ pc[v] = "mirarOtra"
    /\ Va(v, IF ded[ConsumoDe[v]].estado = "applied" THEN "libre" ELSE "sigue")
    /\ UNCHANGED <<ded, corrida, libro, leido, cortes>>

\* The rest of the void goes through, or it aborts and restoreSaleDeduction
\* leaves the deduction pending.
Anulada(v) ==
    LET d == ConsumoDe[v] IN
    /\ pc[v] = "sigue"
    /\ \/ Va(v, "fin") /\ UNCHANGED ded
       \/ /\ ded' = IF ded[d].estado = "cancelled"
                    THEN [ded EXCEPT ![d].estado = "pending"] ELSE ded
          /\ Va(v, "libre")
    /\ UNCHANGED <<corrida, libro, leido, cortes>>

-----------------------------------------------------------------------------
Corte(a) ==
    /\ pc[a] \in Cortan /\ cortes < MaxCortes
    /\ cortes' = cortes + 1 /\ Sigue(a, "libre")
    /\ UNCHANGED <<ded, corrida, libro>>

Corre(a) ==
    \/ Insertar(a) \/ Aplicar(a) \/ SoltarTodas(a) \/ MirarSaldo(a) \/ AnularSaldo(a)
    \/ Soltar(a) \/ Construir(a) \/ Guardar(a) \/ Borrar(a) \/ Cuadrar(a) \/ Arrastrar(a)
    \/ Cerrar(a) \/ Asentar(a) \/ Decidida(a)

Next ==
    \/ \E a \in Admins, n \in Corridas : Crear(a, n) \/ Tomar(a, n) \/ Cerrando(a, n)
    \/ \E a \in Admins, d \in Consumos : Decidir(a, d)
    \/ \E a \in Admins : Corre(a) \/ Corte(a)
    \/ \E d \in Consumos : Registrar(d)
    \/ \E v \in Anuladores : MirarAplicada(v) \/ Cancelar(v) \/ MirarOtra(v) \/ Anulada(v)

Spec == Init /\ [][Next]_vars

-----------------------------------------------------------------------------
(* Properties *)

Cerradas == {n \in Corridas : corrida[n].estado = "cerrada"}

\* "The consumptions the slips discount must be `applied` to THIS run"
\* (closeRun): it compares counts and sums; with recalculations that died half
\* way, releases and voids, what is tied to a closed run is what it discounted.  The
\* sums tell the deductions apart only when no two of them can stand for each other.
CerradaCuadra == \A n \in Cerradas : AplicadasA(n) = corrida[n].colillas

\* No deduction is discounted in two closed runs, with two runs computed at once.
NoSeDescuentaDosVeces ==
    \A n, k \in Cerradas : n # k => corrida[n].colillas \cap corrida[k].colillas = {}

\* A sale that ended voided is not discounted from the employee, whenever the
\* run took its deduction.
AnuladaNoSeDescuenta ==
    \A v \in Anuladores : pc[v] = "fin" =>
        /\ ded[ConsumoDe[v]].estado \in {"cancelled", "rejected"}
        /\ \A n \in Cerradas : ConsumoDe[v] \notin corrida[n].colillas

\* A closed run with a negative net left exactly one balance, of that amount;
\* no other run left one, however many closes failed and recalculations followed.
SaldoSeArrastra ==
    \A n \in Cerradas :
        IF Neto(corrida[n].colillas) < 0
        THEN ded[n].estado \in {"approved", "applied"} /\ ded[n].monto = -Neto(corrida[n].colillas)
        ELSE ded[n].estado = "no"

\* The entry of a run says what its slips say.
LibroSegunColillas ==
    \A n \in Corridas : libro[n] # {} =>
        corrida[n].estado = "cerrada" /\ libro[n] = {corrida[n].colillas}

=============================================================================
