----------------------------- MODULE CierreAnual -----------------------------
(*****************************************************************************)
(* The annual closing of the ledger (cierre-anual.service): the result of a  *)
(* year goes to 3605 with an entry of its last day, and from there to 3705   *)
(* with one of the first day of the next; reopening reverses both, the       *)
(* second first.  An entry is unique by its origin while it is not marked as *)
(* reversed, and a reversal is two writes.  Every await is a step; a request *)
(* that fails, or whose process is lost, leaves what it had done.            *)
(*****************************************************************************)
EXTENDS Integers, Functions

CONSTANTS
    UltimoAnio,     \* the years that have ended are 1..UltimoAnio
    Cerradores, Reaperturas,
    Cruces,         \* may a reopening, or an entry of an earlier year, cross a closing
    MaxMovido,      \* bound: what the entries of a year add to its result
    MaxAsientos,    \* bound: closings and transfers of each year
    MaxCortes

VARIABLES
    movido,     \* result of the entries of each year, pesos
    tarde,      \* part of it that arrived when a later year was closed, or closing
    asiento,    \* the last closing and the last transfer of each year
    pc, leido,  \* the next await of each request, and what it has in memory
    cortes

vars == <<movido, tarde, asiento, pc, leido, cortes>>

Anios == 1..UltimoAnio
Tipos == {"cierre", "traslado"}
Actores == Cerradores \cup Reaperturas

\* What is asked of the years and the bounds.
Supuestos ==
    /\ Cerradores \cap Reaperturas = {}
    /\ UltimoAnio \in Nat \ {0} /\ MaxMovido \in Nat /\ MaxAsientos \in Nat /\ MaxCortes \in Nat

TypeOK ==
    /\ movido \in [Anios -> 0..MaxMovido] /\ tarde \in [Anios -> 0..MaxMovido]
    /\ asiento \in [Tipos -> [Anios ->
            [id : 0..MaxAsientos, vivo : BOOLEAN, contra : BOOLEAN, valor : Nat]]]
    /\ pc \in [Actores -> {"libre", "pendientes", "armar", "postear", "mirarTraslado",
                           "trasladar", "siguiente", "buscar", "contra", "marcar"}]
    /\ leido \in [Actores ->
            [anio : Anios, valor : Nat, tipo : Tipos, id : [Tipos -> 0..MaxAsientos]]]
    /\ cortes \in 0..MaxCortes

Init ==
    /\ movido = [y \in Anios |-> 0] /\ tarde = [y \in Anios |-> 0]
    /\ asiento = [t \in Tipos |-> [y \in Anios |->
            [id |-> 0, vivo |-> FALSE, contra |-> FALSE, valor |-> 0]]]
    /\ pc = [a \in Actores |-> "libre"]
    /\ leido = [a \in Actores |->
            [anio |-> 1, valor |-> 0, tipo |-> "cierre", id |-> [t \in Tipos |-> 0]]]
    /\ cortes = 0

-----------------------------------------------------------------------------
Va(a, paso) == pc' = [pc EXCEPT ![a] = paso]
Anio(a) == leido[a].anio
Trabajan(A) == \E a \in A : pc[a] # "libre"

\* findBySource: the entry not marked as reversed, if there is one.
Vivo(t, y) == asiento[t][y].vivo
\* What it says in the ledger: its counter-entry cancels it, marked or not.
Efecto(t, y) == IF Vivo(t, y) /\ ~asiento[t][y].contra THEN asiento[t][y].valor ELSE 0

\* saldosDeResultado: what is left in the accounts of result up to a year.
Saldo(y) == SumFunctionOnSet([z \in 1..y |-> movido[z] - Efecto("cierre", z)], 1..y)

\* An automatic entry is posted with the date of a year that has ended, closed or not.
Mover(y) ==
    LET cerrando == \E c \in Cerradores : pc[c] \in {"armar", "postear"} /\ Anio(c) > y
    IN
    /\ movido[y] < MaxMovido
    /\ Cruces \/ ~ \E c \in Cerradores : pc[c] = "armar" /\ Anio(c) > y
    /\ movido' = [movido EXCEPT ![y] = @ + 1]
    /\ tarde' = IF cerrando \/ \E z \in Anios : z > y /\ Vivo("cierre", z)
                THEN [tarde EXCEPT ![y] = @ + 1] ELSE tarde
    /\ UNCHANGED <<asiento, pc, leido, cortes>>

-----------------------------------------------------------------------------
(* cerrar *)

\* A year with a closing is only missing, perhaps, its transfer.
Cerrar(c, y) ==
    /\ pc[c] = "libre"
    /\ Cruces \/ ~Trabajan(Reaperturas)
    /\ leido' = [leido EXCEPT ![c].anio = y, ![c].valor = asiento["cierre"][y].valor]
    /\ Va(c, IF Vivo("cierre", y) THEN "mirarTraslado" ELSE "pendientes")
    /\ UNCHANGED <<movido, tarde, asiento, cortes>>

\* Mutant: a year is closed whatever the years before it have left.
PendientesDeNadie(y) == FALSE

\* The years before have a balance of results.
HayPendientes(y) == Saldo(y - 1) # 0

Pendientes(c) ==
    /\ pc[c] = "pendientes"
    /\ Va(c, IF HayPendientes(Anio(c)) THEN "libre" ELSE "armar")
    /\ UNCHANGED <<movido, tarde, asiento, leido, cortes>>

\* armarCierre: the whole balance up to the year goes to 3605.
Armar(c) ==
    /\ pc[c] = "armar"
    /\ leido' = [leido EXCEPT ![c].valor = Saldo(Anio(c))]
    /\ Va(c, IF Saldo(Anio(c)) = 0 THEN "libre" ELSE "postear")
    /\ UNCHANGED <<movido, tarde, asiento, cortes>>

\* post: a second live entry of one origin is refused, and the one there is is the answer.
Crea(t, y, valor) ==
    IF Vivo(t, y) THEN asiento
    ELSE [asiento EXCEPT ![t][y] =
            [id |-> @.id + 1, vivo |-> TRUE, contra |-> FALSE, valor |-> valor]]

Postear(c) ==
    LET y == Anio(c) IN
    /\ pc[c] = "postear" /\ asiento["cierre"][y].id < MaxAsientos
    /\ asiento' = Crea("cierre", y, leido[c].valor)
    /\ leido' = [leido EXCEPT ![c].valor = asiento'["cierre"][y].valor]
    /\ Va(c, "mirarTraslado")
    /\ UNCHANGED <<movido, tarde, cortes>>

MirarTraslado(c) ==
    /\ pc[c] = "mirarTraslado"
    /\ Va(c, IF Vivo("traslado", Anio(c)) THEN "libre" ELSE "trasladar")
    /\ UNCHANGED <<movido, tarde, asiento, leido, cortes>>

\* armarTraslado takes the lines of 3605 of the closing it was given.
Trasladar(c) ==
    /\ pc[c] = "trasladar" /\ asiento["traslado"][Anio(c)].id < MaxAsientos
    /\ asiento' = Crea("traslado", Anio(c), leido[c].valor)
    /\ Va(c, "libre")
    /\ UNCHANGED <<movido, tarde, leido, cortes>>

-----------------------------------------------------------------------------
(* reabrir *)

Reabrir(r, y) ==
    /\ pc[r] = "libre" /\ Vivo("cierre", y)
    /\ Cruces \/ ~Trabajan(Cerradores)
    /\ leido' = [leido EXCEPT ![r] =
            [anio |-> y, valor |-> 0, tipo |-> "cierre", id |-> [t \in Tipos |->
                IF t = "cierre" THEN asiento[t][y].id ELSE 0]]]
    /\ Va(r, "siguiente")
    /\ UNCHANGED <<movido, tarde, asiento, cortes>>

\* Mutant: a year is reopened though the next is closed.
SiguienteDeNadie(y) == FALSE

\* anioCerrado of the next year.
SiguienteCerrado(y) == y + 1 \in Anios /\ Vivo("cierre", y + 1)

Siguiente(r) ==
    /\ pc[r] = "siguiente"
    /\ Va(r, IF SiguienteCerrado(Anio(r)) THEN "libre" ELSE "buscar")
    /\ UNCHANGED <<movido, tarde, asiento, leido, cortes>>

\* Mutant: the closing is reversed first.
BuscarAlReves(r) ==
    /\ pc[r] = "buscar"
    /\ Va(r, "contra")
    /\ UNCHANGED <<movido, tarde, asiento, leido, cortes>>

\* The transfer goes first, if there is one.
Buscar(r) ==
    /\ pc[r] = "buscar"
    /\ leido' = IF Vivo("traslado", Anio(r))
                THEN [leido EXCEPT ![r].tipo = "traslado",
                                   ![r].id["traslado"] = asiento["traslado"][Anio(r)].id]
                ELSE leido
    /\ Va(r, "contra")
    /\ UNCHANGED <<movido, tarde, asiento, cortes>>

Marcado(t, y) ==
    [asiento EXCEPT ![t][y] = [@ EXCEPT !.vivo = FALSE, !.contra = FALSE, !.valor = 0]]

\* reverse: an entry reversed already ends the request, once its mark is mended.
Contra(r) ==
    LET t == leido[r].tipo
        y == Anio(r)
        es == asiento[t][y].id = leido[r].id[t] /\ Vivo(t, y)
    IN
    /\ pc[r] = "contra"
    /\ CASE ~es -> Va(r, "libre") /\ UNCHANGED asiento
         [] es /\ asiento[t][y].contra -> Va(r, "libre") /\ asiento' = Marcado(t, y)
         [] OTHER -> Va(r, "marcar") /\ asiento' = [asiento EXCEPT ![t][y].contra = TRUE]
    /\ UNCHANGED <<movido, tarde, leido, cortes>>

Marcar(r) ==
    LET t == leido[r].tipo
        y == Anio(r)
    IN
    /\ pc[r] = "marcar"
    /\ asiento' = IF asiento[t][y].id = leido[r].id[t] THEN Marcado(t, y) ELSE asiento
    /\ leido' = [leido EXCEPT ![r].tipo = "cierre"]
    /\ Va(r, IF t = "traslado" THEN "contra" ELSE "libre")
    /\ UNCHANGED <<movido, tarde, cortes>>

Corte(a) ==
    /\ pc[a] # "libre" /\ cortes < MaxCortes /\ cortes' = cortes + 1
    /\ Va(a, "libre")
    /\ UNCHANGED <<movido, tarde, asiento, leido>>

Next ==
    \/ \E y \in Anios : Mover(y)
    \/ \E c \in Cerradores, y \in Anios : Cerrar(c, y)
    \/ \E c \in Cerradores : Pendientes(c) \/ Armar(c) \/ Postear(c) \/ MirarTraslado(c) \/ Trasladar(c)
    \/ \E r \in Reaperturas, y \in Anios : Reabrir(r, y)
    \/ \E r \in Reaperturas : Siguiente(r) \/ Buscar(r) \/ Contra(r) \/ Marcar(r)
    \/ \E a \in Actores : Corte(a)

Spec == Init /\ [][Next]_vars

-----------------------------------------------------------------------------
\* A closing takes the result of its own year, once; and while a year is closed
\* the one before keeps nothing in results but what arrived later (the order that
\* cerrar and reabrir ask for).
CadaAnioLoSuyo ==
    \A y \in Anios :
        /\ Efecto("cierre", y) <= movido[y]
        /\ y > 1 /\ Vivo("cierre", y) =>
               movido[y - 1] - Efecto("cierre", y - 1) <= tarde[y - 1]

\* What was carried to 3705 is what the closing of that year took, and nothing stays
\* there of a year that is open: reopening halfway, closing again and two
\* requests at once included.  When nobody is at work and nothing failed, a closed
\* year has its transfer.
TrasladoSegunCierre ==
    \A y \in Anios :
        /\ Efecto("traslado", y) # 0 =>
               Vivo("cierre", y) /\ asiento["cierre"][y].valor = asiento["traslado"][y].valor
        /\ ~Trabajan(Actores) /\ cortes = 0 =>
               Efecto("traslado", y) = Efecto("cierre", y)
=============================================================================
