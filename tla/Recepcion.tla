------------------------------ MODULE Recepcion ------------------------------
(***************************************************************************)
(* The reception of one purchase order (purchasing.service): each line is  *)
(* advanced by a conditional write before its goods enter the stock, then  *)
(* come the payable, the receipt with the status of the order, and the     *)
(* entry.  Nothing is undone: what fails after a line was advanced is left *)
(* for a person.  Every await is a step; a unit costs one peso before tax, *)
(* and every line is of a product.                                         *)
(***************************************************************************)
EXTENDS Integers, Sequences, FiniteSets, Functions

CONSTANTS
    Renglones,      \* the lines of the order
    Pide, Iva,      \* units ordered and tax of each line
    Recepciones,    \* requests that receive
    Trae,           \* what each brings: a sequence of line and units
    Credito,        \* the requests that generate a payable
    Anuladores,     \* requests that cancel the order
    Cruces,         \* may a cancellation cross a reception
    Cortan,         \* steps that may fail, or where the process may be lost
    MaxCortes

VARIABLES
    orden,      \* status of the order, and units received of each line
    bodega,     \* units of each line that entered the stock
    cxp, libro, \* the payable and the entry of each reception, pesos
    recibos,    \* the receptions the order lists
    pc, leido,  \* the next await of each actor, and what it has in memory
    rota,       \* a reception was left halfway
    cortes

vars == <<orden, bodega, cxp, libro, recibos, pc, leido, rota, cortes>>

Actores == Recepciones \cup Anuladores

\* What a request is validated for: lines of the order, at least one, of at least a unit.
Supuestos ==
    /\ IsFiniteSet(Renglones) /\ IsFiniteSet(Recepciones)
    /\ Recepciones \cap Anuladores = {} /\ Credito \subseteq Recepciones
    /\ Pide \in [Renglones -> Nat \ {0}] /\ Iva \in [Renglones -> Nat]
    /\ Trae \in [Recepciones -> Seq([renglon : Renglones, cant : Nat \ {0}]) \ {<<>>}]
    /\ MaxCortes \in Nat

TypeOK ==
    /\ orden \in [estado : {"sent", "partial", "received", "cancelled"},
                  recibido : [Renglones -> Nat]]
    /\ bodega \in [Renglones -> Nat]
    /\ cxp \in [Recepciones -> Nat] /\ libro \in [Recepciones -> Nat]
    /\ recibos \subseteq Recepciones
    /\ pc \in [Actores -> {"libre", "renglon", "entrar", "deber", "recibo", "asentar",
                           "anular", "hecho", "fin"}]
    /\ leido \in [Actores -> [recibido : [Renglones -> Nat], estado : {"sent", "partial"},
                              i : Nat, parte : Nat, valor : Nat, iva : Nat]]
    /\ rota \in BOOLEAN
    /\ cortes \in 0..MaxCortes

Nada == [l \in Renglones |-> 0]
SinLeer == [recibido |-> Nada, estado |-> "sent", i |-> 1, parte |-> 0, valor |-> 0, iva |-> 0]

Init ==
    /\ orden = [estado |-> "sent", recibido |-> Nada]
    /\ bodega = Nada
    /\ cxp = [r \in Recepciones |-> 0] /\ libro = [r \in Recepciones |-> 0]
    /\ recibos = {}
    /\ pc = [a \in Actores |-> "libre"]
    /\ leido = [a \in Actores |-> SinLeer]
    /\ rota = FALSE
    /\ cortes = 0

-----------------------------------------------------------------------------
Va(a, paso) == pc' = [pc EXCEPT ![a] = paso]
Recibiendo(r) == pc[r] \notin {"libre", "hecho", "fin"}
Lleva(r) == Trae[r][leido[r].i]

\* The tax of the first n units of a line, rounded to the peso.
ParteIva(l, n) == (2 * Iva[l] * n + Pide[l]) \div (2 * Pide[l])

\* get: the order is read once, and its lines are kept in memory.
Leer(r) ==
    /\ pc[r] = "libre"
    /\ Cruces \/ \A a \in Anuladores : pc[a] # "anular"
    /\ IF orden.estado \in {"received", "cancelled"} THEN Va(r, "fin") /\ UNCHANGED leido
       ELSE /\ leido' = [leido EXCEPT ![r] =
                    [SinLeer EXCEPT !.recibido = orden.recibido, !.estado = orden.estado]]
            /\ Va(r, "renglon")
    /\ UNCHANGED <<orden, bodega, cxp, libro, recibos, rota, cortes>>

\* After its last line a reception that advanced none leaves nothing.
Sigue(r, k, valor) ==
    Va(r, IF k <= Len(Trae[r]) THEN "renglon"
          ELSE IF valor = 0 THEN "fin"
          ELSE IF r \in Credito THEN "deber" ELSE "recibo")

\* The reception stops: what it had advanced is left without payable nor entry.
Rompe(r) ==
    /\ Va(r, "fin")
    /\ rota' = (rota \/ leido[r].valor > 0)

\* Mutant: what was read says that it fits.
CabeLeido(r, l, n) == leido[r].recibido[l] + n <= Pide[l]

\* The condition of the write that advances a line.
Cabe(r, l, n) == orden.recibido[l] + n <= Pide[l]

\* Mutant: the units before this reception, by what was read.
AntesLeido(r, l) == leido[r].recibido[l]

\* The units before this reception, by what the write answered.
Antes(r, l) == orden.recibido[l]

\* More than is pending, by what was read, is an error; what another reception took
\* meanwhile is skipped; the rest is advanced, with the tax that falls on it.
Renglon(r) ==
    LET l == Lleva(r).renglon
        n == Lleva(r).cant
    IN
    /\ pc[r] = "renglon"
    /\ IF leido[r].recibido[l] + n > Pide[l]
       THEN Rompe(r) /\ UNCHANGED <<orden, leido>>
       ELSE /\ UNCHANGED rota
            /\ IF Cabe(r, l, n)
               THEN /\ orden' = [orden EXCEPT !.recibido[l] = @ + n]
                    /\ leido' = [leido EXCEPT ![r].parte =
                            ParteIva(l, Antes(r, l) + n) - ParteIva(l, Antes(r, l))]
                    /\ Va(r, "entrar")
               ELSE /\ leido' = [leido EXCEPT ![r].i = @ + 1]
                    /\ Sigue(r, leido[r].i + 1, leido[r].valor)
                    /\ UNCHANGED orden
    /\ UNCHANGED <<bodega, cxp, libro, recibos, cortes>>

\* stock.entry, and what the reception adds up.
Entrar(r) ==
    LET l == Lleva(r).renglon
        n == Lleva(r).cant
    IN
    /\ pc[r] = "entrar"
    /\ bodega' = [bodega EXCEPT ![l] = @ + n]
    /\ leido' = [leido EXCEPT ![r].recibido[l] = @ + n, ![r].valor = @ + n,
                              ![r].iva = @ + leido[r].parte, ![r].i = @ + 1]
    /\ Sigue(r, leido[r].i + 1, leido[r].valor + n)
    /\ UNCHANGED <<orden, cxp, libro, recibos, rota, cortes>>

Total(r) == leido[r].valor + leido[r].iva

Deber(r) ==
    /\ pc[r] = "deber"
    /\ cxp' = [cxp EXCEPT ![r] = Total(r)]
    /\ Va(r, "recibo")
    /\ UNCHANGED <<orden, bodega, libro, recibos, leido, rota, cortes>>

\* computeStatus, over what this reception has in memory.
Estado(r) ==
    IF \A l \in Renglones : leido[r].recibido[l] >= Pide[l] THEN "received" ELSE "partial"

Recibo(r) ==
    /\ pc[r] = "recibo"
    /\ recibos' = recibos \cup {r}
    /\ orden' = [orden EXCEPT !.estado = Estado(r)]
    /\ Va(r, "asentar")
    /\ UNCHANGED <<bodega, cxp, libro, leido, rota, cortes>>

\* The entry, by the id of this receipt; its failure is left to reconcile, and
\* counts here as posted.
Asentar(r) ==
    /\ pc[r] = "asentar"
    /\ libro' = [libro EXCEPT ![r] = Total(r)]
    /\ Va(r, "hecho")
    /\ UNCHANGED <<orden, bodega, cxp, recibos, leido, rota, cortes>>

\* A call that fails, or a lost process, ends the reception where it is.
Corte(r) ==
    /\ pc[r] \in {"renglon", "entrar", "deber", "recibo", "asentar"} \cap Cortan
    /\ cortes < MaxCortes /\ cortes' = cortes + 1
    /\ Va(r, "fin")
    /\ rota' = (rota \/ leido[r].valor > 0 \/ pc[r] = "entrar")
    /\ UNCHANGED <<orden, bodega, cxp, libro, recibos, leido>>

-----------------------------------------------------------------------------
(* cancel *)

LeerAnular(a) ==
    /\ pc[a] = "libre"
    /\ Cruces \/ ~ \E r \in Recepciones : Recibiendo(r)
    /\ Va(a, IF orden.estado \in {"received", "partial"} THEN "fin" ELSE "anular")
    /\ UNCHANGED <<orden, bodega, cxp, libro, recibos, leido, rota, cortes>>

GuardarAnular(a) ==
    /\ pc[a] = "anular"
    /\ orden' = [orden EXCEPT !.estado = "cancelled"]
    /\ Va(a, "hecho")
    /\ UNCHANGED <<bodega, cxp, libro, recibos, leido, rota, cortes>>

Next ==
    \/ \E r \in Recepciones : Leer(r) \/ Renglon(r) \/ Entrar(r) \/ Deber(r) \/ Recibo(r)
    \/ \E r \in Recepciones : Asentar(r) \/ Corte(r)
    \/ \E a \in Anuladores : LeerAnular(a) \/ GuardarAnular(a)

Spec == Init /\ [][Next]_vars

-----------------------------------------------------------------------------
\* The goods enter once, and what is owed and posted is what came in: never more
\* than was ordered, with the tax of the line to the peso however many receptions share
\* it and cross, and all of it when none was left halfway (receive).
LlegoYSeDebe ==
    LET llego == SumFunctionOnSet(
                    [l \in Renglones |-> orden.recibido[l] + ParteIva(l, orden.recibido[l])], Renglones)
        dice == SumFunctionOnSet(libro, Recepciones)
    IN
    /\ \A l \in Renglones : bodega[l] <= orden.recibido[l] /\ orden.recibido[l] <= Pide[l]
    /\ dice <= llego
    /\ (\A r \in Recepciones : ~Recibiendo(r)) /\ ~rota =>
         /\ bodega = orden.recibido
         /\ dice = llego
         /\ SumFunctionOnSet(cxp, Credito) = SumFunctionOnSet(libro, Credito)

\* An order that says it was received was, in full; and a cancelled one has no goods
\* that a reception completed (computeStatus, cancel).
EstadoNoAdelanta ==
    /\ orden.estado = "received" => \A l \in Renglones : orden.recibido[l] = Pide[l]
    /\ orden.estado = "cancelled" => recibos = {}
=============================================================================
