-------------------------------- MODULE Libro --------------------------------
(*****************************************************************************)
(* The general ledger seen from the expenses (core-ledger, finance.service): *)
(* an entry is never edited, so that a change of an expense reverses its     *)
(* entry and posts another.  A reversal is two writes, the counter-entry and *)
(* the mark on the original; posting and reversing are best effort, and what *)
(* fails is left as a pending reconciliation that a script works off.        *)
(*                                                                           *)
(* Two unique indexes guard the entries: one live original of each source    *)
(* (not marked as reversed), and one counter-entry of each original.  Every  *)
(* await is a step of its own, but for a failure and the note of it, and the *)
(* readings of the script.  An expense is paid through the bank and worth    *)
(* more than zero.                                                           *)
(*****************************************************************************)
EXTENDS Integers, Sequences

CONSTANTS
    Gastos,         \* the expenses
    Peticiones,     \* requests that create, edit or delete expenses, or reverse by hand
    Scripts,        \* runs of the reconstruction of entries
    Nadie,
    FallaPeticion,  \* steps that may fail in a request
    FallaScript,    \* and in a run of the script
    Cortan,         \* steps where the process may be killed
    MaxVersion,     \* bound on the editions of an expense
    MaxAMano,       \* bound on the entries there are when one is reversed by hand
    MaxFallas, MaxCortes

VARIABLES
    gasto,      \* the expenses; `version` stands for what enters the entry
    asientos,   \* the journal, in order; an entry is never edited
    marcados,   \* the originals with reversedBy, the one pointer that is set later
    banco,      \* the version the movement in the bank account says, or 0
    pend,       \* the operations each expense has open to reconcile
    pc,         \* the next await of each actor
    leido,      \* what each actor read and goes on with
    alDia,      \* the last to work on the expense worked alone and to the end
    fallas, cortes

vars == <<gasto, asientos, marcados, banco, pend, pc, leido, alDia, fallas, cortes>>

Actores == Peticiones \cup Scripts
Ops == {"crear", "editar", "borrar", "mano", "rehacer", "reponer", "retirar", "mirar"}
PasosReversa == {"mirar", "tomar", "contra", "marcar", "reparar"}
PasosPosteo == {"buscar", "postear"}
PasosBanco == {"quitar", "mover"}
Pasos == {"guardar", "borrar", "resolver"} \cup PasosReversa \cup PasosPosteo \cup PasosBanco

SinLeer == [op |-> "mirar", g |-> Nadie, version |-> 0, asiento |-> 0, existe |-> FALSE,
    pend |-> {}]

Apuntes == [de : Gastos, dice : Nat, reversa : Nat]
Asientos == 1..Len(asientos)
\* reversalOf: an entry is an original, or names the one it cancels.
Original(i) == asientos[i].reversa = 0
Vivos(g) == {i \in Asientos : asientos[i].de = g /\ Original(i) /\ i \notin marcados}
TieneContra(i) == \E j \in Asientos : asientos[j].reversa = i

TypeOK ==
    /\ gasto \in [Gastos -> [estado : {"no", "vivo", "borrado"}, version : Nat]]
    /\ asientos \in Seq(Apuntes)
    /\ marcados \subseteq Nat
    /\ banco \in [Gastos -> Nat]
    /\ pend \in [Gastos -> SUBSET {"post", "reverse"}]
    /\ pc \in [Actores -> {"libre"} \cup Pasos]
    /\ leido \in [Actores -> [op : Ops, g : Gastos \cup {Nadie}, version : Nat, asiento : Nat,
                              existe : BOOLEAN, pend : SUBSET {"post", "reverse"}]]
    /\ alDia \in [Gastos -> BOOLEAN]
    /\ fallas \in Nat /\ cortes \in Nat

Init ==
    /\ gasto = [g \in Gastos |-> [estado |-> "no", version |-> 0]]
    /\ asientos = <<>>
    /\ marcados = {}
    /\ banco = [g \in Gastos |-> 0]
    /\ pend = [g \in Gastos |-> {}]
    /\ pc = [a \in Actores |-> "libre"]
    /\ leido = [a \in Actores |-> SinLeer]
    /\ alDia = [g \in Gastos |-> TRUE]
    /\ fallas = 0 /\ cortes = 0

-----------------------------------------------------------------------------
Va(a, paso) == pc' = [pc EXCEPT ![a] = paso]

\* The actor goes on with what it read, or answers and forgets it.
Sigue(a, paso) ==
    /\ Va(a, paso)
    /\ leido' = IF paso = "libre" THEN [leido EXCEPT ![a] = SinLeer] ELSE leido

Lectura(op, g, version, i) ==
    [op |-> op, g |-> g, version |-> version, asiento |-> i,
     existe |-> gasto[g].estado = "vivo", pend |-> pend[g]]

Ocupado(g) == \E b \in Actores : pc[b] # "libre" /\ leido[b].g = g

\* Alone on the expense, `loSera` says whether its work leaves the ledger up to
\* date; beside another, nobody does.
Empieza(a, op, g, paso, loSera) ==
    /\ pc[a] = "libre"
    /\ Va(a, paso)
    /\ leido' = [leido EXCEPT ![a] = Lectura(op, g, 1, 0)]
    /\ alDia' = [alDia EXCEPT ![g] = ~Ocupado(g) /\ loSera]

\* After the reversal of its entry: the edition posts again, the deletion drops
\* the movement and the script looks at what it mended.
TrasReversar(a) ==
    Sigue(a, CASE leido[a].op \in {"editar", "rehacer"} -> "buscar"
               [] leido[a].op = "borrar" -> "quitar"
               [] leido[a].op = "retirar" -> "resolver"
               [] OTHER -> "libre")

TrasPostear(a) ==
    Sigue(a, CASE leido[a].op = "crear" -> "mover"
               [] leido[a].op = "editar" -> "quitar"
               [] OTHER -> "resolver")

-----------------------------------------------------------------------------
(* createExpense, updateExpense, deleteExpense *)

\* The insert of the expense.
Crear(a, g) ==
    /\ gasto[g].estado = "no"
    /\ Empieza(a, "crear", g, "buscar", TRUE)
    /\ gasto' = [gasto EXCEPT ![g] = [estado |-> "vivo", version |-> 1]]
    /\ UNCHANGED <<asientos, marcados, banco, pend, fallas, cortes>>

Editar(a, g) ==
    /\ gasto[g].estado = "vivo" /\ gasto[g].version < MaxVersion
    /\ Empieza(a, "editar", g, "guardar", TRUE)
    /\ UNCHANGED <<gasto, asientos, marcados, banco, pend, fallas, cortes>>

\* Mutant: the new entry is posted before the old one is reversed.
TrasGuardarPostea(a) == Va(a, "buscar")

\* Where the saved edition goes on: first the reversal.
TrasGuardar(a) == Va(a, "mirar")

\* The save of a document that another request deleted fails.
Guardar(a) ==
    LET g == leido[a].g IN
    /\ pc[a] = "guardar"
    /\ IF gasto[g].estado = "vivo"
       THEN /\ gasto' = [gasto EXCEPT ![g].version = @ + 1]
            /\ leido' = [leido EXCEPT ![a].version = gasto[g].version + 1]
            /\ TrasGuardar(a)
       ELSE Sigue(a, "libre") /\ UNCHANGED gasto
    /\ UNCHANGED <<asientos, marcados, banco, pend, alDia, fallas, cortes>>

Borrar(a, g) ==
    /\ gasto[g].estado = "vivo"
    /\ Empieza(a, "borrar", g, "borrar", TRUE)
    /\ UNCHANGED <<gasto, asientos, marcados, banco, pend, fallas, cortes>>

Borrado(a) ==
    /\ pc[a] = "borrar"
    /\ gasto' = [gasto EXCEPT ![leido[a].g].estado = "borrado"]
    /\ Sigue(a, "mirar")
    /\ UNCHANGED <<asientos, marcados, banco, pend, alDia, fallas, cortes>>

\* The movement in the bank account is removed, and made again if there is none.
Quitar(a) ==
    /\ pc[a] = "quitar"
    /\ banco' = [banco EXCEPT ![leido[a].g] = 0]
    /\ Sigue(a, IF leido[a].op = "borrar" THEN "libre" ELSE "mover")
    /\ UNCHANGED <<gasto, asientos, marcados, pend, alDia, fallas, cortes>>

Mover(a) ==
    LET g == leido[a].g IN
    /\ pc[a] = "mover"
    /\ banco' = IF banco[g] = 0 THEN [banco EXCEPT ![g] = leido[a].version] ELSE banco
    /\ Sigue(a, "libre")
    /\ UNCHANGED <<gasto, asientos, marcados, pend, alDia, fallas, cortes>>

-----------------------------------------------------------------------------
(* safePost and post *)

Buscar(a) ==
    /\ pc[a] = "buscar"
    /\ IF Vivos(leido[a].g) # {} THEN TrasPostear(a) ELSE Sigue(a, "postear")
    /\ UNCHANGED <<gasto, asientos, marcados, banco, pend, alDia, fallas, cortes>>

Anotar(g, dice, i) ==
    asientos' = Append(asientos, [de |-> g, dice |-> dice, reversa |-> i])

\* Mutant: without the unique index of the live source.
PostearSinIndice(a) ==
    /\ pc[a] = "postear"
    /\ Anotar(leido[a].g, leido[a].version, 0)
    /\ TrasPostear(a)
    /\ UNCHANGED <<gasto, marcados, banco, pend, alDia, fallas, cortes>>

\* The index refuses a second live entry, and the one there is is answered.
Postear(a) ==
    /\ pc[a] = "postear"
    /\ IF Vivos(leido[a].g) # {} THEN UNCHANGED asientos
       ELSE Anotar(leido[a].g, leido[a].version, 0)
    /\ TrasPostear(a)
    /\ UNCHANGED <<gasto, marcados, banco, pend, alDia, fallas, cortes>>

-----------------------------------------------------------------------------
(* safeReverse, reverseBySource and reverse *)

Mirar(a) ==
    /\ pc[a] = "mirar"
    /\ IF Vivos(leido[a].g) = {} THEN TrasReversar(a)
       ELSE /\ \E i \in Vivos(leido[a].g) : leido' = [leido EXCEPT ![a].asiento = i]
            /\ Va(a, "tomar")
    /\ UNCHANGED <<gasto, asientos, marcados, banco, pend, alDia, fallas, cortes>>

\* An original reversed from the ledger, by hand.
AMano(a, i) ==
    /\ pc[a] = "libre" /\ i \in Asientos /\ Len(asientos) <= MaxAMano
    /\ Original(i)
    /\ Va(a, "tomar")
    /\ leido' = [leido EXCEPT ![a] = Lectura("mano", asientos[i].de, 0, i)]
    /\ alDia' = [alDia EXCEPT ![asientos[i].de] = FALSE]
    /\ UNCHANGED <<gasto, asientos, marcados, banco, pend, fallas, cortes>>

\* The entry is read again: it may have been reversed meanwhile.
Tomar(a) ==
    /\ pc[a] = "tomar"
    /\ IF leido[a].asiento \in marcados THEN TrasReversar(a) ELSE Sigue(a, "contra")
    /\ UNCHANGED <<gasto, asientos, marcados, banco, pend, alDia, fallas, cortes>>

\* Mutant: without the unique index of the counter-entry.
ContraSinIndice(a) ==
    LET i == leido[a].asiento IN
    /\ pc[a] = "contra"
    /\ Anotar(asientos[i].de, asientos[i].dice, i) /\ Sigue(a, "marcar")
    /\ UNCHANGED <<gasto, marcados, banco, pend, alDia, fallas, cortes>>

\* The counter-entry; the index refuses a second one.
Contra(a) ==
    LET i == leido[a].asiento IN
    /\ pc[a] = "contra"
    /\ IF TieneContra(i)
       THEN Sigue(a, "reparar") /\ UNCHANGED asientos
       ELSE Anotar(asientos[i].de, asientos[i].dice, i) /\ Sigue(a, "marcar")
    /\ UNCHANGED <<gasto, marcados, banco, pend, alDia, fallas, cortes>>

\* The mark on the original, of this reversal or of one that did not put it.
Marcar(a) ==
    /\ pc[a] \in {"marcar", "reparar"}
    /\ marcados' = marcados \cup {leido[a].asiento}
    /\ TrasReversar(a)
    /\ UNCHANGED <<gasto, asientos, banco, pend, alDia, fallas, cortes>>

\* One open row of each expense and operation.
Registra(g, operacion) == pend' = [pend EXCEPT ![g] = @ \cup {operacion}]

\* What fails is left pending, and the operation of the business goes on; by
\* hand, it is answered as an error.
FallaLibro(a) ==
    LET g == leido[a].g IN
    /\ pc[a] \in PasosReversa \cup PasosPosteo
    /\ pc[a] \in IF a \in Scripts THEN FallaScript ELSE FallaPeticion
    /\ fallas < MaxFallas /\ fallas' = fallas + 1
    /\ IF leido[a].op = "mano" THEN UNCHANGED pend
       ELSE Registra(g, IF pc[a] \in PasosPosteo THEN "post" ELSE "reverse")
    /\ IF pc[a] \in PasosPosteo THEN TrasPostear(a) ELSE TrasReversar(a)
    /\ UNCHANGED <<gasto, asientos, marcados, banco, alDia, cortes>>

\* A failure of the treasury is only logged.
FallaBanco(a) ==
    /\ pc[a] \in PasosBanco \cap FallaPeticion
    /\ fallas < MaxFallas /\ fallas' = fallas + 1
    /\ alDia' = [alDia EXCEPT ![leido[a].g] = FALSE]
    /\ Sigue(a, IF pc[a] = "quitar" /\ leido[a].op = "editar" THEN "mover" ELSE "libre")
    /\ UNCHANGED <<gasto, asientos, marcados, banco, pend, cortes>>

-----------------------------------------------------------------------------
(* reconstruirAsientos *)

\* What the script makes of an expense, from what it read.
Remedio(g) ==
    LET vivo == Vivos(g) # {}
        existe == gasto[g].estado = "vivo"
        registrado == \E i \in Asientos : asientos[i].de = g /\ Original(i)
    IN CASE existe /\ vivo /\ "reverse" \in pend[g] -> "rehacer"
         [] existe /\ ~vivo /\ (registrado => "post" \in pend[g]) -> "reponer"
         [] ~existe /\ vivo -> "retirar"
         [] OTHER -> "mirar"

\* What was up to date stays so.
Reconstruir(s, g) ==
    LET op == Remedio(g) IN
    /\ gasto[g].estado # "no"
    /\ pc[s] = "libre"
    /\ Va(s, CASE op = "reponer" -> "buscar" [] op = "mirar" -> "resolver" [] OTHER -> "mirar")
    /\ leido' = [leido EXCEPT ![s] = Lectura(op, g, gasto[g].version, 0)]
    /\ alDia' = [alDia EXCEPT ![g] = @ /\ ~Ocupado(g)]
    /\ UNCHANGED <<gasto, asientos, marcados, banco, pend, fallas, cortes>>

\* Mutant: the script takes every pending operation it read for mended.
ResolverTodo(s) ==
    LET g == leido[s].g IN
    /\ pc[s] = "resolver"
    /\ pend' = [pend EXCEPT ![g] = @ \ leido[s].pend]
    /\ Sigue(s, "libre")
    /\ UNCHANGED <<gasto, asientos, marcados, banco, alDia, fallas, cortes>>

\* A posting is mended when its entry lives; a reversal, when it lives if and
\* only if the expense was there.
Resolver(s) ==
    LET g == leido[s].g
        vivo == Vivos(g) # {}
        bien == {p \in leido[s].pend : IF p = "post" THEN vivo ELSE vivo = leido[s].existe}
    IN
    /\ pc[s] = "resolver"
    /\ pend' = [pend EXCEPT ![g] = @ \ bien]
    /\ Sigue(s, "libre")
    /\ UNCHANGED <<gasto, asientos, marcados, banco, alDia, fallas, cortes>>

-----------------------------------------------------------------------------
\* The process is killed: nothing of what was left is noted.
Corte(a) ==
    /\ pc[a] \in Cortan /\ cortes < MaxCortes /\ cortes' = cortes + 1
    /\ alDia' = [alDia EXCEPT ![leido[a].g] = FALSE]
    /\ Sigue(a, "libre")
    /\ UNCHANGED <<gasto, asientos, marcados, banco, pend, fallas>>

Next ==
    \/ \E a \in Peticiones, g \in Gastos : Crear(a, g) \/ Editar(a, g) \/ Borrar(a, g)
    \/ \E a \in Peticiones : Guardar(a) \/ Borrado(a) \/ Quitar(a) \/ Mover(a) \/ FallaBanco(a)
    \/ \E a \in Peticiones, i \in Asientos : AMano(a, i)
    \/ \E a \in Actores : Buscar(a) \/ Postear(a)
    \/ \E a \in Actores : Mirar(a) \/ Tomar(a) \/ Contra(a) \/ Marcar(a)
    \/ \E a \in Actores : FallaLibro(a) \/ Corte(a)
    \/ \E s \in Scripts, g \in Gastos : Reconstruir(s, g)
    \/ \E s \in Scripts : Resolver(s)

Spec == Init /\ [][Next]_vars

-----------------------------------------------------------------------------
\* An expense counts once in the ledger whoever races, fails or is killed: at most
\* one original of each source has no counter-entry, an original has at most one,
\* and the counter-entry says what its original said (the indexes of
\* journal-entry.indices.ts, and the order of the two writes of reverse).
SinCancelar(g) == {i \in Asientos : asientos[i].de = g /\ Original(i) /\ ~TieneContra(i)}
UnSoloEfecto ==
    /\ \A g \in Gastos : \A i, j \in SinCancelar(g) : i = j
    /\ \A i, j \in Asientos : ~Original(i) /\ asientos[i].reversa = asientos[j].reversa => i = j
    /\ \A i \in Asientos : ~Original(i) =>
         LET o == asientos[i].reversa IN
         o < i /\ Original(o) /\ asientos[o].de = asientos[i].de /\ asientos[o].dice = asientos[i].dice

\* The ledger and the bank say of an expense what the expense says.
Corriente(g) ==
    IF gasto[g].estado = "vivo"
    THEN /\ \E i \in SinCancelar(g) : asientos[i].dice = gasto[g].version /\ i \in Vivos(g)
    ELSE SinCancelar(g) = {} /\ Vivos(g) = {}

\* Whoever edits or deletes an expense alone leaves its entry up to date, after any
\* half-done reversal, or leaves a pending reconciliation; and the script closes none
\* that it did not mend (updateExpense, deleteExpense, safePost, safeReverse,
\* reconstruirAsientos).
LibroAlDia ==
    \A g \in Gastos : ~Ocupado(g) /\ alDia[g] =>
        /\ Corriente(g) \/ pend[g] # {}
        /\ banco[g] = IF gasto[g].estado = "vivo" THEN gasto[g].version ELSE 0
=============================================================================
