----------------------------- MODULE Existencias -----------------------------
(****************************************************************************)
(* The stock of two branches by lots (stock.service) and the production     *)
(* orders over it (production.service).  Each operation of the stock is one *)
(* Mongo transaction, and one action: what crosses is what its callers read *)
(* before it.  An order checks its materials, reserves its close with a     *)
(* conditional write and only then consumes, enters its output and is       *)
(* costed.  Quantities are whole units and every product is kept by lots.   *)
(****************************************************************************)
EXTENDS Integers, Sequences, FiniteSetsExt

CONSTANTS
    Productos, Sedes,
    LotesIniciales, \* sequence of lots the behaviour starts with
    CostoFicha,     \* cost of each product in the catalogue
    Sede,           \* the branch of the orders
    Ordenes, Insumo, Terminado, Necesita, Produce, Mano, \* Mano: labour and packaging
    Terminadores, Abridores, Anuladores,
    Ventas, Vende, Traslados, Traslada, Conteos, Cuenta,
    Cruces,         \* may a start or a cancellation cross the close of its order
    Cortan,         \* steps that may fail, or where the process may be lost
    MaxCortes

VARIABLES
    item,       \* units of each product in each branch
    lotes,      \* the lots, in the order in which they were created
    ventas,     \* each sale: whether it is sold or void, and the lots it took
    ordenes,    \* each order: status, and the total it was costed at
    kardex,     \* units that the movements of each order took out and put in
    libro,      \* what the entry of each order adds to the inventory, pesos
    pc, leido,  \* the next await of each actor, and what it has in memory
    rotas,      \* orders whose close stopped after its reservation
    cortes

stock == <<item, lotes, ventas>>
vars == <<stock, ordenes, kardex, libro, pc, leido, rotas, cortes>>

Actores == Terminadores \cup Abridores \cup Anuladores \cup Ventas \cup Traslados \cup Conteos
Abiertas == {"draft", "in_progress"}
SinVencer == 99

\* A count adjusts to what was counted; the other quantities are of something.
Supuestos ==
    /\ LotesIniciales \in Seq([prod : Productos, sede : Sedes, codigo : Nat,
                                vence : 1..SinVencer, qty : Nat, costo : Nat])
    /\ CostoFicha \in [Productos -> Nat] /\ Sede \in Sedes /\ Ordenes # {}
    /\ Insumo \in [Ordenes -> Productos] /\ Terminado \in [Ordenes -> Productos]
    /\ Necesita \in [Ordenes -> Nat \ {0}] /\ Produce \in [Ordenes -> Nat \ {0}]
    /\ Mano \in [Ordenes -> Nat]
    /\ Vende \in [Ventas -> [prod : Productos, sede : Sedes, cant : Nat \ {0}]]
    /\ Traslada \in [Traslados -> [prod : Productos, de : Sedes, a : Sedes, cant : Nat \ {0}]]
    /\ \A t \in Traslados : Traslada[t].de # Traslada[t].a
    /\ Cuenta \in [Conteos -> [prod : Productos, sede : Sedes, contado : Nat]]
    /\ Terminadores \cap (Abridores \cup Anuladores \cup Ventas \cup Traslados \cup Conteos) = {}
    /\ Cruces \in BOOLEAN /\ MaxCortes \in Nat

TypeOK ==
    /\ item \in [Productos -> [Sedes -> Nat]]
    /\ lotes \in Seq([prod : Productos, sede : Sedes, codigo : Nat, vence : 1..SinVencer,
                      qty : Nat, costo : Nat])
    /\ \A v \in Ventas : ventas[v].estado \in {"no", "vendida", "anulada"}
                         /\ ventas[v].toma \in Seq(Nat)
    /\ ordenes \in [Ordenes -> [estado : Abiertas \cup {"done", "cancelled"}, total : Nat]]
    /\ kardex \in [Ordenes -> [sale : Nat, entra : Nat]]
    /\ libro \in [Ordenes -> Int]
    /\ pc \in [Actores -> {"libre", "mirar", "reservar", "consumir", "ingresar", "guardar",
                           "asentar", "ajustar", "abrir", "anular", "fin"}]
    /\ leido \in [Actores -> [orden : Ordenes, n : Int, costo : Nat]]
    /\ rotas \subseteq Ordenes
    /\ cortes \in 0..MaxCortes

\* What there is in some lots, and in those of a product in a branch.
Cuantas(ls, I) == SumFunctionOnSet([i \in DOMAIN ls |-> ls[i].qty], I)
Unidades(ls, p, s) == Cuantas(ls, {i \in DOMAIN ls : ls[i].prod = p /\ ls[i].sede = s})

Init ==
    /\ lotes = LotesIniciales
    /\ item = [p \in Productos |-> [s \in Sedes |-> Unidades(LotesIniciales, p, s)]]
    /\ ventas = [v \in Ventas |-> [estado |-> "no", toma |-> <<>>]]
    /\ ordenes \in [Ordenes -> [estado : Abiertas, total : {0}]]
    /\ kardex = [o \in Ordenes |-> [sale |-> 0, entra |-> 0]]
    /\ libro = [o \in Ordenes |-> 0]
    /\ pc = [a \in Actores |-> "libre"]
    /\ leido \in [Actores -> {[orden |-> CHOOSE o \in Ordenes : TRUE, n |-> 0, costo |-> 0]}]
    /\ rotas = {}
    /\ cortes = 0

Va(a, paso) == pc' = [pc EXCEPT ![a] = paso]
Menor(x, y) == IF x < y THEN x ELSE y
Mayor(x, y) == IF x > y THEN x ELSE y
\* cop: rounded to the peso, halves up.
Redondea(a, b) == (2 * a + b) \div (2 * b)

-----------------------------------------------------------------------------
(* StockService: one transaction each *)

\* sortFefo: what expires first, then what was created first.
Antes(j, i) ==
    \/ lotes[j].vence < lotes[i].vence
    \/ lotes[j].vence = lotes[i].vence /\ j < i

De(p, s) == {i \in DOMAIN lotes : lotes[i].prod = p /\ lotes[i].sede = s}

\* What n units take from each lot.
Toma(p, s, n) ==
    [i \in DOMAIN lotes |->
        IF i \in De(p, s)
        THEN Mayor(0, Menor(lotes[i].qty, n - Cuantas(lotes, {j \in De(p, s) : Antes(j, i)})))
        ELSE 0]

\* The conditional decrement, and lots that cover it; otherwise all of it is undone.
Alcanza(p, s, n) == item[p][s] >= n /\ Unidades(lotes, p, s) >= n

Quita(ls, toma) == [i \in DOMAIN ls |-> [ls[i] EXCEPT !.qty = @ - toma[i]]]
Lote(p, s, c, v, n, costo) ==
    [prod |-> p, sede |-> s, codigo |-> c, vence |-> v, qty |-> n, costo |-> costo]

\* The same lot at the destination, if it was there before.
Mismo(ls, l, s) ==
    {i \in DOMAIN ls : ls[i].prod = l.prod /\ ls[i].sede = s
                       /\ ls[i].codigo = l.codigo /\ ls[i].vence = l.vence}

\* Mutant: the units that reach a lot that was there are its new quantity.
LlegaPisando(ls, l, n, s) ==
    IF Mismo(ls, l, s) # {}
    THEN [ls EXCEPT ![Min(Mismo(ls, l, s))].qty = n]
    ELSE Append(ls, [l EXCEPT !.sede = s, !.qty = n])

\* n units of a lot arrive at a branch, with its code, date and cost.
Llega(ls, l, n, s) ==
    IF Mismo(ls, l, s) # {}
    THEN [ls EXCEPT ![Min(Mismo(ls, l, s))].qty = @ + n]
    ELSE Append(ls, [l EXCEPT !.sede = s, !.qty = n])

\* What came out of each lot arrives at a branch, in the order in which it came out.
Ultimo(I) == CHOOSE i \in I : \A j \in I : j = i \/ Antes(j, i)
Llegan(toma, s) ==
    MapThenFoldSet(LAMBDA i, ls : Llega(ls, lotes[i], toma[i], s), Quita(lotes, toma),
                   LAMBDA i : i, Ultimo, {i \in DOMAIN lotes : toma[i] > 0})

\* transfer
Trasladar(t) ==
    LET m == Traslada[t] IN
    /\ pc[t] = "libre" /\ Va(t, "fin")
    /\ IF Alcanza(m.prod, m.de, m.cant)
       THEN /\ item' = [item EXCEPT ![m.prod][m.de] = @ - m.cant, ![m.prod][m.a] = @ + m.cant]
            /\ lotes' = Llegan(Toma(m.prod, m.de, m.cant), m.a)
       ELSE UNCHANGED <<item, lotes>>
    /\ UNCHANGED <<ventas, ordenes, kardex, libro, leido, rotas, cortes>>

\* sell
Vender(v) ==
    LET m == Vende[v] IN
    /\ pc[v] = "libre" /\ Va(v, "fin")
    /\ IF Alcanza(m.prod, m.sede, m.cant)
       THEN /\ item' = [item EXCEPT ![m.prod][m.sede] = @ - m.cant]
            /\ lotes' = Quita(lotes, Toma(m.prod, m.sede, m.cant))
            /\ ventas' = [ventas EXCEPT ![v] =
                    [estado |-> "vendida", toma |-> Toma(m.prod, m.sede, m.cant)]]
       ELSE UNCHANGED stock
    /\ UNCHANGED <<ordenes, kardex, libro, leido, rotas, cortes>>

\* Mutant: the units go back without their lots.
DevuelveSinLotes(ls, toma) == ls

\* The lots that were consumed, by their id.
Devuelve(ls, toma) ==
    [i \in DOMAIN ls |-> IF i \in DOMAIN toma THEN [ls[i] EXCEPT !.qty = @ + toma[i]] ELSE ls[i]]

\* reverseSale
AnularVenta(v) ==
    LET m == Vende[v] IN
    /\ ventas[v].estado = "vendida"
    /\ item' = [item EXCEPT ![m.prod][m.sede] = @ + m.cant]
    /\ lotes' = Devuelve(lotes, ventas[v].toma)
    /\ ventas' = [ventas EXCEPT ![v].estado = "anulada"]
    /\ UNCHANGED <<ordenes, kardex, libro, pc, leido, rotas, cortes>>

\* applyCount reads what there is, and adjusts the difference later.
Contar(c) ==
    LET m == Cuenta[c] IN
    /\ pc[c] = "libre"
    /\ leido' = [leido EXCEPT ![c].n = m.contado - item[m.prod][m.sede]]
    /\ Va(c, IF m.contado = item[m.prod][m.sede] THEN "fin" ELSE "ajustar")
    /\ UNCHANGED <<stock, ordenes, kardex, libro, rotas, cortes>>

\* adjust: what is over is a lot of its own, what is missing comes out by FEFO.
Ajustar(c) ==
    LET m == Cuenta[c]
        n == leido[c].n
    IN
    /\ pc[c] = "ajustar" /\ Va(c, "fin")
    /\ \/ /\ n > 0
          /\ item' = [item EXCEPT ![m.prod][m.sede] = @ + n]
          /\ lotes' = Append(lotes, Lote(m.prod, m.sede, Len(lotes) + 1, SinVencer, n,
                                         CostoFicha[m.prod]))
       \/ /\ n < 0 /\ Alcanza(m.prod, m.sede, -n)
          /\ item' = [item EXCEPT ![m.prod][m.sede] = @ + n]
          /\ lotes' = Quita(lotes, Toma(m.prod, m.sede, -n))
       \/ n < 0 /\ ~Alcanza(m.prod, m.sede, -n) /\ UNCHANGED <<item, lotes>>
    /\ UNCHANGED <<ventas, ordenes, kardex, libro, leido, rotas, cortes>>

-----------------------------------------------------------------------------
(* ProductionService.complete *)

Cerrando(o) == \E t \in Terminadores : pc[t] \notin {"libre", "fin"} /\ leido[t].orden = o
Moviendo(o) == \E a \in Abridores \cup Anuladores : pc[a] \in {"abrir", "anular"} /\ leido[a].orden = o

Leer(t, o) ==
    /\ pc[t] = "libre"
    /\ Cruces \/ ~Moviendo(o)
    /\ leido' = [leido EXCEPT ![t].orden = o]
    /\ Va(t, IF ordenes[o].estado \in Abiertas THEN "mirar" ELSE "fin")
    /\ UNCHANGED <<stock, ordenes, kardex, libro, rotas, cortes>>

\* assertMaterialsAvailable: nothing is touched when there is not enough.
Mirar(t) ==
    LET o == leido[t].orden IN
    /\ pc[t] = "mirar"
    /\ Va(t, IF item[Insumo[o]][Sede] >= Necesita[o] THEN "reservar" ELSE "fin")
    /\ UNCHANGED <<stock, ordenes, kardex, libro, leido, rotas, cortes>>

\* Mutant: what was read says that the order is open.
SigueAbiertaLeida(o) == TRUE

\* The condition of the write that reserves the close.
SigueAbierta(o) == ordenes[o].estado \in Abiertas

Reservar(t) ==
    LET o == leido[t].orden IN
    /\ pc[t] = "reservar"
    /\ IF SigueAbierta(o)
       THEN ordenes' = [ordenes EXCEPT ![o].estado = "done"] /\ Va(t, "consumir")
       ELSE Va(t, "fin") /\ UNCHANGED ordenes
    /\ UNCHANGED <<stock, kardex, libro, leido, rotas, cortes>>

\* consumeLines; what another took since the check leaves the order closed with nothing moved.
Consumir(t) ==
    LET o == leido[t].orden
        p == Insumo[o]
        toma == Toma(p, Sede, Necesita[o])
    IN
    /\ pc[t] = "consumir"
    /\ IF Alcanza(p, Sede, Necesita[o])
       THEN /\ item' = [item EXCEPT ![p][Sede] = @ - Necesita[o]]
            /\ lotes' = Quita(lotes, toma)
            /\ kardex' = [kardex EXCEPT ![o].sale = @ + Necesita[o]]
            /\ leido' = [leido EXCEPT ![t].costo =
                    SumFunctionOnSet([i \in DOMAIN lotes |-> toma[i] * lotes[i].costo], DOMAIN lotes)]
            /\ Va(t, "ingresar")
            /\ UNCHANGED rotas
       ELSE /\ Va(t, "fin") /\ rotas' = rotas \cup {o}
            /\ UNCHANGED <<item, lotes, kardex, leido>>
    /\ UNCHANGED <<ventas, ordenes, libro, cortes>>

Gasto(t) == leido[t].costo + Mano[leido[t].orden]
CostoUnidad(t) == Redondea(Gasto(t), Produce[leido[t].orden])

\* Mutant: the order keeps what was spent, before rounding.
TotalSinRedondear(t) == Gasto(t)

\* The order is costed at what its lot is worth.
Total(t) == CostoUnidad(t) * Produce[leido[t].orden]

\* stock.entry of the output, in a lot of its own.
Ingresar(t) ==
    LET o == leido[t].orden
        p == Terminado[o]
    IN
    /\ pc[t] = "ingresar"
    /\ item' = [item EXCEPT ![p][Sede] = @ + Produce[o]]
    /\ lotes' = Append(lotes, Lote(p, Sede, Len(lotes) + 1, SinVencer, Produce[o], CostoUnidad(t)))
    /\ kardex' = [kardex EXCEPT ![o].entra = @ + Produce[o]]
    /\ Va(t, "guardar")
    /\ UNCHANGED <<ventas, ordenes, libro, leido, rotas, cortes>>

Guardar(t) ==
    /\ pc[t] = "guardar"
    /\ ordenes' = [ordenes EXCEPT ![leido[t].orden].total = Total(t)]
    /\ Va(t, "asentar")
    /\ UNCHANGED <<stock, kardex, libro, leido, rotas, cortes>>

\* postProductionOrder: what the output is worth over its materials; once by order.
Asentar(t) ==
    LET o == leido[t].orden IN
    /\ pc[t] = "asentar"
    /\ libro' = [libro EXCEPT ![o] = Total(t) - leido[t].costo]
    /\ Va(t, "fin")
    /\ UNCHANGED <<stock, ordenes, kardex, leido, rotas, cortes>>

\* What fails or is lost after the reservation is left for a person.
Corte(t) ==
    /\ pc[t] \in {"consumir", "ingresar", "guardar", "asentar"} \cap Cortan
    /\ cortes < MaxCortes /\ cortes' = cortes + 1
    /\ Va(t, "fin") /\ rotas' = rotas \cup {leido[t].orden}
    /\ UNCHANGED <<stock, ordenes, kardex, libro, leido>>

\* start and cancel read the order and save its status over whatever there is.
LeerEstado(a, o) ==
    /\ pc[a] = "libre"
    /\ Cruces \/ ~Cerrando(o)
    /\ ordenes[o].estado \in (IF a \in Abridores THEN {"draft"} ELSE Abiertas)
    /\ leido' = [leido EXCEPT ![a].orden = o]
    /\ Va(a, IF a \in Abridores THEN "abrir" ELSE "anular")
    /\ UNCHANGED <<stock, ordenes, kardex, libro, rotas, cortes>>

GuardarEstado(a) ==
    /\ pc[a] \in {"abrir", "anular"}
    /\ ordenes' = [ordenes EXCEPT ![leido[a].orden].estado =
            IF pc[a] = "abrir" THEN "in_progress" ELSE "cancelled"]
    /\ Va(a, "fin")
    /\ UNCHANGED <<stock, kardex, libro, leido, rotas, cortes>>

Next ==
    \/ \E t \in Traslados : Trasladar(t)
    \/ \E v \in Ventas : Vender(v) \/ AnularVenta(v)
    \/ \E c \in Conteos : Contar(c) \/ Ajustar(c)
    \/ \E t \in Terminadores, o \in Ordenes : Leer(t, o)
    \/ \E t \in Terminadores : Mirar(t) \/ Reservar(t) \/ Consumir(t) \/ Ingresar(t)
    \/ \E t \in Terminadores : Guardar(t) \/ Asentar(t) \/ Corte(t)
    \/ \E a \in Abridores \cup Anuladores, o \in Ordenes : LeerEstado(a, o)
    \/ \E a \in Abridores \cup Anuladores : GuardarEstado(a)

Spec == Init /\ [][Next]_vars

-----------------------------------------------------------------------------
\* The lots of a product in a branch are its units there, and none is left owing,
\* whoever sells, voids, moves, counts or produces in between (consume, transfer,
\* reverseSale, adjust).
LotesCuadran ==
    \A p \in Productos, s \in Sedes :
        Unidades(lotes, p, s) = item[p][s] /\ \A i \in DOMAIN lotes : lotes[i].qty >= 0

\* An order consumes its materials and enters its output at most once, nothing comes
\* out of nothing, and one that was closed and not left halfway did both and is in
\* the ledger (complete, against start, cancel and itself).
ProduceUnaVez ==
    \A o \in Ordenes :
        /\ kardex[o].sale \in {0, Necesita[o]} /\ kardex[o].entra \in {0, Produce[o]}
        /\ kardex[o].entra > 0 => kardex[o].sale > 0
        /\ kardex[o].sale > 0 => ordenes[o].estado = "done"
        /\ ordenes[o].estado = "done" /\ ~Cerrando(o) /\ o \notin rotas =>
               kardex[o].entra > 0 /\ ordenes[o].total > 0

\* While nobody counts, the inventory is worth what there was, less what was sold and
\* the materials of what is half made, plus what the entries of the orders add: selling,
\* voiding and moving neither make value nor lose it, and an order is costed at
\* what its lot is worth.
ValorSegunLibro ==
    LET Valor(toma) == MapThenSumSet(LAMBDA i : toma[i] * lotes[i].costo, DOMAIN toma)
        inicial == MapThenSumSet(LAMBDA i : LotesIniciales[i].qty * LotesIniciales[i].costo,
                                 DOMAIN LotesIniciales)
        vendido == MapThenSumSet(LAMBDA v : Valor(ventas[v].toma),
                                 {v \in Ventas : ventas[v].estado = "vendida"})
    IN
    (\A c \in Conteos : pc[c] = "libre") /\ (\A o \in Ordenes : ~Cerrando(o)) /\ rotas = {} =>
        Valor([i \in DOMAIN lotes |-> lotes[i].qty]) + vendido
            = inicial + MapThenSumSet(LAMBDA o : libro[o], Ordenes)
=============================================================================
