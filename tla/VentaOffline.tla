----------------------------- MODULE VentaOffline -----------------------------
(*****************************************************************************)
(* Sales charged without network (offline-sales.service.ts): a terminal      *)
(* numbers them from a block reserved for it and sends them, more than once, *)
(* when the network is back; what cannot be registered waits in a tray and   *)
(* may be registered as charged, with units that were not in stock, which    *)
(* are taken out later (regularizarFaltantes).  The void of such a sale      *)
(* (sales.service.ts) runs beside.                                           *)
(*                                                                           *)
(* One product.  What a sale does after its insert is CobroVenta; of the     *)
(* void, what it does with the receivable and the note is DevolucionVenta.   *)
(*****************************************************************************)
EXTENDS Integers, FiniteSetsExt, Functions

CONSTANTS
    Ventas, Cuanto,         \* the UUIDs of the sales, and the units of each
    Terminales, TerminalDe, Bloque, \* who charged each, and the size of a block
    Envios,                 \* requests that send a sale
    Autorizan, PidenTurno,  \* those that take it as charged, and into the open shift
    Regularizadores,        \* requests that take its missing units out of stock
    Anuladores,             \* voids
    VentaDe,                \* [Envios \cup Regularizadores \cup Anuladores -> Ventas]
    Lentas,                 \* actors that may outlive the two minutes of their lock
    Existencias,            \* units in stock at first
    Nadie,
    Fallan, Cortan,         \* steps that may fail, steps where the process may be killed
    MaxTurnos, MaxCompras, MaxFallas, MaxCortes     \* bounds

VARIABLES
    turno, abierto,     \* the last shift, and whether it is open
    contador, reserva,  \* the counter of the series, and the block of each terminal
    numero,             \* the number printed on each sale, 0 before it is charged
    candado,            \* the claim of each UUID
    venta,              \* the sales registered
    existencias,
    bandeja,            \* the tray of conflicts
    cerrojo,            \* who has the lock of the missing units (regularizandoAt)
    salida, asiento,    \* units taken out for each sale afterwards, and the sales posted
    cruce,              \* sales voided when a regularisation was about to mark them
    pc, leido,          \* the next await of each actor, and what it carries
    compras, fallas, cortes

actores == <<turno, abierto, contador, reserva, numero, compras>>
vars == <<actores, candado, venta, existencias, bandeja, cerrojo, salida, asiento, cruce,
          pc, leido, fallas, cortes>>

Actores == Envios \cup Regularizadores \cup Anuladores
Pasos == {"mirar", "mirarCandado", "liberar", "turno", "tomar", "revisar", "sacar", "insertar",
    "devolver", "soltar", "guardar", "marcar", "resolver", "cerrojo", "marcarC", "consumir",
    "volver", "marcarA", "asentar", "marcarR", "abrirCerrojo", "voltear", "reversar",
    "deshacer", "anularFaltante"}
Motivos == {"SIN_STOCK", "TURNO_CERRADO", "NUMERO_USADO", "RECHAZADA"}
FALTANTE_CERRANDO == {"consumiendo", "asiento_pendiente", "regularizado"}
FALTANTE_ABIERTO == {"pendiente", "consumiendo", "asiento_pendiente"}
EstadosFaltante == FALTANTE_CERRANDO \cup {"no", "pendiente", "anulado"}

SinVenta == [estado |-> "no", turno |-> 0, salio |-> 0, falta |-> 0, faltante |-> "no"]
SinReserva == [desde |-> 1, hasta |-> 0, turno |-> 0]
SinLeer == [turno |-> 0, pide |-> FALSE, salio |-> 0, falta |-> 0, sacado |-> 0,
            motivo |-> Nadie, faltante |-> "no"]

\* The kinds of actors are disjoint, and each works on a sale there is.
Supuestos ==
    /\ IsFiniteSet(Ventas) /\ IsFiniteSet(Envios) /\ IsFiniteSet(Anuladores)
    /\ Envios \cap (Regularizadores \cup Anuladores) = {} /\ Regularizadores \cap Anuladores = {}
    /\ Nadie \notin Actores
    /\ VentaDe \in [Actores -> Ventas] /\ TerminalDe \in [Ventas -> Terminales]
    /\ Cuanto \in [Ventas -> Nat] /\ Existencias \in Nat /\ Bloque \in Nat
    /\ Cortan \subseteq Pasos
    /\ MaxTurnos \in Nat \ {0} /\ MaxCompras \in Nat /\ MaxFallas \in Nat /\ MaxCortes \in Nat

TypeOK ==
    /\ turno \in 0..MaxTurnos /\ abierto \in BOOLEAN
    /\ contador \in Nat /\ numero \in [Ventas -> 0..contador]
    /\ \A t \in Terminales : reserva[t].turno \in 0..turno
    /\ \A u \in Ventas :
         /\ candado[u].estado \in {"no", "processing", "done"}
         /\ candado[u].de \in Envios \cup {Nadie}
         /\ venta[u].estado \in {"no", "completed", "void"}
         /\ venta[u].salio \in 0..Cuanto[u] /\ venta[u].falta \in 0..Cuanto[u]
         /\ venta[u].faltante \in EstadosFaltante
         /\ bandeja[u].estado \in {"no", "abierto", "resuelto"}
         /\ bandeja[u].motivo \in Motivos \cup {Nadie}
         /\ cerrojo[u] \in Regularizadores \cup {Nadie}
    /\ existencias \in Nat /\ salida \in [Ventas -> Nat]
    /\ asiento \subseteq Ventas /\ cruce \subseteq Ventas
    /\ pc \in [Actores -> {"libre", "fin", "muerto"} \cup Pasos]
    /\ compras \in 0..MaxCompras /\ fallas \in 0..MaxFallas /\ cortes \in 0..MaxCortes

Init ==
    /\ turno = 1 /\ abierto = TRUE /\ contador = 0
    /\ reserva = [t \in Terminales |-> SinReserva]
    /\ numero = [u \in Ventas |-> 0]
    /\ candado = [u \in Ventas |-> [estado |-> "no", de |-> Nadie]]
    /\ venta = [u \in Ventas |-> SinVenta]
    /\ existencias = Existencias
    /\ bandeja = [u \in Ventas |-> [estado |-> "no", motivo |-> Nadie, pide |-> FALSE]]
    /\ cerrojo = [u \in Ventas |-> Nadie]
    /\ salida = [u \in Ventas |-> 0] /\ asiento = {} /\ cruce = {}
    /\ pc = [a \in Actores |-> "libre"] /\ leido = [a \in Actores |-> SinLeer]
    /\ compras = 0 /\ fallas = 0 /\ cortes = 0

-----------------------------------------------------------------------------
Va(a, paso) == pc' = [pc EXCEPT ![a] = paso]
Falla(paso) == paso \in Fallan /\ fallas < MaxFallas /\ fallas' = fallas + 1
Bien == UNCHANGED fallas
Lleva(a, campo, valor) == leido' = [leido EXCEPT ![a][campo] = valor]

\* A lock of this actor may be older than two minutes.
Vieja(a) == a # Nadie /\ (a \in Lentas \/ pc[a] \in {"muerto", "fin"})

Conflicto(e, motivo, paso) == Lleva(e, "motivo", motivo) /\ Va(e, paso)

-----------------------------------------------------------------------------
(* The shift, the stock, and the terminal *)

Turno ==
    /\ \/ abierto /\ abierto' = FALSE /\ UNCHANGED turno
       \/ ~abierto /\ turno < MaxTurnos /\ abierto' = TRUE /\ turno' = turno + 1
    /\ UNCHANGED <<contador, reserva, numero, compras, candado, venta, existencias, bandeja,
                   cerrojo, salida, asiento, cruce, pc, leido, fallas, cortes>>

Comprar ==
    /\ compras < MaxCompras
    /\ compras' = compras + 1 /\ existencias' = existencias + 1
    /\ UNCHANGED <<turno, abierto, contador, reserva, numero, candado, venta, bandeja,
                   cerrojo, salida, asiento, cruce, pc, leido, fallas, cortes>>

\* One $inc hands out a whole block, tied to the open shift.
Reservar(t) ==
    /\ abierto /\ reserva[t].hasta = 0
    /\ contador' = contador + Bloque
    /\ reserva' = [reserva EXCEPT ![t] =
         [desde |-> contador + 1, hasta |-> contador + Bloque, turno |-> turno]]
    /\ UNCHANGED <<turno, abierto, numero, compras, candado, venta, existencias, bandeja,
                   cerrojo, salida, asiento, cruce, pc, leido, fallas, cortes>>

\* The terminal charges in cash with a number of its block: two tabs may take one.
Cobrar(u) ==
    LET r == reserva[TerminalDe[u]] IN
    /\ numero[u] = 0
    /\ \E n \in r.desde..r.hasta : numero' = [numero EXCEPT ![u] = n]
    /\ UNCHANGED <<turno, abierto, contador, reserva, compras, candado, venta, existencias,
                   bandeja, cerrojo, salida, asiento, cruce, pc, leido, fallas, cortes>>

-----------------------------------------------------------------------------
(* sync, syncInterno *)

\* Who authorises sends what the tray kept, of an open conflict that has this way out.
Enviar(e) ==
    LET u == VentaDe[e]
        c == bandeja[u]
    IN  /\ pc[e] = "libre" /\ numero[u] # 0
        /\ IF e \notin Autorizan
           THEN Lleva(e, "pide", e \in PidenTurno) /\ Va(e, "mirar")
           ELSE IF c.estado = "abierto" /\ c.motivo = "SIN_STOCK"
           THEN Lleva(e, "pide", c.pide) /\ Va(e, "mirar")
           ELSE Va(e, "fin") /\ UNCHANGED leido
        /\ UNCHANGED <<actores, candado, venta, existencias, bandeja, cerrojo, salida, asiento,
                       cruce, fallas, cortes>>

\* ventaPrevia: a sale of this UUID is the answer.
MirarVenta(e) ==
    LET u == VentaDe[e] IN
    /\ pc[e] = "mirar"
    /\ IF venta[u].estado # "no"
       THEN /\ candado' = [candado EXCEPT ![u].estado = IF @ = "no" THEN @ ELSE "done"]
            /\ Va(e, "resolver")
       ELSE Va(e, "mirarCandado") /\ UNCHANGED candado
    /\ UNCHANGED <<actores, venta, existencias, bandeja, cerrojo, salida, asiento, cruce,
                   leido, fallas, cortes>>

\* ventaPrevia: a recent claim is another request in course; an old one, or one whose
\* sale was not there when it was looked for, is taken away.
MirarCandado(e) ==
    LET c == candado[VentaDe[e]] IN
    /\ pc[e] = "mirarCandado"
    /\ \/ c.estado = "no" /\ Va(e, "turno")
       \/ c.estado = "processing" /\ Va(e, "fin")
       \/ c.estado = "processing" /\ Vieja(c.de) /\ Va(e, "liberar")
       \/ c.estado = "done" /\ Va(e, "liberar")
    /\ UNCHANGED <<actores, candado, venta, existencias, bandeja, cerrojo, salida, asiento,
                   cruce, leido, fallas, cortes>>

Liberar(e) ==
    /\ pc[e] = "liberar"
    /\ candado' = [candado EXCEPT ![VentaDe[e]] = [estado |-> "no", de |-> Nadie]]
    /\ Va(e, "turno")
    /\ UNCHANGED <<actores, venta, existencias, bandeja, cerrojo, salida, asiento, cruce,
                   leido, fallas, cortes>>

\* The shift of the block, or the one open if it is asked for.
ElegirTurno(e) ==
    LET suyo == reserva[TerminalDe[VentaDe[e]]].turno IN
    /\ pc[e] = "turno"
    /\ IF abierto /\ (turno = suyo \/ leido[e].pide)
       THEN Lleva(e, "turno", turno) /\ Va(e, "tomar")
       ELSE Conflicto(e, "TURNO_CERRADO", "guardar")
    /\ UNCHANGED <<actores, candado, venta, existencias, bandeja, cerrojo, salida, asiento,
                   cruce, fallas, cortes>>

\* tomarCandado: a claim per UUID and per number.
Tomar(e) ==
    LET u == VentaDe[e]
        usado == \E w \in Ventas \ {u} : candado[w].estado # "no" /\ numero[w] = numero[u]
    IN  /\ pc[e] = "tomar"
        /\ \/ candado[u].estado # "no" /\ Va(e, "fin") /\ UNCHANGED <<candado, leido>>
           \/ /\ candado[u].estado = "no" /\ usado
              /\ Conflicto(e, "NUMERO_USADO", "guardar") /\ UNCHANGED candado
           \/ /\ candado[u].estado = "no" /\ ~usado
              /\ candado' = [candado EXCEPT ![u] = [estado |-> "processing", de |-> e]]
              /\ Va(e, "revisar") /\ UNCHANGED leido
        /\ UNCHANGED <<actores, venta, existencias, bandeja, cerrojo, salida, asiento, cruce,
                       fallas, cortes>>

\* crear: the shift again, and the stock; as charged, what is missing is noted.
Revisar(e) ==
    LET q == Cuanto[VentaDe[e]]
        hay == Min({q, existencias})
    IN  /\ pc[e] = "revisar"
        /\ IF ~abierto \/ turno # leido[e].turno THEN Conflicto(e, "TURNO_CERRADO", "soltar")
           ELSE IF hay < q /\ e \notin Autorizan THEN Conflicto(e, "SIN_STOCK", "soltar")
           ELSE /\ leido' = [leido EXCEPT ![e].salio = hay, ![e].falta = q - hay]
                /\ Va(e, "sacar")
        /\ UNCHANGED <<actores, candado, venta, existencias, bandeja, cerrojo, salida, asiento,
                       cruce, fallas, cortes>>

\* stock.sell, only if there is still enough.
Sacar(e) ==
    LET q == leido[e].salio IN
    /\ pc[e] = "sacar"
    /\ \/ /\ existencias >= q
          /\ existencias' = existencias - q
          /\ Lleva(e, "sacado", q) /\ Va(e, "insertar")
       \/ existencias < q /\ Conflicto(e, "RECHAZADA", "soltar") /\ UNCHANGED existencias
    /\ UNCHANGED <<actores, candado, venta, bandeja, cerrojo, salida, asiento, cruce,
                   fallas, cortes>>

\* finalizeSale: one sale per UUID and per number.
Insertar(e) ==
    LET u == VentaDe[e]
        repetida == \E w \in Ventas : venta[w].estado # "no" /\ numero[w] = numero[u]
    IN  /\ pc[e] = "insertar"
        /\ \/ /\ ~repetida /\ Bien
              /\ venta' = [venta EXCEPT ![u] =
                   [estado |-> "completed", turno |-> leido[e].turno, salio |-> leido[e].salio,
                    falta |-> leido[e].falta,
                    faltante |-> IF leido[e].falta > 0 THEN "pendiente" ELSE "no"]]
              /\ Lleva(e, "sacado", 0) /\ Va(e, "marcar")
           \/ /\ repetida /\ Bien
              /\ Va(e, "devolver") /\ UNCHANGED <<venta, leido>>
           \/ /\ ~repetida /\ Falla("insertar")
              /\ Va(e, "devolver") /\ UNCHANGED <<venta, leido>>
        /\ UNCHANGED <<actores, candado, existencias, bandeja, cerrojo, salida, asiento, cruce,
                       cortes>>

\* rollbackSoldStock
Devolver(e) ==
    /\ pc[e] = "devolver"
    /\ existencias' = existencias + leido[e].sacado
    /\ Lleva(e, "sacado", 0) /\ Va(e, "soltar")
    /\ UNCHANGED <<actores, candado, venta, bandeja, cerrojo, salida, asiento, cruce,
                   fallas, cortes>>

\* The claim in course goes, whoever took it.
Soltar(e) ==
    LET u == VentaDe[e] IN
    /\ pc[e] = "soltar"
    /\ candado' = IF candado[u].estado = "processing"
                  THEN [candado EXCEPT ![u] = [estado |-> "no", de |-> Nadie]] ELSE candado
    /\ Va(e, IF leido[e].motivo = Nadie THEN "fin" ELSE "guardar")
    /\ UNCHANGED <<actores, venta, existencias, bandeja, cerrojo, salida, asiento, cruce,
                   leido, fallas, cortes>>

\* guardarConflicto: who authorises does not write over the tray.
Guardar(e) ==
    /\ pc[e] = "guardar"
    /\ bandeja' = IF e \in Autorizan THEN bandeja
                  ELSE [bandeja EXCEPT ![VentaDe[e]] =
                          [estado |-> "abierto", motivo |-> leido[e].motivo,
                           pide |-> leido[e].pide]]
    /\ Va(e, "fin")
    /\ UNCHANGED <<actores, candado, venta, existencias, cerrojo, salida, asiento, cruce,
                   leido, fallas, cortes>>

Marcar(e) ==
    /\ pc[e] = "marcar"
    /\ candado' = [candado EXCEPT ![VentaDe[e]].estado = IF @ = "no" THEN @ ELSE "done"]
    /\ Va(e, "resolver")
    /\ UNCHANGED <<actores, venta, existencias, bandeja, cerrojo, salida, asiento, cruce,
                   leido, fallas, cortes>>

Resolver(e) ==
    /\ pc[e] = "resolver"
    /\ bandeja' = [bandeja EXCEPT ![VentaDe[e]].estado = IF @ = "no" THEN @ ELSE "resuelto"]
    /\ Va(e, "fin")
    /\ UNCHANGED <<actores, candado, venta, existencias, cerrojo, salida, asiento, cruce,
                   leido, fallas, cortes>>

-----------------------------------------------------------------------------
(* regularizarFaltantes *)

Pasa(u, desde, hacia) ==
    venta' = [venta EXCEPT ![u].faltante = IF @ = desde THEN hacia ELSE @]

Regularizar(g) ==
    /\ pc[g] = "libre" /\ venta[VentaDe[g]].faltante \in FALTANTE_ABIERTO
    /\ Va(g, "cerrojo")
    /\ UNCHANGED <<actores, candado, venta, existencias, bandeja, cerrojo, salida, asiento,
                   cruce, leido, fallas, cortes>>

\* The lock, of a sale that is not voided; units "being consumed" are for a person.
Cerrojo(g) ==
    LET u == VentaDe[g]
        suyo == venta[u].estado = "completed" /\ cerrojo[u] = Nadie
        viejo == venta[u].estado = "completed" /\ Vieja(cerrojo[u])
        paso == CASE venta[u].faltante = "consumiendo" -> "abrirCerrojo"
                  [] venta[u].faltante = "pendiente" -> "marcarC"
                  [] venta[u].faltante = "asiento_pendiente" -> "asentar"
                  [] OTHER -> "marcarR"
    IN  /\ pc[g] = "cerrojo"
        /\ \/ (suyo \/ viejo) /\ cerrojo' = [cerrojo EXCEPT ![u] = g] /\ Va(g, paso)
           \/ ~suyo /\ Va(g, "fin") /\ UNCHANGED cerrojo
        /\ UNCHANGED <<actores, candado, venta, existencias, bandeja, salida, asiento, cruce,
                       leido, fallas, cortes>>

\* The mark that comes before the stock is touched.
MarcarC(g) ==
    /\ pc[g] = "marcarC"
    /\ Pasa(VentaDe[g], "pendiente", "consumiendo") /\ Va(g, "consumir")
    /\ UNCHANGED <<actores, candado, existencias, bandeja, cerrojo, salida, asiento, cruce,
                   leido, fallas, cortes>>

Consumir(g) ==
    LET u == VentaDe[g] IN
    /\ pc[g] = "consumir"
    /\ \/ /\ existencias >= venta[u].falta
          /\ existencias' = existencias - venta[u].falta
          /\ salida' = [salida EXCEPT ![u] = @ + venta[u].falta]
          /\ Va(g, "marcarA")
       \/ existencias < venta[u].falta /\ Va(g, "volver") /\ UNCHANGED <<existencias, salida>>
    /\ UNCHANGED <<actores, candado, venta, bandeja, cerrojo, asiento, cruce, leido,
                   fallas, cortes>>

Volver(g) ==
    /\ pc[g] = "volver"
    /\ Pasa(VentaDe[g], "consumiendo", "pendiente") /\ Va(g, "abrirCerrojo")
    /\ UNCHANGED <<actores, candado, existencias, bandeja, cerrojo, salida, asiento, cruce,
                   leido, fallas, cortes>>

MarcarA(g) ==
    /\ pc[g] = "marcarA"
    /\ Pasa(VentaDe[g], "consumiendo", "asiento_pendiente") /\ Va(g, "asentar")
    /\ UNCHANGED <<actores, candado, existencias, bandeja, cerrojo, salida, asiento, cruce,
                   leido, fallas, cortes>>

\* postRegularizacionFaltante, once per sale.
Asentar(g) ==
    LET u == VentaDe[g] IN
    /\ pc[g] = "asentar"
    /\ \/ Bien /\ asiento' = asiento \cup {u} /\ Va(g, "marcarR")
       \/ u \notin asiento /\ Falla("asentar") /\ Va(g, "abrirCerrojo") /\ UNCHANGED asiento
    /\ UNCHANGED <<actores, candado, venta, existencias, bandeja, cerrojo, salida, cruce,
                   leido, cortes>>

MarcarR(g) ==
    /\ pc[g] = "marcarR"
    /\ Pasa(VentaDe[g], "asiento_pendiente", "regularizado") /\ Va(g, "abrirCerrojo")
    /\ UNCHANGED <<actores, candado, existencias, bandeja, cerrojo, salida, asiento, cruce,
                   leido, fallas, cortes>>

\* The finally: the lock goes, whoever has it.
AbrirCerrojo(g) ==
    /\ pc[g] = "abrirCerrojo"
    /\ cerrojo' = [cerrojo EXCEPT ![VentaDe[g]] = Nadie] /\ Va(g, "fin")
    /\ UNCHANGED <<actores, candado, venta, existencias, bandeja, salida, asiento, cruce,
                   leido, fallas, cortes>>

-----------------------------------------------------------------------------
(* void *)

Anular(n) ==
    LET v == venta[VentaDe[n]] IN
    /\ pc[n] = "libre" /\ v.estado = "completed" /\ v.faltante \notin FALTANTE_CERRANDO
    /\ Va(n, "voltear")
    /\ UNCHANGED <<actores, candado, venta, existencias, bandeja, cerrojo, salida, asiento,
                   cruce, leido, fallas, cortes>>

\* Mutant: the flip does not look at the missing units again.
VoltearCiego(n) ==
    LET u == VentaDe[n] IN
    /\ pc[n] = "voltear"
    /\ IF venta[u].estado = "completed"
       THEN /\ venta' = [venta EXCEPT ![u].estado = "void"]
            /\ Lleva(n, "faltante", venta[u].faltante)
            /\ cruce' = IF \E g \in Regularizadores : pc[g] = "marcarC" /\ VentaDe[g] = u
                        THEN cruce \cup {u} ELSE cruce
            /\ Va(n, "reversar")
       ELSE Va(n, "fin") /\ UNCHANGED <<venta, leido, cruce>>
    /\ UNCHANGED <<actores, candado, existencias, bandeja, cerrojo, salida, asiento,
                   fallas, cortes>>

\* The flip, if the missing units are not being taken out.
Voltear(n) ==
    LET u == VentaDe[n] IN
    /\ pc[n] = "voltear"
    /\ IF venta[u].estado = "completed" /\ venta[u].faltante \notin FALTANTE_CERRANDO
       THEN /\ venta' = [venta EXCEPT ![u].estado = "void"]
            /\ Lleva(n, "faltante", venta[u].faltante)
            /\ cruce' = IF \E g \in Regularizadores : pc[g] = "marcarC" /\ VentaDe[g] = u
                        THEN cruce \cup {u} ELSE cruce
            /\ Va(n, "reversar")
       ELSE Va(n, "fin") /\ UNCHANGED <<venta, leido, cruce>>
    /\ UNCHANGED <<actores, candado, existencias, bandeja, cerrojo, salida, asiento,
                   fallas, cortes>>

\* Its own components come back, not what was taken out afterwards.
Reversar(n) ==
    LET u == VentaDe[n] IN
    /\ pc[n] = "reversar"
    /\ \/ /\ Bien /\ existencias' = existencias + venta[u].salio
          /\ Lleva(n, "sacado", venta[u].salio) /\ Va(n, "anularFaltante")
       \/ Falla("reversar") /\ Va(n, "deshacer") /\ UNCHANGED <<existencias, leido>>
    /\ UNCHANGED <<actores, candado, venta, bandeja, cerrojo, salida, asiento, cruce, cortes>>

Deshacer(n) ==
    /\ pc[n] = "deshacer"
    /\ venta' = [venta EXCEPT ![VentaDe[n]].estado = "completed"] /\ Va(n, "fin")
    /\ UNCHANGED <<actores, candado, existencias, bandeja, cerrojo, salida, asiento, cruce,
                   leido, fallas, cortes>>

AnularFaltante(n) ==
    /\ pc[n] = "anularFaltante"
    /\ IF leido[n].faltante = "pendiente" THEN Pasa(VentaDe[n], "pendiente", "anulado")
       ELSE UNCHANGED venta
    /\ Va(n, "fin")
    /\ UNCHANGED <<actores, candado, existencias, bandeja, cerrojo, salida, asiento, cruce,
                   leido, fallas, cortes>>

-----------------------------------------------------------------------------
Corte(a) ==
    /\ pc[a] \in Cortan /\ cortes < MaxCortes
    /\ cortes' = cortes + 1 /\ Va(a, "muerto")
    /\ UNCHANGED <<actores, candado, venta, existencias, bandeja, cerrojo, salida, asiento,
                   cruce, leido, fallas>>

Envia(e) ==
    \/ Enviar(e) \/ MirarVenta(e) \/ MirarCandado(e) \/ Liberar(e) \/ ElegirTurno(e)
    \/ Tomar(e) \/ Revisar(e) \/ Sacar(e) \/ Insertar(e) \/ Devolver(e) \/ Soltar(e)
    \/ Guardar(e) \/ Marcar(e) \/ Resolver(e)
Regulariza(g) ==
    \/ Regularizar(g) \/ Cerrojo(g) \/ MarcarC(g) \/ Consumir(g) \/ Volver(g)
    \/ MarcarA(g) \/ Asentar(g) \/ MarcarR(g) \/ AbrirCerrojo(g)
Anula(n) == Anular(n) \/ Voltear(n) \/ Reversar(n) \/ Deshacer(n) \/ AnularFaltante(n)

Next ==
    \/ Turno \/ Comprar
    \/ \E t \in Terminales : Reservar(t)
    \/ \E u \in Ventas : Cobrar(u)
    \/ \E e \in Envios : Envia(e)
    \/ \E g \in Regularizadores : Regulariza(g)
    \/ \E n \in Anuladores : Anula(n)
    \/ \E a \in Actores : Corte(a)

Spec == Init /\ [][Next]_vars

-----------------------------------------------------------------------------
(* Properties *)

\* "Stock never stays discounted without a sale behind it" (crear): what is missing
\* of the stock is in a registered sale, left for its missing units, or is on its way
\* in a request that has not answered, however often and slowly a sale is sent.
StockCuadra ==
    LET de == [u \in Ventas |-> (IF venta[u].estado = "no" THEN 0 ELSE venta[u].salio) + salida[u]]
        enCamino == [e \in Envios |-> leido[e].sacado]
        devuelto == [n \in Anuladores |-> leido[n].sacado]
    IN  /\ existencias = Existencias + compras - SumFunctionOnSet(de, Ventas)
             - SumFunctionOnSet(enCamino, Envios) + SumFunctionOnSet(devuelto, Anuladores)
        /\ \A e \in Envios : leido[e].sacado > 0 => pc[e] \in {"insertar", "devolver", "muerto"}
        /\ \A u \in Ventas :
             /\ venta[u].estado # "no" => venta[u].salio + venta[u].falta = Cuanto[u]
             /\ SumFunctionOnSet(devuelto, {n \in Anuladores : VentaDe[n] = u}) <= venta[u].salio

\* The missing units leave once, and their entry follows them, with requests that
\* repeat, fail or die between any two writes.
FaltanteUnaVez ==
    \A u \in Ventas :
      LET f == venta[u].faltante IN
      /\ salida[u] \in {0, venta[u].falta}
      /\ u \in asiento \/ f \in {"asiento_pendiente", "regularizado"} => salida[u] > 0
      /\ f = "regularizado" => u \in asiento
      /\ f = "pendiente" => salida[u] = 0

\* A sale is voided or its missing units leave, not both, except when the void flips
\* it between the lock of a regularisation and its mark.
AnuladaOSalida ==
    \A u \in Ventas \ cruce :
      venta[u].estado = "void" => venta[u].faltante \notin FALTANTE_CERRANDO /\ salida[u] = 0
=============================================================================
