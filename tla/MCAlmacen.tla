----------------------------- MODULE MCAlmacen -----------------------------
(****************************************************************************)
(* The small instances of the warehouse and of what is settled over it: the *)
(* stock with its production orders, the reception of a purchase, the       *)
(* settlement of a platform and the annual closing.  A behaviour is about   *)
(* one of them, so they share the variables below: each instance says what  *)
(* it keeps in which, and the ones it does not use stay at 0.               *)
(****************************************************************************)
EXTENDS Integers, Sequences

VARIABLES wA, wB, wC, wD, wE, wF, wLibro, wPc, wLeido, wFallas, wCortes

wVars == <<wA, wB, wC, wD, wE, wF, wLibro, wPc, wLeido, wFallas, wCortes>>

LinealN(S, n) == [x \in S |-> n]

-----------------------------------------------------------------------------
(* Production, over three lots of flour in two branches *)

ProductosE == {"harina", "pan"}
SedesE == {"A", "B"}
Harina(sede, codigo, vence, qty, costo) ==
    [prod |-> "harina", sede |-> sede, codigo |-> codigo, vence |-> vence, qty |-> qty, costo |-> costo]
LotesE == <<Harina("A", 1, 99, 3, 3), Harina("A", 2, 5, 1, 5), Harina("B", 2, 5, 1, 5)>>
FichaE == LinealN(ProductosE, 4)
DosOrdenes == {"o1", "o2"}
UnaOrden == {"o1"}
DosTerminan == {"t1", "t2"}
UnoTermina == {"t1"}
UnoAbre == {"b1"}
UnoAnula == {"x1"}
UnaVenta == {"v1"}
DosVentas == {"v1", "v2"}
VendeE == [v \in DosVentas |->
    [prod |-> IF v = "v1" THEN "harina" ELSE "pan", sede |-> "A", cant |-> IF v = "v1" THEN 2 ELSE 1]]
DosTraslados == {"m1", "m2"}
TrasladaE == [t \in DosTraslados |->
    IF t = "m1" THEN [prod |-> "harina", de |-> "A", a |-> "B", cant |-> 2]
    ELSE [prod |-> "harina", de |-> "B", a |-> "A", cant |-> 1]]
UnConteo == {"c1"}
CuentaE == [c \in UnConteo |-> [prod |-> "harina", sede |-> "A", contado |-> 1]]
PasosE == {"consumir", "ingresar", "guardar", "asentar"}

\* Two orders closed twice each at most, beside a sale, a start and a cancellation.
EP == INSTANCE Existencias WITH
    Productos <- ProductosE, Sedes <- SedesE, LotesIniciales <- LotesE, CostoFicha <- FichaE,
    Sede <- "A", Ordenes <- DosOrdenes, Insumo <- LinealN(DosOrdenes, "harina"),
    Terminado <- LinealN(DosOrdenes, "pan"), Necesita <- LinealN(DosOrdenes, 2),
    Produce <- LinealN(DosOrdenes, 3), Mano <- LinealN(DosOrdenes, 2),
    Terminadores <- DosTerminan, Abridores <- UnoAbre, Anuladores <- UnoAnula,
    Ventas <- UnaVenta, Vende <- [v \in UnaVenta |-> VendeE[v]], Traslados <- {}, Traslada <- <<>>,
    Conteos <- {}, Cuenta <- <<>>, Cruces <- FALSE, Cortan <- PasosE, MaxCortes <- 1,
    item <- wA, lotes <- wB, ventas <- wC, ordenes <- wD, kardex <- wE, rotas <- wF,
    libro <- wLibro, pc <- wPc, leido <- wLeido, cortes <- wCortes

\* One order beside sales, transfers both ways and a count.
EM == INSTANCE Existencias WITH
    Productos <- ProductosE, Sedes <- SedesE, LotesIniciales <- LotesE, CostoFicha <- FichaE,
    Sede <- "A", Ordenes <- UnaOrden, Insumo <- LinealN(UnaOrden, "harina"),
    Terminado <- LinealN(UnaOrden, "pan"), Necesita <- LinealN(UnaOrden, 2),
    Produce <- LinealN(UnaOrden, 3), Mano <- LinealN(UnaOrden, 2),
    Terminadores <- UnoTermina, Abridores <- {}, Anuladores <- {},
    Ventas <- DosVentas, Vende <- VendeE, Traslados <- DosTraslados, Traslada <- TrasladaE,
    Conteos <- UnConteo, Cuenta <- CuentaE, Cruces <- FALSE, Cortan <- {}, MaxCortes <- 0,
    item <- wA, lotes <- wB, ventas <- wC, ordenes <- wD, kardex <- wE, rotas <- wF,
    libro <- wLibro, pc <- wPc, leido <- wLeido, cortes <- wCortes

-----------------------------------------------------------------------------
(* An order of 3 and 1 units, received by three requests; a tax of 2 pesos over 3 units *)

RenglonesC == {"x", "y"}
PideC == [l \in RenglonesC |-> IF l = "x" THEN 3 ELSE 1]
IvaC == [l \in RenglonesC |-> IF l = "x" THEN 2 ELSE 0]
Renglon(l, n) == [renglon |-> l, cant |-> n]
RecepcionesC == {"r1", "r2", "r3"}
TraeC == [r \in RecepcionesC |->
    IF r = "r3" THEN <<Renglon("x", 1)>> ELSE <<Renglon("x", 1), Renglon("y", 1)>>]
CreditoC == {"r1", "r2"}
CortanC == {"renglon", "entrar", "deber", "recibo", "asentar"}

RP == INSTANCE Recepcion WITH
    Renglones <- RenglonesC, Pide <- PideC, Iva <- IvaC, Recepciones <- RecepcionesC,
    Trae <- TraeC, Credito <- CreditoC, Anuladores <- UnoAnula, Cruces <- FALSE,
    Cortan <- CortanC, MaxCortes <- 1,
    orden <- wA, bodega <- wB, cxp <- wC, recibos <- wD, rota <- wE,
    libro <- wLibro, pc <- wPc, leido <- wLeido, cortes <- wCortes

-----------------------------------------------------------------------------
(* Two settlements of the same two orders, one annulment and one void *)

LiquidacionesP == {"l1", "l2"}
PedidosP == {"p1", "p2"}
FallanP == {"soltar", "borrar", "asentar", "reversar", "liberar", "cerrar", "reponer"}
CortanP == {"crear", "reservar", "soltar", "borrar", "asentar", "depositar", "reversar",
    "retirar", "liberar", "cerrar"}

PL == INSTANCE Liquidacion WITH
    Liquidaciones <- LiquidacionesP, Pedidos <- PedidosP,
    Cobra <- LinealN(LiquidacionesP, PedidosP), Anuladores <- UnoAnula, Voids <- UnaVenta,
    Nadie <- "nadie", Cruces <- FALSE, Fallan <- FallanP, Cortan <- CortanP,
    MaxFallas <- 1, MaxCortes <- 1,
    pedido <- wA, liq <- wB, banco <- wC, tomados <- wD,
    libro <- wLibro, pc <- wPc, obj <- wLeido, fallas <- wFallas, cortes <- wCortes

-----------------------------------------------------------------------------
(* Two years, closed by two requests and reopened by another *)

CA == INSTANCE CierreAnual WITH
    UltimoAnio <- 2, Cerradores <- DosTerminan, Reaperturas <- UnoAbre, Cruces <- FALSE,
    MaxMovido <- 1, MaxAsientos <- 2, MaxCortes <- 1,
    movido <- wA, tarde <- wB, asiento <- wC, pc <- wPc, leido <- wLeido, cortes <- wCortes

-----------------------------------------------------------------------------
WNada ==
    /\ wA = 0 /\ wB = 0 /\ wC = 0 /\ wD = 0 /\ wE = 0 /\ wF = 0
    /\ wLibro = 0 /\ wPc = 0 /\ wLeido = 0 /\ wFallas = 0 /\ wCortes = 0
AlmacenInit(parte) ==
    CASE parte = "produccion" -> EP!Init /\ wFallas = 0
      [] parte = "bodega" -> EM!Init /\ wFallas = 0
      [] parte = "compra" -> RP!Init /\ wF = 0 /\ wFallas = 0
      [] parte = "plataforma" -> PL!Init /\ wE = 0 /\ wF = 0
      [] parte = "anual" -> CA!Init /\ wD = 0 /\ wE = 0 /\ wF = 0 /\ wLibro = 0 /\ wFallas = 0
AlmacenNext(parte) ==
    \/ parte = "produccion" /\ EP!Next /\ UNCHANGED wFallas
    \/ parte = "bodega" /\ EM!Next /\ UNCHANGED wFallas
    \/ parte = "compra" /\ RP!Next /\ UNCHANGED <<wF, wFallas>>
    \/ parte = "plataforma" /\ PL!Next /\ UNCHANGED <<wE, wF>>
    \/ parte = "anual" /\ CA!Next /\ UNCHANGED <<wD, wE, wF, wLibro, wFallas>>
AlmacenTipos(parte) ==
    CASE parte = "produccion" -> EP!Supuestos /\ EP!TypeOK
      [] parte = "bodega" -> EM!Supuestos /\ EM!TypeOK
      [] parte = "compra" -> RP!Supuestos /\ RP!TypeOK
      [] parte = "plataforma" -> PL!Supuestos /\ PL!TypeOK
      [] parte = "anual" -> CA!Supuestos /\ CA!TypeOK
=============================================================================
