---------------------------- MODULE MCOperacion ----------------------------
(******************************************************************************)
(* What the business runs on beside the sale: the balance in favour (the      *)
(* constants of the .cfg), the payroll, the transmission of documents, the    *)
(* subscription, the later discounts and the general ledger, each with its    *)
(* own variables, and the warehouse (MCAlmacen).  `parte` picks the component *)
(* a behaviour is about; the variables of the others are not used.            *)
(******************************************************************************)
EXTENDS MCSaldoFavor, MCAlmacen

CONSTANTS n1, n3, s1, u1, t1, d1, c1, w1, Ninguna

VARIABLES
    parte,
    nDed, nCorrida, nLibro, nPc, nLeido, nCortes,
    tDoc, tBloqueo, tBucket, tFirmas, tTransito, tDian, tEntregado, tPc, tLeido,
    tPerdidas, tCortes,
    gDia, gSub, gEmpresa, gPagos, gAvances, gPc, gLeido, gFallas, gCortes,
    rCxc, rReg, rNotas, rSalida, rFavor, rLibro, rPc, rObj, rLeido, rFallas, rCortes,
    lGasto, lAsientos, lMarcados, lBanco, lPend, lPc, lLeido, lAlDia, lFallas, lCortes

nVars == <<nDed, nCorrida, nLibro, nPc, nLeido, nCortes>>
tVars == <<tDoc, tBloqueo, tBucket, tFirmas, tTransito, tDian, tEntregado, tPc, tLeido,
           tPerdidas, tCortes>>
gVars == <<gDia, gSub, gEmpresa, gPagos, gAvances, gPc, gLeido, gFallas, gCortes>>
rVars == <<rCxc, rReg, rNotas, rSalida, rFavor, rLibro, rPc, rObj, rLeido, rFallas, rCortes>>
lVars == <<lGasto, lAsientos, lMarcados, lBanco, lPend, lPc, lLeido, lAlDia, lFallas, lCortes>>

ConsumosN == {s1}
MontoN == [c \in ConsumosN |-> 2]
CorridasN == {n1, n3}
PeriodoN == [n \in CorridasN |-> IF n = n3 THEN 2 ELSE 1]
AdminsN == {b1, b2}
AnuladoresN == {v1}
ConsumoDeN == [v \in AnuladoresN |-> s1]
PasosN == {"insertar", "aplicar", "soltarTodas", "mirarSaldo", "anularSaldo", "soltar",
    "construir", "guardar", "borrar", "cuadrar", "arrastrar", "cerrar", "asentar"}

\* The runs of two months, two admins, a consumption that is more than the
\* salary and the void of its sale; a process lost anywhere.
N == INSTANCE Nomina WITH
    Consumos <- ConsumosN, Monto <- MontoN, Corridas <- CorridasN, Periodo <- PeriodoN,
    Admins <- AdminsN, Anuladores <- AnuladoresN, ConsumoDe <- ConsumoDeN, Salario <- 1,
    Cruces <- FALSE, EnMedio <- FALSE, Cortan <- PasosN, MaxCortes <- 1,
    ded <- nDed, corrida <- nCorrida, libro <- nLibro, pc <- nPc, leido <- nLeido,
    cortes <- nCortes

ConsumosD == {s1, d1}
MontoD == [c \in ConsumosD |-> IF c = s1 THEN 5 ELSE 2]
UnAdminD == {u1}

\* One admin and two consumptions of different amounts, the void on the first.
ND == INSTANCE Nomina WITH
    Consumos <- ConsumosD, Monto <- MontoD, Corridas <- CorridasN, Periodo <- PeriodoN,
    Admins <- UnAdminD, Anuladores <- AnuladoresN, ConsumoDe <- ConsumoDeN, Salario <- 1,
    Cruces <- FALSE, EnMedio <- FALSE, Cortan <- PasosN, MaxCortes <- 1,
    ded <- nDed, corrida <- nCorrida, libro <- nLibro, pc <- nPc, leido <- nLeido,
    cortes <- nCortes

UsuariosT == {u1}
BarridosT == {t1}
FallasT == {}
PasosT == {"tomar", "firmar", "firmado", "marcar", "enviar", "consultar", "declarar",
    "reemplazar", "declarada", "restaurar", "guardar", "entregar", "soltar"}

\* A user and the cron send one document to an authority that answers late or
\* not at all, up to its contingency.
T == INSTANCE TransmisionDian WITH
    Usuarios <- UsuariosT, Barridos <- BarridosT, Produccion <- TRUE, Fallas <- FallasT,
    Nadie <- Ninguna, Cortan <- PasosT, MaxFirmas <- 3, MaxPerdidas <- 4, MaxCortes <- 1,
    doc <- tDoc, bloqueo <- tBloqueo, bucket <- tBucket, firmas <- tFirmas,
    transito <- tTransito, dian <- tDian, entregado <- tEntregado, pc <- tPc,
    leido <- tLeido, perdidas <- tPerdidas, cortes <- tCortes

UsuariosG == {u1}
DocumentosG == {d1}
CancelacionesG == {c1}
AvisosG == {w1}
NadieG == {}

\* A company subscribes and may cancel; a sweep charges its renewals, with the
\* webhook beside it.
GW == INSTANCE Suscripcion WITH
    Altas <- UsuariosG, Compras <- NadieG, Cancelaciones <- CancelacionesG, Barridos <- BarridosT,
    Avisos <- AvisosG, Nadie <- Ninguna, Ciclo <- 2, MaxReintentos <- 2, BancoLento <- FALSE,
    Cruces <- FALSE, Fallan <- {"transar", "efecto", "guardarPeriodo"},
    Cortan <- {"transar", "efecto", "marcarEfecto", "guardarPeriodo", "cerrar"}, MaxDia <- 5,
    MaxPagos <- 3, MaxFallas <- 1, MaxCortes <- 1,
    dia <- gDia, sub <- gSub, empresa <- gEmpresa, pagos <- gPagos, avances <- gAvances,
    pc <- gPc, leido <- gLeido, fallas <- gFallas, cortes <- gCortes

\* The same with two sweeps at once and no webhook.
GB == INSTANCE Suscripcion WITH
    Altas <- UsuariosG, Compras <- NadieG, Cancelaciones <- CancelacionesG, Barridos <- AdminsN,
    Avisos <- NadieG, Nadie <- Ninguna, Ciclo <- 2, MaxReintentos <- 2, BancoLento <- FALSE,
    Cruces <- FALSE, Fallan <- {"transar", "efecto"},
    Cortan <- {"guardarPeriodo", "cerrar"}, MaxDia <- 5,
    MaxPagos <- 3, MaxFallas <- 1, MaxCortes <- 1,
    dia <- gDia, sub <- gSub, empresa <- gEmpresa, pagos <- gPagos, avances <- gAvances,
    pc <- gPc, leido <- gLeido, fallas <- gFallas, cortes <- gCortes

\* A package of documents bought while the subscription is being paid.
GD == INSTANCE Suscripcion WITH
    Altas <- UsuariosG, Compras <- DocumentosG, Cancelaciones <- NadieG, Barridos <- NadieG,
    Avisos <- AvisosG, Nadie <- Ninguna, Ciclo <- 2, MaxReintentos <- 2, BancoLento <- FALSE,
    Cruces <- FALSE, Fallan <- {"efecto"},
    Cortan <- {"marcarEfecto", "cerrar"}, MaxDia <- 1,
    MaxPagos <- 2, MaxFallas <- 1, MaxCortes <- 1,
    dia <- gDia, sub <- gSub, empresa <- gEmpresa, pagos <- gPagos, avances <- gAvances,
    pc <- gPc, leido <- gLeido, fallas <- gFallas, cortes <- gCortes

\* Two requests to subscribe and a cycle longer than the retries: a company in arrears
\* may pay again before they run out.
GA == INSTANCE Suscripcion WITH
    Altas <- AdminsN, Compras <- NadieG, Cancelaciones <- NadieG, Barridos <- BarridosT,
    Avisos <- NadieG, Nadie <- Ninguna, Ciclo <- 3, MaxReintentos <- 2, BancoLento <- FALSE,
    Cruces <- FALSE, Fallan <- NadieG, Cortan <- NadieG, MaxDia <- 5,
    MaxPagos <- 4, MaxFallas <- 0, MaxCortes <- 0,
    dia <- gDia, sub <- gSub, empresa <- gEmpresa, pagos <- gPagos, avances <- gAvances,
    pc <- gPc, leido <- gLeido, fallas <- gFallas, cortes <- gCortes

CuentasR == <<"vieja", "nueva">>
DebeR == [c \in {"vieja", "nueva"} |-> IF c = "vieja" THEN 1 ELSE 2]
PagosR == {"pago"}
PagoDeR == [p \in PagosR |-> "nueva"]
ImporteR == [p \in PagosR |-> 1]
UnoR == {"d1"}
DosR == {"d1", "d2"}
MontoR == [d \in DosR |-> IF d = "d1" THEN 3 ELSE 2]
MedioR == [d \in DosR |-> IF d = "d1" THEN "cash" ELSE "credit_note"]
FallanR == {"nota", "caja", "favor"}
\* Not at "marcaCaja", where the drawer moves again.
CortanR == {"leer", "abonar", "revertir", "revertir2", "guardarCartera", "nota", "borrar",
    "guardar", "caja", "favor", "libro", "marcaLibro", "cerrar", "soltar"}

\* A discount in cash beside a payment, a cashier and the sweep; two lost processes.
RC == INSTANCE NotaSinReferencia WITH
    Descuentos <- UnoR, MontoDe <- MontoR, Medio <- MedioR, Cuentas <- CuentasR, Debe <- DebeR,
    Pagos <- PagosR, PagoDe <- PagoDeR, Importe <- ImporteR, Cajeros <- UsuariosG,
    Barridos <- BarridosT, Nadie <- Ninguna, Fallan <- FallanR, Cortan <- CortanR,
    MaxFallas <- 1, MaxCortes <- 2,
    cxc <- rCxc, reg <- rReg, notas <- rNotas, salida <- rSalida, aFavor <- rFavor,
    libro <- rLibro, pc <- rPc, obj <- rObj, leido <- rLeido, fallas <- rFallas,
    cortes <- rCortes

\* Two discounts over the same receivables, in cash and to the balance.
RD == INSTANCE NotaSinReferencia WITH
    Descuentos <- DosR, MontoDe <- MontoR, Medio <- MedioR, Cuentas <- CuentasR, Debe <- DebeR,
    Pagos <- PagosR, PagoDe <- PagoDeR, Importe <- ImporteR, Cajeros <- NadieG,
    Barridos <- NadieG, Nadie <- Ninguna, Fallan <- FallanR, Cortan <- CortanR,
    MaxFallas <- 1, MaxCortes <- 1,
    cxc <- rCxc, reg <- rReg, notas <- rNotas, salida <- rSalida, aFavor <- rFavor,
    libro <- rLibro, pc <- rPc, obj <- rObj, leido <- rLeido, fallas <- rFallas,
    cortes <- rCortes

\* What may fail in a request and in the script, which reverses without failing.
FallaL == {"mirar", "contra", "marcar", "reparar", "buscar", "postear", "quitar"}
FallaS == {"buscar", "postear"}
\* Nothing reversed, half reversed, reversed and not posted.
CortanL == {"mirar", "marcar", "buscar"}

\* Two requests cross over an expense, one of them perhaps a reversal by hand.
LC == INSTANCE Libro WITH
    Gastos <- DocumentosG, Peticiones <- AdminsN, Scripts <- NadieG, Nadie <- Ninguna,
    FallaPeticion <- FallaL, FallaScript <- NadieG, Cortan <- CortanL, MaxVersion <- 2,
    MaxAMano <- 2, MaxFallas <- 1, MaxCortes <- 0,
    gasto <- lGasto, asientos <- lAsientos, marcados <- lMarcados, banco <- lBanco,
    pend <- lPend, pc <- lPc, leido <- lLeido, alDia <- lAlDia, fallas <- lFallas, cortes <- lCortes

\* A request that edits twice beside the script, with two failures and a lost process.
LS == INSTANCE Libro WITH
    Gastos <- DocumentosG, Peticiones <- UsuariosG, Scripts <- BarridosT, Nadie <- Ninguna,
    FallaPeticion <- FallaL, FallaScript <- FallaS, Cortan <- CortanL, MaxVersion <- 3,
    MaxAMano <- 0, MaxFallas <- 2, MaxCortes <- 1,
    gasto <- lGasto, asientos <- lAsientos, marcados <- lMarcados, banco <- lBanco,
    pend <- lPend, pc <- lPc, leido <- lLeido, alDia <- lAlDia, fallas <- lFallas, cortes <- lCortes

\* The parts of the warehouse.
Almacen == {"produccion", "bodega", "compra", "plataforma", "anual"}
oVars == <<vars, nVars, tVars, gVars, rVars, lVars>>

\* The variables of a part a behaviour is not about.
NNada ==
    /\ nDed = 0 /\ nCorrida = 0 /\ nLibro = 0 /\ nPc = 0 /\ nLeido = 0
    /\ nCortes = 0
TNada ==
    /\ tDoc = 0 /\ tBloqueo = 0 /\ tBucket = 0 /\ tFirmas = 0 /\ tTransito = 0
    /\ tDian = 0 /\ tEntregado = 0 /\ tPc = 0 /\ tLeido = 0 /\ tPerdidas = 0
    /\ tCortes = 0
GNada ==
    /\ gDia = 0 /\ gSub = 0 /\ gEmpresa = 0 /\ gPagos = 0 /\ gAvances = 0
    /\ gPc = 0 /\ gLeido = 0 /\ gFallas = 0 /\ gCortes = 0
RNada ==
    /\ rCxc = 0 /\ rReg = 0 /\ rNotas = 0 /\ rSalida = 0 /\ rFavor = 0
    /\ rLibro = 0 /\ rPc = 0 /\ rObj = 0 /\ rLeido = 0 /\ rFallas = 0
    /\ rCortes = 0
LNada ==
    /\ lGasto = 0 /\ lAsientos = 0 /\ lMarcados = 0 /\ lBanco = 0 /\ lPend = 0
    /\ lPc = 0 /\ lLeido = 0 /\ lAlDia = 0 /\ lFallas = 0 /\ lCortes = 0

\* Each part with its own initial state; the properties of the balance are asked of all.
OperacionInit ==
    /\ Init
    /\ parte \in {"saldo", "nomina", "consumos", "dian", "avisos", "barridos", "altas", "documentos",
                  "descuento",
                  "descuentos", "asientos", "reconstruccion"} \cup Almacen
    /\ CASE parte = "nomina" -> N!Init
         [] parte = "consumos" -> ND!Init
         [] OTHER -> NNada
    /\ IF parte = "dian" THEN T!Init ELSE TNada
    /\ CASE parte = "avisos" -> GW!Init
         [] parte = "barridos" -> GB!Init
         [] parte = "altas" -> GA!Init
         [] parte = "documentos" -> GD!Init
         [] OTHER -> GNada
    /\ CASE parte = "descuento" -> RC!Init
         [] parte = "descuentos" -> RD!Init
         [] OTHER -> RNada
    /\ CASE parte = "asientos" -> LC!Init
         [] parte = "reconstruccion" -> LS!Init
         [] OTHER -> LNada
    /\ IF parte \in Almacen THEN AlmacenInit(parte) ELSE WNada
OficinaNext ==
    \/ parte = "saldo" /\ Next /\ UNCHANGED <<nVars, tVars, gVars, rVars, lVars>>
    \/ parte = "nomina" /\ N!Next /\ UNCHANGED <<vars, tVars, gVars, rVars, lVars>>
    \/ parte = "consumos" /\ ND!Next /\ UNCHANGED <<vars, tVars, gVars, rVars, lVars>>
    \/ parte = "dian" /\ T!Next /\ UNCHANGED <<vars, nVars, gVars, rVars, lVars>>
    \/ parte = "avisos" /\ GW!Next /\ UNCHANGED <<vars, nVars, tVars, rVars, lVars>>
    \/ parte = "barridos" /\ GB!Next /\ UNCHANGED <<vars, nVars, tVars, rVars, lVars>>
    \/ parte = "altas" /\ GA!Next /\ UNCHANGED <<vars, nVars, tVars, rVars, lVars>>
    \/ parte = "documentos" /\ GD!Next /\ UNCHANGED <<vars, nVars, tVars, rVars, lVars>>
    \/ parte = "descuento" /\ RC!Next /\ UNCHANGED <<vars, nVars, tVars, gVars, lVars>>
    \/ parte = "descuentos" /\ RD!Next /\ UNCHANGED <<vars, nVars, tVars, gVars, lVars>>
    \/ parte = "asientos" /\ LC!Next /\ UNCHANGED <<vars, nVars, tVars, gVars, rVars>>
    \/ parte = "reconstruccion" /\ LS!Next /\ UNCHANGED <<vars, nVars, tVars, gVars, rVars>>
OperacionNext ==
    /\ \/ OficinaNext /\ UNCHANGED wVars
       \/ AlmacenNext(parte) /\ UNCHANGED oVars
    /\ UNCHANGED parte
OperacionSpec == OperacionInit /\ [][OperacionNext]_<<parte, oVars, wVars>>
Simetria == Permutations(AdminsN)

-----------------------------------------------------------------------------
\* What a component promises is asked of the behaviours that are about it: in the others
\* its variables do not move.

\* The types of them all.
TiposTodos ==
    CASE parte = "saldo" -> TypeOK
      [] parte = "nomina" -> N!TypeOK
      [] parte = "consumos" -> ND!TypeOK
      [] parte = "dian" -> T!Supuestos /\ T!TypeOK
      [] parte = "avisos" -> GW!Supuestos /\ GW!TypeOK
      [] parte = "barridos" -> GB!Supuestos /\ GB!TypeOK
      [] parte = "altas" -> GA!Supuestos /\ GA!TypeOK
      [] parte = "documentos" -> GD!Supuestos /\ GD!TypeOK
      [] parte = "descuento" -> RC!Supuestos /\ RC!TypeOK
      [] parte = "descuentos" -> RD!Supuestos /\ RD!TypeOK
      [] parte = "asientos" -> LC!TypeOK
      [] parte = "reconstruccion" -> LS!TypeOK
      [] OTHER -> AlmacenTipos(parte)

\* What a closed run discounted is tied to it, is not discounted by another run
\* and is what its entry says; a negative net is carried over once; and the sale of
\* a discounted consumption is not voided (Nomina).
CerradaCuadra ==
    CASE parte = "nomina" ->
           /\ N!CerradaCuadra /\ N!NoSeDescuentaDosVeces /\ N!LibroSegunColillas
           /\ N!SaldoSeArrastra /\ N!AnuladaNoSeDescuenta
      [] parte = "consumos" ->
           /\ ND!CerradaCuadra /\ ND!NoSeDescuentaDosVeces /\ ND!LibroSegunColillas
           /\ ND!SaldoSeArrastra /\ ND!AnuladaNoSeDescuenta
      [] OTHER -> TRUE

\* What was sent is recorded as sent, only the authority accepts or rejects, one
\* transmission is under way at a time, and the XML kept and delivered is the
\* validated one (TransmisionDian).
VeredictoDeLaDian ==
    parte = "dian" =>
        /\ T!EnviadoQuedaRegistrado /\ T!VeredictoDeLaDian /\ T!UnoTransmite
        /\ T!XmlEsElValidado

\* Each charge the bank took is applied once, no period is charged twice, and who has
\* paid a period uses it, but for the want of retries and what the sweep read before
\* (Suscripcion).
CobradoSeUsa ==
    parte \in {"avisos", "barridos", "altas", "documentos"}
        => GW!CadaCobroUnPeriodo /\ GW!PagadoSeUsa

\* A later discount is given once and in full, or leaves nothing (NotaSinReferencia).
DescuentoCuadra ==
    CASE parte = "descuento" -> RC!DescuentoCuadra /\ RC!RetiradoNoDeja /\ RC!UnTurno
      [] parte = "descuentos" -> RD!DescuentoCuadra /\ RD!RetiradoNoDeja /\ RD!UnTurno
      [] OTHER -> TRUE

\* An expense counts once in the ledger, and whoever works on it alone leaves its entry
\* up to date or a pending reconciliation (Libro).
UnSoloEfecto == parte \in {"asientos", "reconstruccion"} => LC!UnSoloEfecto
LibroAlDia ==
    CASE parte = "asientos" -> LC!LibroAlDia
      [] parte = "reconstruccion" -> LS!LibroAlDia
      [] OTHER -> TRUE

\* The lots are the stock, an order produces once, and the inventory is worth what its
\* ledger says (Existencias).
ExistenciasCuadran ==
    CASE parte = "produccion" -> EP!LotesCuadran /\ EP!ProduceUnaVez /\ EP!ValorSegunLibro
      [] parte = "bodega" -> EM!LotesCuadran /\ EM!ProduceUnaVez /\ EM!ValorSegunLibro
      [] OTHER -> TRUE

\* The goods of a purchase enter once, and what is owed and posted is what came in
\* (Recepcion).
CompraCuadra == parte = "compra" => RP!LlegoYSeDebe /\ RP!EstadoNoAdelanta

\* An order of a platform is collected once, and none is held for ever (Liquidacion).
PlataformaCuadra == parte = "plataforma" => PL!CobradoUnaVez /\ PL!NadaQuedaPreso

\* Each closing takes its year and no other, and carries over what it took (CierreAnual).
AnioCuadra == parte = "anual" => CA!CadaAnioLoSuyo /\ CA!TrasladoSegunCierre
=============================================================================
