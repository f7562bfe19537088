----------------------------- MODULE MCCobros -----------------------------
(******************************************************************************)
(* Four scenarios of CobroVenta, each with its own variables.  "contado"      *)
(* (the constants of the .cfg): a double click of a cash charge of one unit,  *)
(* a sale on credit of the two there are, and a void.  "saldo": the double    *)
(* click is charged to the balance in favour, nobody voids and more calls     *)
(* fail.  "lento": two sends of a cash charge that outlive their lock, and a  *)
(* void.  "anulado": the same with a charge to the balance, and other         *)
(* failures.  Two more are of Emision, the documents of the sales: "sedes"    *)
(* and "papel"; two of VentaOffline, "red" (sending) and "faltante" (what was *)
(* sold without stock); two of CuentaMesa, "partes" and "ronda".              *)
(******************************************************************************)
EXTENDS MCCobroVenta

VARIABLES
    escenario,
    candadoS, consecutivoS, numeroS, ventaS, stockS, netoS, pagoS, asientoS, respuestaS,
    pcS, objS, fallasS, cortesS,
    candadoL, consecutivoL, numeroL, ventaL, stockL, netoL, pagoL, asientoL, respuestaL,
    pcL, objL, fallasL, cortesL,
    candadoA, consecutivoA, numeroA, ventaA, stockA, netoA, pagoA, asientoA, respuestaA,
    pcA, objA, fallasA, cortesA,
    eResol, eSeq, eDocs, eCupo, eMes, ePc, eLeido, eFallas, eCortes,
    oTurno, oAbierto, oContador, oReserva, oNumero, oCandado, oVenta, oExistencias, oBandeja,
    oCerrojo, oSalida, oAsiento, oCruce, oPc, oLeido, oCompras, oFallas, oCortes,
    mCuenta, mAbierta, mVentas, mEnlazadas, mPisada, mPc, mLeido, mFallas

varsS == <<candadoS, consecutivoS, numeroS, ventaS, stockS, netoS, pagoS, asientoS, respuestaS,
    pcS, objS, fallasS, cortesS>>
varsL == <<candadoL, consecutivoL, numeroL, ventaL, stockL, netoL, pagoL, asientoL, respuestaL,
    pcL, objL, fallasL, cortesL>>
varsA == <<candadoA, consecutivoA, numeroA, ventaA, stockA, netoA, pagoA, asientoA, respuestaA,
    pcA, objA, fallasA, cortesA>>
varsE == <<eResol, eSeq, eDocs, eCupo, eMes, ePc, eLeido, eFallas, eCortes>>
varsO == <<oTurno, oAbierto, oContador, oReserva, oNumero, oCandado, oVenta, oExistencias,
    oBandeja, oCerrojo, oSalida, oAsiento, oCruce, oPc, oLeido, oCompras, oFallas, oCortes>>
varsM == <<mCuenta, mAbierta, mVentas, mEnlazadas, mPisada, mPc, mLeido, mFallas>>

UnaODos == [p \in Peticiones |-> IF p = r3 THEN 2 ELSE 1]
FallosContado == {"vender", "cxc", "asentar", "soltar", "creditoV", "stockV"}
SinAnuladores == {}

Saldo == INSTANCE CobroVenta WITH
    Medio <- SaldoYFiado, Fallan <- FallosSeguros, MaxFallas <- 2, Anuladores <- SinAnuladores,
    candado <- candadoS, consecutivo <- consecutivoS, numero <- numeroS, venta <- ventaS,
    stock <- stockS, neto <- netoS, pago <- pagoS, asiento <- asientoS,
    respuesta <- respuestaS, pc <- pcS, obj <- objS, fallas <- fallasS, cortes <- cortesS

DosEnvios == {r1, r2}
LlaveComun == [p \in DosEnvios |-> k1]
UnaCadaUno == [p \in DosEnvios |-> 1]
TodoContado == [p \in DosEnvios |-> "contado"]

Lento == INSTANCE CobroVenta WITH
    Peticiones <- DosEnvios, LlaveDe <- LlaveComun, Cuanto <- UnaCadaUno,
    Medio <- TodoContado, Lentas <- TRUE, Fallan <- FallosSeguros,
    candado <- candadoL, consecutivo <- consecutivoL, numero <- numeroL, venta <- ventaL, stock <- stockL,
    neto <- netoL, pago <- pagoL, asiento <- asientoL, respuesta <- respuestaL, pc <- pcL,
    obj <- objL, fallas <- fallasL, cortes <- cortesL

TodoSaldo == [p \in DosEnvios |-> "saldo"]
Anulado == INSTANCE CobroVenta WITH
    Peticiones <- DosEnvios, LlaveDe <- LlaveComun, Cuanto <- UnaCadaUno,
    Medio <- TodoSaldo, Lentas <- TRUE, Fallan <- FallosCobro, Cortan <- CortesCobro,
    candado <- candadoA, consecutivo <- consecutivoA, numero <- numeroA, venta <- ventaA,
    stock <- stockA, neto <- netoA, pago <- pagoA, asiento <- asientoA,
    respuesta <- respuestaA, pc <- pcA, obj <- objA, fallas <- fallasA, cortes <- cortesA

\* The POS document and the invoice of the first sale, the POS document of another
\* sale by a second sede with the same prefix, a credit note, and the renewal of the
\* first sede's resolution; a month of one document and three credits.
DocsE == {"pos", "factura", "otraSede", "nota"}
TipoE == [p \in DocsE |-> CASE p = "factura" -> "invoice" [] p = "nota" -> "nota" [] OTHER -> "pos"]
VentaE == [p \in DocsE |-> IF p = "otraSede" THEN "v2" ELSE "v1"]
OrigenE == [p \in DocsE |-> "void"]
ConFolio == [p \in DocsE |-> 0]
SerieE == [p \in DocsE |-> p]
PrefijoE == [s \in DocsE |-> IF s = "otraSede" THEN "pos" ELSE s]
RangoE == [s \in DocsE |-> [desde |-> 1, hasta |-> IF s = "nota" THEN 0 ELSE 3]]
RenovacionesE == {"renueva"}
RangoNuevoE == [r \in RenovacionesE |-> [serie |-> "pos", desde |-> 2, hasta |-> 4]]
NadieE == {}
Sedes == INSTANCE Emision WITH
    Peticiones <- DocsE, Tipo <- TipoE, VentaDe <- VentaE, Origen <- OrigenE,
    Contingencia <- NadieE, Papel <- ConFolio, SerieDe <- SerieE, Series <- DocsE,
    Prefijo <- PrefijoE, Rango <- RangoE, Renovaciones <- RenovacionesE,
    RangoNuevo <- RangoNuevoE, Base <- 1, Creditos <- 3, Fallan <- {"guardar", "auditar"},
    Cortan <- NadieE, MaxMes <- 1, MaxFallas <- 1, MaxCortes <- 0,
    resol <- eResol, seq <- eSeq, docs <- eDocs, cupo <- eCupo, mes <- eMes, pc <- ePc,
    leido <- eLeido, fallas <- eFallas, cortes <- eCortes

\* Two sales written on paper, with one number by mistake, and two requests for the
\* note of one void; a month that ends, and one credit.
DocsP == {"papel1", "papel2", "nota1", "nota2"}
PapelesP == {"papel1", "papel2"}
TipoP == [p \in DocsP |-> IF p \in PapelesP THEN "pos" ELSE "nota"]
VentaP == [p \in DocsP |-> IF p = "papel2" THEN "v2" ELSE "v1"]
OrigenP == [p \in DocsP |-> "void"]
NumeroP == [p \in DocsP |-> IF p \in PapelesP THEN 1 ELSE 0]
SerieP == [p \in DocsP |-> IF p \in PapelesP THEN "contingencia" ELSE "nota"]
SeriesP == {"contingencia", "nota"}
PrefijoP == [s \in SeriesP |-> s]
RangoP == [s \in SeriesP |-> IF s = "nota" THEN [desde |-> 1, hasta |-> 0]
                                           ELSE [desde |-> 2, hasta |-> 3]]
SinRango == [r \in NadieE |-> 0]
EnPapel == INSTANCE Emision WITH
    Peticiones <- DocsP, Tipo <- TipoP, VentaDe <- VentaP, Origen <- OrigenP,
    Contingencia <- PapelesP, Papel <- NumeroP, SerieDe <- SerieP, Series <- SeriesP,
    Prefijo <- PrefijoP, Rango <- RangoP, Renovaciones <- NadieE, RangoNuevo <- SinRango,
    Base <- 1, Creditos <- 1, Fallan <- {"guardar", "auditar"}, Cortan <- {"auditar"},
    MaxMes <- 2, MaxFallas <- 1, MaxCortes <- 1,
    resol <- eResol, seq <- eSeq, docs <- eDocs, cupo <- eCupo, mes <- eMes, pc <- ePc,
    leido <- eLeido, fallas <- eFallas, cortes <- eCortes

\* Two sales of one terminal with one number by mistake; the first is sent twice, the
\* second time into the open shift; a lost process, and claims that outlive their time.
VentasO == {"vale1", "vale2"}
EnviosO == {"envio1", "envio2", "otro"}
VentaDeO == [e \in EnviosO |-> IF e = "otro" THEN "vale2" ELSE "vale1"]
CuantoO == [u \in VentasO |-> IF u = "vale1" THEN 2 ELSE 1]
UnaTerminal == {"terminal"}
SuTerminal == [u \in VentasO |-> "terminal"]
Red == INSTANCE VentaOffline WITH
    Ventas <- VentasO, Cuanto <- CuantoO, Terminales <- UnaTerminal, TerminalDe <- SuTerminal,
    Bloque <- 1, Envios <- EnviosO, Autorizan <- NadieE, PidenTurno <- {"envio2"},
    Regularizadores <- NadieE, Anuladores <- NadieE, VentaDe <- VentaDeO, Lentas <- EnviosO,
    Existencias <- 2, Fallan <- {"insertar"}, Cortan <- {"insertar", "marcar", "revisar"},
    MaxTurnos <- 2, MaxCompras <- 0, MaxFallas <- 1, MaxCortes <- 1,
    turno <- oTurno, abierto <- oAbierto, contador <- oContador, reserva <- oReserva,
    numero <- oNumero, candado <- oCandado, venta <- oVenta, existencias <- oExistencias,
    bandeja <- oBandeja, cerrojo <- oCerrojo, salida <- oSalida, asiento <- oAsiento,
    cruce <- oCruce, pc <- oPc, leido <- oLeido, compras <- oCompras, fallas <- oFallas,
    cortes <- oCortes

\* A sale of two units with one in stock, refused, then registered as charged; two
\* requests for the missing unit, a purchase and a void, with two lost processes.
UnValeF == {"vale1"}
CuantoF == [u \in UnValeF |-> 2]
SuTerminalF == [u \in UnValeF |-> "terminal"]
EnviosF == {"envio1", "autoriza"}
RegularizanF == {"reg1", "reg2"}
AnulanF == {"anula"}
VentaDeF == [a \in EnviosF \cup RegularizanF \cup AnulanF |-> "vale1"]
CortanF == {"insertar", "cerrojo", "marcarC", "consumir", "volver", "marcarA", "asentar",
            "marcarR", "abrirCerrojo"}
Faltante == INSTANCE VentaOffline WITH
    Ventas <- UnValeF, Cuanto <- CuantoF, Terminales <- UnaTerminal, TerminalDe <- SuTerminalF,
    Bloque <- 1, Envios <- EnviosF, Autorizan <- {"autoriza"}, PidenTurno <- NadieE,
    Regularizadores <- RegularizanF, Anuladores <- AnulanF, VentaDe <- VentaDeF,
    Lentas <- EnviosF, Existencias <- 1, Fallan <- {"insertar", "asentar", "reversar"},
    Cortan <- CortanF, MaxTurnos <- 1, MaxCompras <- 1, MaxFallas <- 2, MaxCortes <- 2,
    turno <- oTurno, abierto <- oAbierto, contador <- oContador, reserva <- oReserva,
    numero <- oNumero, candado <- oCandado, venta <- oVenta, existencias <- oExistencias,
    bandeja <- oBandeja, cerrojo <- oCerrojo, salida <- oSalida, asiento <- oAsiento,
    cruce <- oCruce, pc <- oPc, leido <- oLeido, compras <- oCompras, fallas <- oFallas,
    cortes <- oCortes

\* A table that ordered two units of one product and one of another: two pay something
\* of their own and a third all that is left.
Carta == {"pizza", "cerveza"}
PedidoM == [p \in Carta |-> IF p = "pizza" THEN 2 ELSE 1]
MeserosM == {"uno", "otro", "resto"}
PideM == [c \in MeserosM |-> [p \in Carta |->
    IF <<c, p>> \in {<<"uno", "pizza">>, <<"otro", "cerveza">>} THEN 1 ELSE 0]]
Partes == INSTANCE CuentaMesa WITH
    Productos <- Carta, Pedido <- PedidoM, Cobros <- MeserosM, Pide <- PideM,
    Ediciones <- NadieE, Edita <- SinRango, Anuladores <- {"anula"}, Cierres <- {"cierra"},
    Fallan <- {"vender"}, MaxFallas <- 1,
    cuenta <- mCuenta, abierta <- mAbierta, ventas <- mVentas, enlazadas <- mEnlazadas,
    pisada <- mPisada, pc <- mPc, leido <- mLeido, fallas <- mFallas

\* Two of them, while the table orders another round and sends one back.
DosMeseros == {"uno", "resto"}
PideR == [c \in DosMeseros |-> PideM[c]]
RondaM == {"ronda", "devuelve"}
EditaM == [m \in RondaM |-> [p \in Carta |->
    IF p = "cerveza" THEN 1 ELSE IF m = "ronda" THEN 3 ELSE 1]]
Ronda == INSTANCE CuentaMesa WITH
    Productos <- Carta, Pedido <- PedidoM, Cobros <- DosMeseros, Pide <- PideR,
    Ediciones <- RondaM, Edita <- EditaM, Anuladores <- NadieE, Cierres <- NadieE,
    Fallan <- {"vender"}, MaxFallas <- 1,
    cuenta <- mCuenta, abierta <- mAbierta, ventas <- mVentas, enlazadas <- mEnlazadas,
    pisada <- mPisada, pc <- mPc, leido <- mLeido, fallas <- mFallas

DeCobro == {"contado", "saldo", "lento", "anulado"}
CobrosInit ==
    /\ Init /\ Saldo!Init /\ Lento!Init /\ Anulado!Init
    /\ \/ escenario \in DeCobro \cup {"sedes"} /\ Sedes!Init /\ Red!Init /\ Partes!Init
       \/ escenario = "papel" /\ EnPapel!Init /\ Red!Init /\ Partes!Init
       \/ escenario = "red" /\ Sedes!Init /\ Red!Init /\ Partes!Init
       \/ escenario = "faltante" /\ Sedes!Init /\ Faltante!Init /\ Partes!Init
       \/ escenario = "partes" /\ Sedes!Init /\ Red!Init /\ Partes!Init
       \/ escenario = "ronda" /\ Sedes!Init /\ Red!Init /\ Ronda!Init
otras == <<varsE, varsO, varsM>>
base == <<vars, varsS, varsL, varsA>>
CobrosNext ==
    \/ escenario = "contado" /\ Next /\ UNCHANGED <<escenario, varsS, varsL, varsA, otras>>
    \/ escenario = "saldo" /\ Saldo!Next /\ UNCHANGED <<escenario, vars, varsL, varsA, otras>>
    \/ escenario = "lento" /\ Lento!Next /\ UNCHANGED <<escenario, vars, varsS, varsA, otras>>
    \/ escenario = "anulado" /\ Anulado!Next /\ UNCHANGED <<escenario, vars, varsS, varsL, otras>>
    \/ escenario = "sedes" /\ Sedes!Next /\ UNCHANGED <<escenario, base, varsO, varsM>>
    \/ escenario = "papel" /\ EnPapel!Next /\ UNCHANGED <<escenario, base, varsO, varsM>>
    \/ escenario = "red" /\ Red!Next /\ UNCHANGED <<escenario, base, varsE, varsM>>
    \/ escenario = "faltante" /\ Faltante!Next /\ UNCHANGED <<escenario, base, varsE, varsM>>
    \/ escenario = "partes" /\ Partes!Next /\ UNCHANGED <<escenario, base, varsE, varsO>>
    \/ escenario = "ronda" /\ Ronda!Next /\ UNCHANGED <<escenario, base, varsE, varsO>>
CobrosSpec == CobrosInit /\ [][CobrosNext]_<<escenario, base, otras>>

\* The steps of both implement the atomic promise, with the charge in cash and
\* with the balance (CobroVenta).
CumplenPromesa == CumplePromesa /\ Saldo!CumplePromesa

\* What the base scenario cannot show (CobroVenta): a rejected charge to the
\* balance gives its units back; a duplicate of a slow charge does too and is
\* answered with the same sale; a slow charge to the balance that is voided is
\* taken and accounted only with its sale; and a key has one sale though its lock
\* is taken from a live request.  And the types of the other modules.
EnCadaEscenario ==
    CASE escenario = "saldo" -> Saldo!StockRespaldado
      [] escenario = "lento" ->
            Lento!StockRespaldado /\ Lento!RespuestaUnica /\ Lento!UnaVentaPorLlave
      [] escenario = "anulado" -> Anulado!CobroYAsiento /\ Anulado!UnaVentaPorLlave
      [] escenario = "sedes" -> Sedes!Supuestos /\ Sedes!TypeOK
      [] escenario = "papel" -> EnPapel!Supuestos /\ EnPapel!TypeOK
      [] escenario = "red" -> Red!Supuestos /\ Red!TypeOK
      [] escenario = "faltante" -> Faltante!Supuestos /\ Faltante!TypeOK
      [] escenario = "partes" -> Partes!Supuestos /\ Partes!TypeOK
      [] escenario = "ronda" -> Ronda!Supuestos /\ Ronda!TypeOK
      [] OTHER -> TRUE

\* A sale has one fiscal document and an operation one note, nobody is left without a
\* number, and what the plan's quota and the credits have charged is what was
\* issued (Emision).
EmisionCuadra ==
    CASE escenario = "papel" -> EnPapel!UnDocumentoPorVenta /\ EnPapel!NadieSinNumero
                                  /\ EnPapel!CupoCuadra
      [] escenario = "sedes" -> Sedes!UnDocumentoPorVenta /\ Sedes!NadieSinNumero
                                  /\ Sedes!CupoCuadra
      [] OTHER -> TRUE

\* What was charged without network takes its stock once, its missing units leave once
\* and are not voided besides (VentaOffline).
OfflineCuadra ==
    CASE escenario = "red" -> Red!StockCuadra
      [] escenario = "faltante" -> Faltante!StockCuadra /\ Faltante!FaltanteUnaVez
                                     /\ Faltante!AnuladaOSalida
      [] OTHER -> TRUE

\* An account charged in parts is charged once, unless a charge failed or the account
\* was edited under another charge (CuentaMesa).
MesaCuadra ==
    CASE escenario = "partes" -> Partes!CuentaCuadra /\ Partes!CerradaPagada /\ Partes!SoloFallasPisan
      [] escenario = "ronda" -> Ronda!CuentaCuadra /\ Ronda!CerradaPagada /\ Ronda!SoloFallasPisan
      [] OTHER -> TRUE
=============================================================================
