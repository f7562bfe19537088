------------------------------ MODULE MCVive ------------------------------
(***************************************************************************)
(* What was promised ends although processes are lost: the liveness of the *)
(* components, each with its own variables.  `parte` picks the component a *)
(* behaviour is about; the others stay at their initial state.             *)
(***************************************************************************)
EXTENDS Naturals
CONSTANTS a1, a2, v1, b1, c1, c3, k1, r1, r2, p1, u1, Nadie, SinLlave

VARIABLES
    parte,
    sSaldo, sMov, sVenta, sPc, sBlanco, sLista, sRespuesta, sVeces, sFallas, sCortes,
    dVenta, dReg, dPc, dObj, dTemp, dEntradas, dSalidas, dAbonado, dAnulado, dFallas, dCortes,
    cCandado, cConsecutivo, cNumero, cVenta, cStock, cNeto, cPago, cAsiento, cRespuesta,
    cPc, cObj, cFallas, cCortes,
    aCxc, aReg, aVenta, aPc, aObj, aLeido, aAsentado, aFiado, aFallas, aCortes,
    tDoc, tBloqueo, tBucket, tFirmas, tTransito, tDian, tEntregado, tPc, tLeido,
    tPerdidas, tCortes

sVars == <<sSaldo, sMov, sVenta, sPc, sBlanco, sLista, sRespuesta, sVeces, sFallas, sCortes>>
dVars == <<dVenta, dReg, dPc, dObj, dTemp, dEntradas, dSalidas, dAbonado, dAnulado, dFallas,
           dCortes>>
cVars == <<cCandado, cConsecutivo, cNumero, cVenta, cStock, cNeto, cPago, cAsiento, cRespuesta,
           cPc, cObj, cFallas, cCortes>>
aVars == <<aCxc, aReg, aVenta, aPc, aObj, aLeido, aAsentado, aFiado, aFallas, aCortes>>
tVars == <<tDoc, tBloqueo, tBucket, tFirmas, tTransito, tDian, tEntregado, tPc, tLeido,
           tPerdidas, tCortes>>
vars == <<parte, sVars, dVars, cVars, aVars, tVars>>

AbonosS == {a1, a2}
VentasS == {v1}
BarridosS == {b1}
AnonimosS == {a2}
MontoS == [o \in {a1, a2, v1} |-> 1]
OpsD == {k1}
ClaseD == [k \in {k1} |-> "devolucion"]
CuantoD == [k \in {k1} |-> 2]
MedioD == [k \in {k1} |-> "cash"]
ClientesD == {c1}
OpDeD == [c \in {c1} |-> k1]
CajerosD == {}
PetC == {r1, r2}
LlaveC == [p \in {r1, r2} |-> k1]
CuantoC == [p \in {r1, r2} |-> 1]
MedioC == [p \in {r1, r2} |-> "saldo"]
CortesSaldo == {"buscar", "reservar", "reclamar", "soltar", "borrar"}
PasosSaldo == CortesSaldo \cup {"mover", "desmarcar"}

\* Two credits, one of a sale without a customer, a sale and the sweep; a failure of
\* any step, and two processes lost anywhere but between the claim of a movement and
\* the balance, or the claim undone: a credit lost there is answered as done by its
\* retry and nobody moves the balance (only the report shows it, as its difference).
S == INSTANCE SaldoFavor WITH
    Abonos <- AbonosS, Ventas <- VentasS, Barridos <- BarridosS, Anonimos <- AnonimosS,
    Monto <- MontoS,
    Fallan <- PasosSaldo, Cortan <- CortesSaldo, MaxFallas <- 1, MaxCortes <- 2,
    saldo <- sSaldo, mov <- sMov, venta <- sVenta, pc <- sPc, blanco <- sBlanco,
    lista <- sLista, respuesta <- sRespuesta, veces <- sVeces, fallas <- sFallas,
    cortes <- sCortes

PasosD == {"buscar", "leer", "crear", "revisarEstado", "revisarSuma", "nota",
    "dividir", "guardar", "retirar", "tomar", "dividirC", "guardarC", "notaC", "stock",
    "marcaStock", "caja", "marcaCaja", "libro", "marcaLibro", "cerrar", "soltar",
    "flip", "recontar", "deshacer", "notaV", "stockV", "libroV", "saldoV", "cajaV"}
PasosC == {"previa", "candado", "robar", "ganadora", "revisar", "validar", "vender",
    "numerar", "persistir", "consumir", "deshacer", "cxc", "asentar", "compensar",
    "compensarDup", "buscarGanadora", "soltar", "flip", "creditoV", "stockV",
    "restaurarV", "deshacerV", "libroV", "saldoV"}

\* A double click of a return in cash, a void and the sweep; any cut or refusal.
D == INSTANCE DevolucionVenta WITH
    Ops <- OpsD, Clase <- ClaseD, Cuanto <- CuantoD,
    Medio <- MedioD, Clientes <- ClientesD, OpDe <- OpDeD,
    Cajeros <- CajerosD, Barridos <- BarridosS, Anuladores <- VentasS, Vendido <- 2, Pagado <- 3,
    PagadoConSaldo <- 1, Cortan <- PasosD, MaxCortes <- 2, MaxFallas <- 1,
    venta <- dVenta, reg <- dReg, pc <- dPc, obj <- dObj, temp <- dTemp,
    entradas <- dEntradas, salidas <- dSalidas, abonado <- dAbonado, anulado <- dAnulado,
    fallas <- dFallas, cortes <- dCortes

\* Two slow sends of a charge to the balance and a void; any cut or failure.
C == INSTANCE CobroVenta WITH
    Peticiones <- PetC, Llaves <- OpsD, LlaveDe <- LlaveC,
    Cuanto <- CuantoC, Medio <- MedioC,
    Existencias <- 2, Anuladores <- CajerosD, Lentas <- TRUE, Fallan <- PasosC, Cortan <- PasosC,
    MaxFallas <- 1, MaxCortes <- 2,
    candado <- cCandado, consecutivo <- cConsecutivo, numero <- cNumero, venta <- cVenta,
    stock <- cStock, neto <- cNeto, pago <- cPago, asiento <- cAsiento,
    respuesta <- cRespuesta, pc <- cPc, obj <- cObj, fallas <- cFallas, cortes <- cCortes

PagosA == {p1}
ImporteA == [p \in PagosA |-> 2]
DevueltoA == [k \in OpsD |-> 2]
PasosA == {"crear", "revisar", "leer", "escribir", "guardar", "nota", "revertir",
    "revertir2", "borrar", "completar"}

\* A return of a sale on credit, a payment and the sweep; any cut, a refused note and
\* the debt not given back after it.
A == INSTANCE Cartera WITH
    Pagos <- PagosA, Importe <- ImporteA, Devoluciones <- OpsD, Devuelto <- DevueltoA,
    Reanudadores <- BarridosS, Anuladores <- CajerosD, Total <- 3,
    FallaRevertir <- TRUE, Cortan <- PasosA, MaxCortes <- 2, MaxFallas <- 2,
    cxc <- aCxc, reg <- aReg, venta <- aVenta, pc <- aPc, obj <- aObj, leido <- aLeido,
    asentado <- aAsentado, fiado <- aFiado, fallas <- aFallas, cortes <- aCortes

UsuariosT == {u1}
PasosT == {"tomar", "firmar", "firmado", "marcar", "enviar", "consultar", "declarar",
    "reemplazar", "declarada", "restaurar", "guardar", "entregar", "soltar"}

\* A document a user sends and the cron sends again; a process lost anywhere and
\* up to four requests or answers, also those of the contingency.
T == INSTANCE TransmisionDian WITH
    Usuarios <- UsuariosT, Barridos <- BarridosS, Produccion <- TRUE,
    Fallas <- {"red", "bucket", "corte", "tarde"}, Cortan <- PasosT, MaxFirmas <- 2,
    MaxPerdidas <- 4, MaxCortes <- 1,
    doc <- tDoc, bloqueo <- tBloqueo, bucket <- tBucket, firmas <- tFirmas,
    transito <- tTransito, dian <- tDian, entregado <- tEntregado, pc <- tPc,
    leido <- tLeido, perdidas <- tPerdidas, cortes <- tCortes

Init ==
    /\ parte \in {"saldo", "devolucion", "cobro", "cartera", "dian"}
    /\ S!Init /\ D!Init /\ C!Init /\ A!Init /\ T!Init

EnSaldo == parte = "saldo" /\ UNCHANGED <<parte, dVars, cVars, aVars, tVars>>
EnDevolucion == parte = "devolucion" /\ UNCHANGED <<parte, sVars, cVars, aVars, tVars>>
EnCobro == parte = "cobro" /\ UNCHANGED <<parte, sVars, dVars, aVars, tVars>>
EnCartera == parte = "cartera" /\ UNCHANGED <<parte, sVars, dVars, cVars, tVars>>
EnDian == parte = "dian" /\ UNCHANGED <<parte, sVars, dVars, cVars, aVars>>

Next ==
    \/ EnSaldo /\ S!Next
    \/ EnDevolucion /\ D!Next
    \/ EnCobro /\ C!Next
    \/ EnCartera /\ A!Next
    \/ EnDian /\ T!Next

(* The fairness of each component: requests in flight go on, clients told to *)
(* wait retry, the cron keeps sweeping.                                      *)
FairSpec ==
    /\ Init /\ [][Next]_vars
    /\ \A m \in S!Mov : WF_sVars(EnSaldo /\ S!Peticion(m))
    /\ WF_sVars(EnSaldo /\ S!Barrido(b1))
    /\ \A p \in D!Registradores : WF_dVars(EnDevolucion /\ D!Sigue(p))
    /\ WF_dVars(EnDevolucion /\ D!BarrerVarada(b1))
    /\ WF_dVars(EnDevolucion /\ D!Anula(v1))
    /\ \A p \in {r1, r2} :
         /\ WF_cVars(EnCobro /\ C!Sigue(p))
         /\ WF_cVars(EnCobro /\ cRespuesta[p] = "en_proceso" /\ C!Pedir(p))
    /\ WF_cVars(EnCobro /\ C!Envejece(k1))
    /\ WF_aVars(EnCartera /\ (A!Crear(k1) \/ A!Revisar(k1) \/ A!Devuelve(k1)))
    /\ WF_aVars(EnCartera /\ (A!Reanudar(b1) \/ A!Devuelve(b1)))
    /\ \A a \in {u1, b1} : WF_tVars(EnDian /\ T!Sigue(a))
    /\ WF_tVars(EnDian /\ T!Barrer(b1))

\* A credit answered as done reaches the balance (SaldoFavor).
AbonoHechoLlega == S!AbonoHechoLlega

\* A return in course ends (DevolucionVenta).
VaradaTermina == D!VaradaTermina

\* A charge told to wait is answered in the end (CobroVenta).
SeResponde == C!SeResponde

\* The return of a sale on credit ends (Cartera).
AjusteTermina == A!AjusteTermina

\* A document in flight or in contingency gets its verdict (TransmisionDian).
EnVueloTermina == T!EnVueloTermina
=============================================================================
