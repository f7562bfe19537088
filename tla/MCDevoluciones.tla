--------------------------- MODULE MCDevoluciones ---------------------------
(*****************************************************************************)
(* Two scenarios of DevolucionVenta and two of Cartera, each with its own    *)
(* variables.  "rebaja" (the constants of the .cfg): a return in cash, a     *)
(* later rebate and two voids.  "dos": two returns that do not fit together, *)
(* a double click of the first one's key and a cashier.  "fiada": the sale   *)
(* was on credit; two payments, a return of more than is owed, a void, and a *)
(* lost process.  "fiadaDos": a payment, a void and two returns that give    *)
(* the whole credit back.                                                    *)
(*****************************************************************************)
EXTENDS MCDevolucionVenta

VARIABLES
    escenario, venta2, reg2, pc2, obj2, temp2, entradas2, salidas2, abonado2, anulado2,
    fallas2, cortes2

vars2 == <<venta2, reg2, pc2, obj2, temp2, entradas2, salidas2, abonado2, anulado2,
    fallas2, cortes2>>

TresClientes == {c1, c2, c3}
PideDos == [c \in TresClientes |-> IF c = c2 THEN k2 ELSE k1]
UnCajero == {j1}
Ninguno == {}

Dos == INSTANCE DevolucionVenta WITH
    Clase <- SoloDevoluciones, Cuanto <- UnoYDos, Clientes <- TresClientes, OpDe <- PideDos,
    Cajeros <- UnCajero, Barridos <- Ninguno, Anuladores <- Ninguno,
    venta <- venta2, reg <- reg2, pc <- pc2, obj <- obj2, temp <- temp2,
    entradas <- entradas2, salidas <- salidas2, abonado <- abonado2, anulado <- anulado2,
    fallas <- fallas2, cortes <- cortes2

VARIABLES
    fCxc, fReg, fVenta, fPc, fObj, fLeido, fAsentado, fFiado, fFallas, fCortes,
    gCxc, gReg, gVenta, gPc, gObj, gLeido, gAsentado, gFiado, gFallas, gCortes

fVars == <<fCxc, fReg, fVenta, fPc, fObj, fLeido, fAsentado, fFiado, fFallas, fCortes>>
gVars == <<gCxc, gReg, gVenta, gPc, gObj, gLeido, gAsentado, gFiado, gFallas, gCortes>>

PagosF == {c1, c2}
ImporteF == [p \in PagosF |-> IF p = c1 THEN 1 ELSE 2]
DevolucionesF == {k1}
DevueltoF == [d \in DevolucionesF |-> 4]
ReanudadoresF == {b1}
AnuladoresF == {j1}
\* Not at "revisar", where a cut is the finding of DevueltaYAnulada.
CortesF == {"escribirPago", "asentar", "crear", "leer", "escribir", "guardar", "nota",
    "revertir", "revertir2", "borrar", "completar"}
Fiada == INSTANCE Cartera WITH
    Pagos <- PagosF, Importe <- ImporteF, Devoluciones <- DevolucionesF,
    Devuelto <- DevueltoF, Reanudadores <- ReanudadoresF, Anuladores <- AnuladoresF,
    Total <- 3, FallaRevertir <- FALSE, Cortan <- CortesF, MaxCortes <- 1, MaxFallas <- 1,
    cxc <- fCxc, reg <- fReg, venta <- fVenta, pc <- fPc, obj <- fObj, leido <- fLeido,
    asentado <- fAsentado, fiado <- fFiado, fallas <- fFallas, cortes <- fCortes

PagosG == {c2}
ImporteG == [p \in PagosG |-> 2]
DevolucionesG == {k1, k2}
DevueltoG == [d \in DevolucionesG |-> IF d = k1 THEN 2 ELSE 1]
FiadaDos == INSTANCE Cartera WITH
    Pagos <- PagosG, Importe <- ImporteG, Devoluciones <- DevolucionesG,
    Devuelto <- DevueltoG, Reanudadores <- ReanudadoresF, Anuladores <- AnuladoresF,
    Total <- 3, FallaRevertir <- FALSE, Cortan <- Ninguno, MaxCortes <- 0, MaxFallas <- 1,
    cxc <- gCxc, reg <- gReg, venta <- gVenta, pc <- gPc, obj <- gObj, leido <- gLeido,
    asentado <- gAsentado, fiado <- gFiado, fallas <- gFallas, cortes <- gCortes

TodasInit ==
    /\ Init /\ Dos!Init /\ Fiada!Init /\ FiadaDos!Init
    /\ escenario \in {"rebaja", "dos", "fiada", "fiadaDos"}
TodasNext ==
    \/ escenario = "rebaja" /\ Next /\ UNCHANGED <<escenario, vars2, fVars, gVars>>
    \/ escenario = "dos" /\ Dos!Next /\ UNCHANGED <<escenario, vars, fVars, gVars>>
    \/ escenario = "fiada" /\ Fiada!Next /\ UNCHANGED <<escenario, vars, vars2, gVars>>
    \/ escenario = "fiadaDos" /\ FiadaDos!Next /\ UNCHANGED <<escenario, vars, vars2, fVars>>
TodasSpec == TodasInit /\ [][TodasNext]_<<escenario, vars, vars2, fVars, gVars>>

-----------------------------------------------------------------------------
\* The types of the four, and what the theorems on Cartera suppose of its constants.
TiposTodos ==
    /\ TypeOK /\ Dos!TypeOK
    /\ Fiada!Supuestos /\ Fiada!TypeOK /\ FiadaDos!Supuestos /\ FiadaDos!TypeOK

\* Two returns at once, a repeated request and a cashier: no more comes back than
\* was sold, one at a time completes a return, and a completed one moved all it
\* says, whoever completed it (DevolucionVenta).
DosCompletan ==
    Dos!NoVuelveMasDeLoVendido /\ Dos!TurnoExclusivo /\ Dos!CompletaMovioTodo

\* No payment is lost or posted twice, between payments, returns and a void (Cartera).
AbonosCompletos == Fiada!AbonosCompletos /\ FiadaDos!AbonosCompletos

\* However often it is cut and resumed, a return lowers the debt once, by what its
\* record says, also beside another return that withdraws; a voided sale leaves no
\* debt and no payment, and an undone void keeps both (Cartera).
DeudaCuadra ==
    /\ Fiada!AjusteSegunRegistro /\ FiadaDos!AjusteSegunRegistro
    /\ Fiada!AnuladaSinDeuda /\ FiadaDos!AnuladaSinDeuda
=============================================================================
