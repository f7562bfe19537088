SPECIFICATION CobrosSpec
CONSTANTS
    r1 = r1  r2 = r2  r3 = r3  k1 = k1  v1 = v1
    Nadie = Nadie  SinLlave = SinLlave
    Llaves = {k1}
    Peticiones = {r1, r2, r3}
    LlaveDe <- DosYUna
    Cuanto <- UnaODos
    Medio <- ContadoYFiado
    Existencias = 2
    Anuladores = {v1}
    Lentas = FALSE
    Fallan <- FallosContado
    Cortan <- CortesSeguros
    MaxFallas = 1
    MaxCortes = 1
INVARIANTS TypeOK UnaVentaPorLlave CobroYAsiento LlaveExcluye RespuestaUnica StockRespaldado SinHuecos EnCadaEscenario
INVARIANTS EmisionCuadra OfflineCuadra MesaCuadra
PROPERTY CumplenPromesa
CHECK_DEADLOCK FALSE
