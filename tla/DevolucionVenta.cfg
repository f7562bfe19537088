SPECIFICATION TodasSpec
CONSTANTS
    k1 = k1  k2 = k2  c1 = c1  c2 = c2  c3 = c3
    j1 = j1  b1 = b1  v1 = v1  v2 = v2
    Nadie = Nadie
    Ops = {k1, k2}
    Clase <- UnaRebaja
    Cuanto <- DeADos
    Medio <- Mixto
    Clientes = {c1, c2}
    OpDe <- Pide
    Cajeros = {}
    Barridos = {b1}
    Anuladores = {v1, v2}
    Vendido = 2
    Pagado = 3
    PagadoConSaldo = 1
    Cortan <- CortesSeguros
    MaxCortes = 1
    MaxFallas = 1
INVARIANTS TiposTodos AnuladaODevuelta NadaVuelveDeMas AnuladaFueReversada TurnoExclusivo DosCompletan AbonosCompletos DeudaCuadra
PROPERTY LoMovidoNoSeBorra
SYMMETRY Simetria
CHECK_DEADLOCK FALSE
