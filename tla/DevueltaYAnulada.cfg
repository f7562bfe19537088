SPECIFICATION Spec
CONSTANTS
    k1 = k1  k2 = k2  c1 = c1  c2 = c2  c3 = c3
    j1 = j1  b1 = b1  v1 = v1  v2 = v2
    Nadie = Nadie
    Ops = {k1}
    Clase <- UnaRebaja
    Cuanto <- DeADos
    Medio <- Mixto
    Clientes = {c1}
    OpDe <- Pide
    Cajeros = {}
    Barridos = {b1}
    Anuladores = {v1}
    Vendido = 2
    Pagado = 3
    PagadoConSaldo = 1
    Cortan <- Revision
    MaxCortes = 1
    MaxFallas = 0
INVARIANT AnuladaODevuelta
CHECK_DEADLOCK FALSE
