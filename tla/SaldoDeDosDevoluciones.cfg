SPECIFICATION Spec
CONSTANTS
    k1 = k1  k2 = k2  c1 = c1  c2 = c2  c3 = c3
    j1 = j1  b1 = b1  v1 = v1  v2 = v2
    Nadie = Nadie
    Ops = {k1, k2}
    Clase <- SoloDevoluciones
    Cuanto <- DeAUno
    Medio <- Mixto
    Clientes = {c1, c2}
    OpDe <- Pide
    Cajeros = {}
    Barridos = {b1}
    Anuladores = {v1}
    Vendido = 2
    Pagado = 3
    PagadoConSaldo = 1
    Cortan = {}
    MaxCortes = 0
    MaxFallas = 0
INVARIANT SaldoHastaLoPagado
CHECK_DEADLOCK FALSE
