SPECIFICATION Spec
CONSTANTS
    u1 = u1  u2 = u2  c1 = c1  c2 = c2  b1 = b1  Nadie = Nadie
    Altas = {u1, u2}
    Compras = {}
    Cancelaciones = {c1, c2}
    Barridos = {b1}
    Avisos = {}
    Ciclo = 2
    MaxReintentos = 2
    BancoLento = FALSE
    Cruces = FALSE
    Fallan = {}
    Cortan = {}
    MaxDia = 4
    MaxPagos = 2
    MaxFallas = 0
    MaxCortes = 0
INVARIANT RetiradaEsSuspendida
CHECK_DEADLOCK FALSE
