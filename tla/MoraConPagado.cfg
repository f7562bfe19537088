SPECIFICATION Spec
CONSTANTS
    u1 = u1  u2 = u2  c1 = c1  c2 = c2  b1 = b1
    Nadie = Nadie
    Altas = {u1, u2}
    Compras = {}
    Cancelaciones = {}
    Barridos = {b1}
    Avisos = {}
    Ciclo = 3
    MaxReintentos = 2
    BancoLento = FALSE
    Cruces = FALSE
    Fallan = {}
    Cortan = {}
    MaxDia = 5
    MaxPagos = 4
    MaxFallas = 0
    MaxCortes = 0
INVARIANT MoraSinPagado
CHECK_DEADLOCK FALSE
