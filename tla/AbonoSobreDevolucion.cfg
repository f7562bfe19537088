SPECIFICATION Spec
CONSTANTS
    p1 = p1  d1 = d1  Nadie = Nadie
    Pagos = {p1}
    Importe <- DeADos
    Devoluciones = {d1}
    Devuelto <- DeADosDevueltos
    Reanudadores = {}
    Anuladores = {}
    Total = 3
    FallaRevertir = FALSE
    Cortan = {}
    MaxCortes = 0
    MaxFallas = 0
INVARIANT AbonadoNoExcede
CHECK_DEADLOCK FALSE
