SPECIFICATION Spec
CONSTANTS
    c1 = c1  n1 = n1  a1 = a1  v1 = v1  Ninguna = Ninguna
    Consumos = {c1}
    Monto <- MontoDe
    Corridas = {n1}
    Periodo <- UnMes
    Admins = {a1}
    Anuladores = {v1}
    ConsumoDe <- VentaDe
    Salario = 4
    Cruces = FALSE
    EnMedio = TRUE
    Cortan = {}
    MaxCortes = 0
INVARIANT AnuladaNoSeDescuenta
CHECK_DEADLOCK FALSE
