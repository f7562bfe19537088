SPECIFICATION Spec
CONSTANTS
    r1 = r1  r2 = r2  r3 = r3  k1 = k1  v1 = v1
    Nadie = Nadie  SinLlave = SinLlave
    Llaves = {k1}
    Peticiones = {r1, r2}
    LlaveDe <- Todas
    Cuanto <- DeAUno
    Medio <- ConSaldo
    Existencias = 2
    Anuladores = {}
    Lentas = FALSE
    Fallan <- SinSaldo
    Cortan = {}
    MaxFallas = 1
    MaxCortes = 0
INVARIANT RespuestaUnica
CHECK_DEADLOCK FALSE
