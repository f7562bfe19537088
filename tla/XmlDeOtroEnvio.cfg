SPECIFICATION Spec
CONSTANTS
    u1 = u1  b1 = b1  Nadie = Nadie
    Usuarios = {u1}
    Barridos = {b1}
    Produccion = TRUE
    Fallas = {"red"}
    Cortan = {}
    MaxFirmas = 2
    MaxPerdidas = 4
    MaxCortes = 0
INVARIANT XmlEsElValidado
CHECK_DEADLOCK FALSE
