SPECIFICATION OperacionSpec
CONSTANTS
    a1 = a1  a2 = a2  v1 = v1  v2 = v2  b1 = b1  b2 = b2
    n1 = n1  n3 = n3  s1 = s1  u1 = u1  t1 = t1  d1 = d1  c1 = c1  w1 = w1  Ninguna = Ninguna
    Abonos = {a1}
    Ventas = {v1, v2}
    Barridos = {b1, b2}
    Anonimos = {}
    Monto <- MontoUno
    Fallan <- TodosLosPasos
    Cortan <- TodosLosPasos
    MaxFallas = 1
    MaxCortes = 1
INVARIANTS TiposTodos EfectoUnico SaldoCuadra CerradaCuadra VeredictoDeLaDian
INVARIANTS CobradoSeUsa DescuentoCuadra UnSoloEfecto LibroAlDia
INVARIANTS ExistenciasCuadran CompraCuadra PlataformaCuadra AnioCuadra
PROPERTY CumplePromesa
SYMMETRY Simetria
CHECK_DEADLOCK FALSE
