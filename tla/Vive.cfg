SPECIFICATION FairSpec
CONSTANTS
    a1 = a1  a2 = a2  v1 = v1  b1 = b1  c1 = c1  c3 = c3  k1 = k1  r1 = r1  r2 = r2  p1 = p1  u1 = u1
    Nadie = Nadie  SinLlave = SinLlave
PROPERTIES AbonoHechoLlega VaradaTermina SeResponde AjusteTermina EnVueloTermina
CHECK_DEADLOCK FALSE
