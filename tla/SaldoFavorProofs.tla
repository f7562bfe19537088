------------------------- MODULE SaldoFavorProofs -------------------------
(****************************************************************************)
(* For any number of credits, sales and sweeps, any failures and any cuts:  *)
(* a movement moves the balance at most once, the balance is never negative *)
(* and differs from its auxiliary by the movements half done, and the       *)
(* service implements the atomic promise of SaldoFavorPromesa.              *)
(* And, for any payments, sweeps, webhooks and days of Suscripcion: what    *)
(* the bank approved is applied once.                                       *)
(****************************************************************************)
EXTENDS SaldoFavor, Sequences, Sumas, TLAPS

USE SaldoAssumption

\* The actor holds the claim of its movement: nobody else may apply it.
Reclamado(p) == pc[p] \in {"mover", "desmarcar"}

\* The movement is in the hands of the request that reserved it.
EnSusManos(m) == pc[m] \in {"reclamar", "mover", "desmarcar", "soltar"}

\* A claimed movement is marked and has not moved the balance yet.
ReclamoFresco ==
    \A p \in Actores : Reclamado(p) => mov[Obj(p)] = "aplicado" /\ veces[Obj(p)] = 0

\* No two actors hold the same claim.
ReclamoUnico ==
    \A p, q \in Actores : p # q /\ Reclamado(p) /\ Reclamado(q) => Obj(p) # Obj(q)

\* While a request holds its movement no sweep knows of it.
SinBarridoEncima ==
    \A m \in Mov : EnSusManos(m) =>
        \A b \in Barridos : m \notin lista[b] /\ (pc[b] # "libre" => blanco[b] # m)

\* What a request still works on is in the auxiliary and has moved nothing.
EnManosSinEfecto ==
    \A m \in Mov : pc[m] \in {"reclamar", "soltar"} => mov[m] # "no" /\ veces[m] = 0

\* A movement a sweep knows of exists.
BarridoConocido ==
    \A b \in Barridos :
        /\ \A m \in lista[b] : mov[m] # "no"
        /\ pc[b] # "libre" => mov[blanco[b]] # "no"

PasosBarrido == \A b \in Barridos : pc[b] \in {"libre", "reclamar", "mover", "desmarcar"}

IInv ==
    /\ TypeOK
    /\ SaldoNoNegativo
    /\ EfectoUnico
    /\ ReclamoFresco
    /\ ReclamoUnico
    /\ SinBarridoEncima
    /\ EnManosSinEfecto
    /\ BarridoConocido
    /\ PasosBarrido

-----------------------------------------------------------------------------
\* Types of the operators the steps are built from.
LEMMA Tipos ==
    /\ \A m \in Mov : Signo(m) \in Int
    /\ TypeOK => \A p \in Actores : Obj(p) \in Mov
    /\ \A m \in Mov : Obj(m) = m
    /\ \A b \in Barridos : Obj(b) = blanco[b]
<1>1. \A m \in Mov : m[2] \in Abonos \cup Ventas
  BY DEF Mov
<1>2. \A m \in Mov : Signo(m) \in Int
  BY <1>1 DEF Signo
<1> QED
  BY <1>2 DEF TypeOK, Obj, Actores

LEMMA Inicial == Init => IInv
<1> SUFFICES ASSUME Init PROVE IInv
  OBVIOUS
<1>1. (CHOOSE m \in Mov : TRUE) \in Mov
  <2>1. PICK a \in Abonos : TRUE
    OBVIOUS
  <2>2. <<"abono", a>> \in Mov
    BY <2>1 DEF Mov
  <2> QED
    BY <2>2
<1>2. TypeOK
  BY <1>1 DEF Init, TypeOK, Pasos
<1>3. \A p \in Actores : pc[p] = "libre"
  BY DEF Init
<1>4. \A m \in Mov : pc[m] = "libre"
  BY <1>3 DEF Actores
<1>5. SaldoNoNegativo /\ EfectoUnico
  BY DEF Init, SaldoNoNegativo, EfectoUnico
<1>6. ReclamoFresco /\ ReclamoUnico
  BY <1>3 DEF ReclamoFresco, ReclamoUnico, Reclamado
<1>7. SinBarridoEncima /\ EnManosSinEfecto
  BY <1>4 DEF SinBarridoEncima, EnManosSinEfecto, EnSusManos
<1>8. BarridoConocido /\ PasosBarrido
  BY <1>3 DEF Init, Actores, BarridoConocido, PasosBarrido
<1> QED
  BY <1>2, <1>5, <1>6, <1>7, <1>8 DEF IInv

-----------------------------------------------------------------------------
\* Types: every step keeps the type invariant.
LEMMA TiposPaso == TypeOK /\ [Next]_vars => TypeOK'
<1> SUFFICES ASSUME TypeOK, [Next]_vars PROVE TypeOK'
  OBVIOUS
<1> USE DEF TypeOK
<1>1. Mov \subseteq Actores /\ Barridos \subseteq Actores
  BY DEF Actores
<1>2. \A s \in Ventas : Consumo(s) \in Mov /\ Reverso(s) \in Mov
  BY DEF Consumo, Reverso, Mov
<1>3. \A p \in Actores : Obj(p) \in Mov
  BY Tipos
<1>4. ASSUME NEW m \in Mov, PedirAbono(m) PROVE TypeOK'
  BY <1>1, <1>4 DEF PedirAbono, Pasos
<1>5. ASSUME NEW s \in Ventas, Verificar(s) \/ PedirConsumo(s) \/ PedirReverso(s)
      PROVE TypeOK'
  BY <1>1, <1>2, <1>5 DEF Verificar, PedirConsumo, PedirReverso, Pasos
<1>6. ASSUME NEW m \in Mov, BuscarConsumo(m) PROVE TypeOK'
  BY <1>1, <1>6 DEF BuscarConsumo, Pasos, Falla, Responde
<1>7. ASSUME NEW m \in Mov, Reservar(m) PROVE TypeOK'
  BY <1>1, <1>7 DEF Reservar, Pasos, Falla, Responde
<1>8. ASSUME NEW p \in Actores, Reclamar(p) PROVE TypeOK'
  BY <1>1, <1>3, <1>8, SMTT(30) DEF Reclamar, Pasos, Falla, Devuelve, Responde
<1>9. ASSUME NEW p \in Actores, Mover(p) PROVE TypeOK'
  <2>1. saldo' \in Int
    BY <1>3, <1>9, Tipos DEF Mover
  <2> QED
    BY <2>1, <1>1, <1>3, <1>9 DEF Mover, Pasos, Falla, Devuelve, Responde
<1>10. ASSUME NEW p \in Actores, Desmarcar(p) PROVE TypeOK'
  BY <1>1, <1>3, <1>10 DEF Desmarcar, Pasos, Falla, Devuelve, Responde
<1>11. ASSUME NEW m \in Mov, Soltar(m) PROVE TypeOK'
  BY <1>1, <1>11 DEF Soltar, Pasos, Falla, Responde
<1>12. ASSUME NEW m \in Mov, BorrarVenta(m) PROVE TypeOK'
  BY <1>1, <1>12 DEF BorrarVenta, Pasos, Falla
<1>13. ASSUME NEW b \in Barridos, BarridoLee(b) PROVE TypeOK'
  BY <1>1, <1>13 DEF BarridoLee
<1>14. ASSUME NEW b \in Barridos, BarridoSigue(b) PROVE TypeOK'
  BY <1>1, <1>14 DEF BarridoSigue, Pasos
<1>15. ASSUME NEW p \in Actores, Corte(p) PROVE TypeOK'
  BY <1>1, <1>15 DEF Corte, Pasos
<1>16. CASE UNCHANGED vars
  BY <1>16 DEF vars
<1> QED
  BY <1>1, <1>4, <1>5, <1>6, <1>7, <1>8, <1>9, <1>10, <1>11, <1>12, <1>13, <1>14,
     <1>15, <1>16 DEF Next, Peticion, Barrido, Aplicar

\* The balance with every value of the constants is well typed.
THEOREM TiposSiempre == Spec => []TypeOK
<1>1. Init => TypeOK
  BY Inicial DEF IInv
<1> QED
  BY <1>1, TiposPaso, PTL DEF Spec

-----------------------------------------------------------------------------
\* Every action keeps the inductive invariant.
LEMMA PasoInv == IInv /\ [Next]_vars => IInv'
<1> SUFFICES ASSUME IInv, [Next]_vars PROVE IInv'
  OBVIOUS
<1>t. TypeOK /\ TypeOK'
  BY TiposPaso DEF IInv
<1>a. /\ Mov \subseteq Actores /\ Barridos \subseteq Actores
      /\ \A p \in Actores : p \in Mov \/ p \in Barridos
      /\ \A b \in Barridos : b \notin Mov
  BY DEF Actores
<1>o. /\ \A p \in Actores : Obj(p) \in Mov
      /\ \A m \in Mov : Obj(m) = m
      /\ \A b \in Barridos : Obj(b) = blanco[b]
      /\ (blanco' = blanco => \A p \in Actores : Obj(p)' = Obj(p))
  BY <1>t, Tipos DEF Obj
<1>c. \A s \in Ventas : Consumo(s) \in Mov /\ Reverso(s) \in Mov
  BY DEF Consumo, Reverso, Mov
<1> DEFINE Vivo == SaldoNoNegativo' /\ EfectoUnico' /\ ReclamoFresco' /\ ReclamoUnico'
                    /\ SinBarridoEncima' /\ EnManosSinEfecto' /\ BarridoConocido' /\ PasosBarrido'
<1> SUFFICES Vivo
  BY <1>t DEF IInv
<1> USE <1>t, <1>a, <1>o DEF IInv, TypeOK
<1>1. ASSUME NEW m \in Mov, PedirAbono(m) PROVE Vivo
  BY <1>1, <1>c DEF PedirAbono,
         SaldoNoNegativo, EfectoUnico, ReclamoFresco, Reclamado, ReclamoUnico,
         SinBarridoEncima, EnSusManos, EnManosSinEfecto, BarridoConocido, PasosBarrido
<1>2. ASSUME NEW s \in Ventas, Verificar(s) PROVE Vivo
  BY <1>2, <1>c DEF Verificar,
         SaldoNoNegativo, EfectoUnico, ReclamoFresco, Reclamado, ReclamoUnico,
         SinBarridoEncima, EnSusManos, EnManosSinEfecto, BarridoConocido, PasosBarrido
<1>3. ASSUME NEW s \in Ventas, PedirConsumo(s) PROVE Vivo
  BY <1>3, <1>c DEF PedirConsumo,
         SaldoNoNegativo, EfectoUnico, ReclamoFresco, Reclamado, ReclamoUnico,
         SinBarridoEncima, EnSusManos, EnManosSinEfecto, BarridoConocido, PasosBarrido
<1>4. ASSUME NEW s \in Ventas, PedirReverso(s) PROVE Vivo
  BY <1>4, <1>c DEF PedirReverso,
         SaldoNoNegativo, EfectoUnico, ReclamoFresco, Reclamado, ReclamoUnico,
         SinBarridoEncima, EnSusManos, EnManosSinEfecto, BarridoConocido, PasosBarrido
<1>5. ASSUME NEW m \in Mov, BuscarConsumo(m) PROVE Vivo
  BY <1>5, <1>c, SMTT(30) DEF BuscarConsumo, Falla, Responde,
         SaldoNoNegativo, EfectoUnico, ReclamoFresco, Reclamado, ReclamoUnico,
         SinBarridoEncima, EnSusManos, EnManosSinEfecto, BarridoConocido, PasosBarrido
<1>6. ASSUME NEW m \in Mov, Reservar(m) PROVE Vivo
  <2>0. /\ pc[m] = "reservar" /\ UNCHANGED <<saldo, blanco, lista, veces>>
        /\ pc' = [pc EXCEPT ![m] = pc'[m]]
        /\ pc'[m] \in {"libre", "borrar", "reclamar"}
    BY <1>6 DEF Reservar, Falla, Responde
  <2>1. CASE mov' = mov /\ pc'[m] # "reclamar"
    BY <2>0, <2>1, SMTT(30) DEF SaldoNoNegativo, EfectoUnico, ReclamoFresco, Reclamado, ReclamoUnico,
         SinBarridoEncima, EnSusManos, EnManosSinEfecto, BarridoConocido, PasosBarrido
  <2>2. CASE mov[m] = "no" /\ mov' = [mov EXCEPT ![m] = mov'[m]] /\ mov'[m] # "no"
    <3>1. veces[m] = 0
      BY <2>2, SMTT(30) DEF EfectoUnico
    <3>2. \A b \in Barridos : m \notin lista[b] /\ (pc[b] # "libre" => blanco[b] # m)
      BY <2>2 DEF BarridoConocido
    <3>3. \A p \in Actores : Reclamado(p) => Obj(p) # m
      BY <2>2 DEF ReclamoFresco
    <3>4. \A p \in Actores : Reclamado(p)' <=> Reclamado(p)
      BY <2>0 DEF Reclamado
    <3>5. ReclamoFresco' /\ ReclamoUnico'
      BY <2>0, <2>2, <3>3, <3>4 DEF ReclamoFresco, ReclamoUnico
    <3>6. SinBarridoEncima' /\ PasosBarrido'
      BY <2>0, <3>2 DEF SinBarridoEncima, EnSusManos, PasosBarrido
    <3>7. EnManosSinEfecto' /\ BarridoConocido'
      BY <2>0, <2>2, <3>1, <3>2 DEF EnManosSinEfecto, BarridoConocido
    <3>8. SaldoNoNegativo' /\ EfectoUnico'
      BY <2>0, <2>2, <3>1 DEF SaldoNoNegativo, EfectoUnico
    <3> QED
      BY <3>5, <3>6, <3>7, <3>8
  <2> QED
    BY <1>6, <2>1, <2>2 DEF Reservar, Falla, Responde
<1>7. ASSUME NEW p \in Actores, Reclamar(p) PROVE Vivo
  BY <1>7, <1>c, SMTT(30) DEF Reclamar, Falla, Responde, Devuelve,
         SaldoNoNegativo, EfectoUnico, ReclamoFresco, Reclamado, ReclamoUnico,
         SinBarridoEncima, EnSusManos, EnManosSinEfecto, BarridoConocido, PasosBarrido
<1>8. ASSUME NEW p \in Actores, Mover(p) PROVE Vivo
  BY <1>8, <1>c, SMTT(30) DEF Mover, Falla, Responde, Devuelve,
         SaldoNoNegativo, EfectoUnico, ReclamoFresco, Reclamado, ReclamoUnico,
         SinBarridoEncima, EnSusManos, EnManosSinEfecto, BarridoConocido, PasosBarrido
<1>9. ASSUME NEW p \in Actores, Desmarcar(p) PROVE Vivo
  BY <1>9, <1>c, SMTT(30) DEF Desmarcar, Falla, Responde, Devuelve,
         SaldoNoNegativo, EfectoUnico, ReclamoFresco, Reclamado, ReclamoUnico,
         SinBarridoEncima, EnSusManos, EnManosSinEfecto, BarridoConocido, PasosBarrido
<1>10. ASSUME NEW m \in Mov, Soltar(m) PROVE Vivo
  BY <1>10, <1>c DEF Soltar, Falla, Responde,
         SaldoNoNegativo, EfectoUnico, ReclamoFresco, Reclamado, ReclamoUnico,
         SinBarridoEncima, EnSusManos, EnManosSinEfecto, BarridoConocido, PasosBarrido
<1>11. ASSUME NEW m \in Mov, BorrarVenta(m) PROVE Vivo
  BY <1>11, <1>c DEF BorrarVenta, Falla,
         SaldoNoNegativo, EfectoUnico, ReclamoFresco, Reclamado, ReclamoUnico,
         SinBarridoEncima, EnSusManos, EnManosSinEfecto, BarridoConocido, PasosBarrido
<1>12. ASSUME NEW b \in Barridos, BarridoLee(b) PROVE Vivo
  BY <1>12, <1>c DEF BarridoLee, Varado,
         SaldoNoNegativo, EfectoUnico, ReclamoFresco, Reclamado, ReclamoUnico,
         SinBarridoEncima, EnSusManos, EnManosSinEfecto, BarridoConocido, PasosBarrido
<1>13. ASSUME NEW b \in Barridos, BarridoSigue(b) PROVE Vivo
  <2>1. PICK m \in lista[b] : blanco' = [blanco EXCEPT ![b] = m]
                             /\ lista' = [lista EXCEPT ![b] = @ \ {m}]
    BY <1>13 DEF BarridoSigue
  <2>2. /\ pc[b] = "libre" /\ pc' = [pc EXCEPT ![b] = "reclamar"]
        /\ UNCHANGED <<saldo, mov, veces>>
    BY <1>13 DEF BarridoSigue
  <2>3. \A p \in Actores : p # b => Obj(p)' = Obj(p)
    BY <2>1 DEF Obj
  <2>4. m \in Mov /\ mov[m] # "no" /\ ~EnSusManos(m)
    BY <2>1 DEF BarridoConocido, SinBarridoEncima
  <2>5. SaldoNoNegativo' /\ EfectoUnico' /\ EnManosSinEfecto' /\ PasosBarrido'
    BY <2>2 DEF SaldoNoNegativo, EfectoUnico, EnManosSinEfecto, PasosBarrido
  <2>6. ReclamoFresco' /\ ReclamoUnico'
    BY <2>2, <2>3 DEF ReclamoFresco, ReclamoUnico, Reclamado
  <2>7. SinBarridoEncima'
    BY <2>1, <2>2, <2>4 DEF SinBarridoEncima, EnSusManos
  <2>8. BarridoConocido'
    BY <2>1, <2>2, <2>4 DEF BarridoConocido
  <2> QED
    BY <2>5, <2>6, <2>7, <2>8
<1>14. ASSUME NEW p \in Actores, Corte(p) PROVE Vivo
  BY <1>14, <1>c DEF Corte,
         SaldoNoNegativo, EfectoUnico, ReclamoFresco, Reclamado, ReclamoUnico,
         SinBarridoEncima, EnSusManos, EnManosSinEfecto, BarridoConocido, PasosBarrido
<1>15. CASE UNCHANGED vars
  BY <1>15 DEF vars, SaldoNoNegativo, EfectoUnico, ReclamoFresco, Reclamado, ReclamoUnico,
         SinBarridoEncima, EnSusManos, EnManosSinEfecto, BarridoConocido, PasosBarrido
<1> QED
  BY <1>1, <1>2, <1>3, <1>4, <1>5, <1>6, <1>7, <1>8, <1>9, <1>10,
     <1>11, <1>12, <1>13, <1>14, <1>15 DEF Next, Peticion, Barrido, Aplicar

\* The inductive invariant holds along every behaviour of the service.
THEOREM InvarianteInductivo == Spec => []IInv
BY Inicial, PasoInv, PTL DEF Spec

\* Two charges at once never spend the same peso: the balance is never negative.
THEOREM NuncaNegativo == Spec => []SaldoNoNegativo
<1>1. IInv => SaldoNoNegativo
  BY DEF IInv
<1> QED
  BY <1>1, InvarianteInductivo, PTL

\* A movement moves the balance at most once and then stays in the auxiliary.
THEOREM UnEfectoPorMovimiento == Spec => []EfectoUnico
<1>1. IInv => EfectoUnico
  BY DEF IInv
<1> QED
  BY <1>1, InvarianteInductivo, PTL

-----------------------------------------------------------------------------
\* The steps implement the promise: Mover's success is Mueve, the rest stutters.
LEMMA PasoPromesa == IInv /\ [Next]_vars => [Promesa!Next]_<<saldo, Movidos>>
<1> SUFFICES ASSUME IInv, [Next]_vars PROVE Promesa!Next \/ UNCHANGED <<saldo, Movidos>>
  OBVIOUS
<1>1. ASSUME NEW p \in Actores, Mover(p), veces' # veces
      PROVE Promesa!Next
  <2> DEFINE m == Obj(p)
  <2>1. m \in Mov /\ veces[m] = 0
    BY <1>1, Tipos DEF IInv, TypeOK, ReclamoFresco, Reclamado, Mover
  <2>2. saldo + Signo(m) >= 0 /\ saldo' = saldo + Signo(m)
        /\ veces' = [veces EXCEPT ![m] = @ + 1]
    BY <1>1 DEF Mover
  <2>3. Movidos' = Movidos \cup {m}
    BY <2>1, <2>2 DEF Movidos, IInv, TypeOK
  <2>4. m \notin Movidos
    BY <2>1 DEF Movidos
  <2>5. Promesa!Mueve(m)
    BY <2>2, <2>3, <2>4 DEF Promesa!Mueve
  <2> QED
    BY <2>1, <2>5 DEF Promesa!Next
<1>2. ASSUME NEW p \in Actores, Mover(p), veces' = veces
      PROVE UNCHANGED <<saldo, Movidos>>
  <2>1. Obj(p) \in Mov
    BY Tipos DEF IInv
  <2>2. veces' # [veces EXCEPT ![Obj(p)] = @ + 1]
    BY <1>2, <2>1 DEF IInv, TypeOK
  <2>3. saldo' = saldo
    BY <1>2, <2>2 DEF Mover
  <2> QED
    BY <1>2, <2>3 DEF Movidos
<1>3. (saldo' = saldo /\ veces' = veces) => UNCHANGED <<saldo, Movidos>>
  BY DEF Movidos
<1>4. (\A p \in Actores : ~Mover(p)) => saldo' = saldo /\ veces' = veces
  <2> SUFFICES ASSUME \A p \in Actores : ~Mover(p) PROVE saldo' = saldo /\ veces' = veces
    OBVIOUS
  <2>1. Mov \subseteq Actores /\ Barridos \subseteq Actores
    BY DEF Actores
  <2> QED
    BY <2>1 DEF Next, Peticion, Barrido, Aplicar, vars, PedirAbono, Verificar, PedirConsumo,
         PedirReverso, BuscarConsumo, Reservar, Reclamar, Desmarcar, Soltar, BorrarVenta,
         BarridoLee, BarridoSigue, Corte
<1> QED
  BY <1>1, <1>2, <1>3, <1>4

\* Requests, retries, sweeps and cuts implement the atomic promise.
THEOREM ImplementaPromesa == Spec => CumplePromesa
<1>1. Init => Promesa!Init
  BY DEF Init, Promesa!Init, Movidos
<1> QED
  BY <1>1, InvarianteInductivo, PasoPromesa, PTL DEF Spec, CumplePromesa, Promesa!Spec

-----------------------------------------------------------------------------
\* A credit without a customer is written applied and never moves the balance:
\* no request claims it and no sweep finds it.
AnonimoQuieto ==
    \A m \in Mov : SinTercero(m) =>
        /\ mov[m] # "pendiente" /\ pc[m] \in {"libre", "reservar"} /\ veces[m] = 0
        /\ \A b \in Barridos : m \notin lista[b] /\ (pc[b] # "libre" => blanco[b] # m)

\* A sale is charged by one request, which reserves its movement for the first
\* time; it answers that it charged only after having moved the balance.
CargoUnico ==
    \A s \in Ventas :
        /\ venta[s] \in {"nueva", "verificada"} =>
              /\ mov[Consumo(s)] = "no" /\ pc[Consumo(s)] = "libre"
              /\ respuesta[Consumo(s)] = "ninguna"
        /\ pc[Consumo(s)] = "reservar" => mov[Consumo(s)] = "no"
        /\ pc[Consumo(s)] # "buscar"
        /\ respuesta[Consumo(s)] = "hecho" => veces[Consumo(s)] = 1

LEMMA PasoAnonimo == IInv /\ AnonimoQuieto /\ [Next]_vars => AnonimoQuieto'
<1> SUFFICES ASSUME IInv, AnonimoQuieto, [Next]_vars PROVE AnonimoQuieto'
  OBVIOUS
<1>t. TypeOK /\ TypeOK'
  BY TiposPaso DEF IInv
<1>a. /\ Mov \subseteq Actores /\ Barridos \subseteq Actores
      /\ \A p \in Actores : p \in Mov \/ p \in Barridos
      /\ \A b \in Barridos : b \notin Mov
  BY DEF Actores
<1>c. \A s \in Ventas : /\ Consumo(s) \in Mov /\ Reverso(s) \in Mov
                        /\ ~SinTercero(Consumo(s)) /\ ~SinTercero(Reverso(s))
  BY DEF Consumo, Reverso, Mov, SinTercero, Tipo
\* Nobody who claims or moves works on it.
<1>d. \A p \in Actores : pc[p] \in {"reclamar", "mover", "desmarcar"} => ~SinTercero(Obj(p))
  BY <1>t, <1>a, Tipos DEF AnonimoQuieto, TypeOK
<1>m. \A p \in Actores : Obj(p) \in Mov
  BY <1>t, Tipos
<1> USE <1>t, <1>a DEF TypeOK
<1>1. ASSUME NEW m \in Mov, PedirAbono(m) PROVE AnonimoQuieto'
  BY <1>1 DEF PedirAbono, AnonimoQuieto, SinTercero, Tipo
<1>2. ASSUME NEW s \in Ventas, Verificar(s) PROVE AnonimoQuieto'
  BY <1>2 DEF Verificar, AnonimoQuieto, SinTercero, Tipo
<1>3. ASSUME NEW s \in Ventas, PedirConsumo(s) PROVE AnonimoQuieto'
  BY <1>3, <1>c DEF PedirConsumo, AnonimoQuieto
<1>4. ASSUME NEW s \in Ventas, PedirReverso(s) PROVE AnonimoQuieto'
  BY <1>4, <1>c DEF PedirReverso, AnonimoQuieto
<1>5. ASSUME NEW m \in Mov, BuscarConsumo(m) PROVE AnonimoQuieto'
  BY <1>5 DEF BuscarConsumo, Falla, Responde, AnonimoQuieto
<1>6. ASSUME NEW m \in Mov, Reservar(m) PROVE AnonimoQuieto'
  <2>1. UNCHANGED <<blanco, lista, veces>> /\ pc' = [pc EXCEPT ![m] = pc'[m]]
        /\ mov' = [mov EXCEPT ![m] = mov'[m]]
    BY <1>6 DEF Reservar, Falla, Responde
  <2>2. SinTercero(m) => (mov'[m] = "pendiente" => mov[m] = "pendiente") /\ pc'[m] = "libre"
    BY <1>6 DEF Reservar, Falla, Responde, SinTercero
  <2>3. ASSUME NEW n \in Mov, SinTercero(n)
        PROVE  /\ mov'[n] # "pendiente" /\ pc'[n] \in {"libre", "reservar"} /\ veces'[n] = 0
               /\ \A b \in Barridos : n \notin lista'[b] /\ (pc'[b] # "libre" => blanco'[b] # n)
    BY <2>1, <2>2, <2>3 DEF AnonimoQuieto
  <2> QED
    BY <2>3 DEF AnonimoQuieto, SinTercero
<1>7. ASSUME NEW p \in Actores, NEW k \in Mov, Obj(p) = k, Reclamar(p) PROVE AnonimoQuieto'
  BY <1>7, <1>d DEF Reclamar, Devuelve, Falla, Responde, AnonimoQuieto
<1>8. ASSUME NEW p \in Actores, NEW k \in Mov, Obj(p) = k, Mover(p) PROVE AnonimoQuieto'
  BY <1>8, <1>d DEF Mover, Devuelve, Falla, Responde, AnonimoQuieto
<1>9. ASSUME NEW p \in Actores, NEW k \in Mov, Obj(p) = k, Desmarcar(p) PROVE AnonimoQuieto'
  BY <1>9, <1>d DEF Desmarcar, Devuelve, Falla, Responde, AnonimoQuieto
<1>10. ASSUME NEW m \in Mov, Soltar(m) PROVE AnonimoQuieto'
  BY <1>10 DEF Soltar, Falla, Responde, AnonimoQuieto
<1>11. ASSUME NEW m \in Mov, BorrarVenta(m) PROVE AnonimoQuieto'
  BY <1>11 DEF BorrarVenta, Falla, AnonimoQuieto
<1>12. ASSUME NEW b \in Barridos, BarridoLee(b) PROVE AnonimoQuieto'
  BY <1>12 DEF BarridoLee, Varado, AnonimoQuieto
<1>13. ASSUME NEW b \in Barridos, BarridoSigue(b) PROVE AnonimoQuieto'
  BY <1>13 DEF BarridoSigue, AnonimoQuieto
<1>14. ASSUME NEW p \in Actores, Corte(p) PROVE AnonimoQuieto'
  BY <1>14 DEF Corte, AnonimoQuieto
<1>15. CASE UNCHANGED vars
  BY <1>15 DEF vars, AnonimoQuieto
<1> QED
  BY <1>m, <1>1, <1>2, <1>3, <1>4, <1>5, <1>6, <1>7, <1>8, <1>9, <1>10,
     <1>11, <1>12, <1>13, <1>14, <1>15 DEF Next, Peticion, Barrido, Aplicar

LEMMA PasoCargo == IInv /\ CargoUnico /\ [Next]_vars => CargoUnico'
<1> SUFFICES ASSUME IInv, CargoUnico, [Next]_vars, NEW s \in Ventas
    PROVE /\ venta'[s] \in {"nueva", "verificada"} =>
                /\ mov'[Consumo(s)] = "no" /\ pc'[Consumo(s)] = "libre"
                /\ respuesta'[Consumo(s)] = "ninguna"
          /\ pc'[Consumo(s)] = "reservar" => mov'[Consumo(s)] = "no"
          /\ pc'[Consumo(s)] # "buscar"
          /\ respuesta'[Consumo(s)] = "hecho" => veces'[Consumo(s)] = 1
  BY DEF CargoUnico, Consumo
<1> DEFINE c == Consumo(s)
           Bien == /\ venta'[s] \in {"nueva", "verificada"} =>
                         mov'[c] = "no" /\ pc'[c] = "libre" /\ respuesta'[c] = "ninguna"
                   /\ pc'[c] = "reservar" => mov'[c] = "no"
                   /\ pc'[c] # "buscar"
                   /\ respuesta'[c] = "hecho" => veces'[c] = 1
<1> SUFFICES Bien
  OBVIOUS
<1>t. TypeOK /\ TypeOK'
  BY TiposPaso DEF IInv
<1>a. /\ Mov \subseteq Actores /\ Barridos \subseteq Actores
      /\ \A p \in Actores : p \in Mov \/ p \in Barridos
      /\ \A b \in Barridos : b \notin Mov
  BY DEF Actores
<1>c. /\ c \in Mov /\ Tipo(c) = "consumo" /\ c[2] = s
      /\ \A r \in Ventas : Consumo(r) = c => r = s
      /\ \A r \in Ventas : Reverso(r) # c /\ Reverso(r) \in Mov /\ Consumo(r) \in Mov
  BY DEF Consumo, Reverso, Mov, Tipo
<1>s. /\ venta[s] \in {"nueva", "verificada"} =>
               mov[c] = "no" /\ pc[c] = "libre" /\ respuesta[c] = "ninguna"
      /\ pc[c] = "reservar" => mov[c] = "no"
      /\ pc[c] # "buscar"
      /\ respuesta[c] = "hecho" => veces[c] = 1
  BY DEF CargoUnico
<1>m. /\ \A p \in Actores : Obj(p) \in Mov
      /\ \A m \in Mov : Obj(m) = m
  BY <1>t, Tipos
<1>i. /\ \A p \in Actores : Reclamado(p) => mov[Obj(p)] = "aplicado" /\ veces[Obj(p)] = 0
      /\ \A m \in Mov : veces[m] <= 1
      /\ \A b \in Barridos : pc[b] # "libre" => mov[blanco[b]] # "no"
  BY DEF IInv, ReclamoFresco, EfectoUnico, BarridoConocido
<1> HIDE DEF c
<1> USE <1>t, <1>a, <1>s DEF TypeOK
<1>1. ASSUME NEW m \in Mov, PedirAbono(m) PROVE Bien
  BY <1>1, <1>c DEF PedirAbono
<1>2. ASSUME NEW r \in Ventas, Verificar(r) PROVE Bien
  BY <1>2, <1>c DEF Verificar
<1>3. ASSUME NEW r \in Ventas, PedirConsumo(r) PROVE Bien
  <2>1. CASE r = s
    BY <1>3, <1>c, <2>1 DEF PedirConsumo, c
  <2>2. CASE r # s
    BY <1>3, <1>c, <2>2 DEF PedirConsumo
  <2> QED
    BY <2>1, <2>2
<1>4. ASSUME NEW r \in Ventas, PedirReverso(r) PROVE Bien
  BY <1>4, <1>c DEF PedirReverso
<1>5. ASSUME NEW m \in Mov, BuscarConsumo(m) PROVE Bien
  BY <1>5, <1>c DEF BuscarConsumo, Falla, Responde
<1>6. ASSUME NEW m \in Mov, Reservar(m) PROVE Bien
  <2>1. CASE m = c
    <3>1. mov[c] = "no" /\ ~SinTercero(c)
      BY <1>6, <1>c, <2>1 DEF Reservar, SinTercero
    <3> QED
      BY <1>6, <1>c, <2>1, <3>1 DEF Reservar, Falla, Responde
  <2>2. CASE m # c
    BY <1>6, <1>c, <2>2 DEF Reservar, Falla, Responde
  <2> QED
    BY <2>1, <2>2
<1>7. ASSUME NEW p \in Actores, NEW k \in Mov, Obj(p) = k, Reclamar(p) PROVE Bien
  BY <1>7, <1>c, <1>m DEF Reclamar, Devuelve, Falla, Responde
<1>8. ASSUME NEW p \in Actores, NEW k \in Mov, Obj(p) = k, Mover(p) PROVE Bien
  <2>1. Reclamado(p) /\ mov[k] = "aplicado" /\ veces[k] = 0
    BY <1>8, <1>i DEF Mover, Reclamado
  <2> QED
    BY <1>8, <1>c, <1>m, <2>1 DEF Mover, Devuelve, Falla, Responde
<1>9. ASSUME NEW p \in Actores, NEW k \in Mov, Obj(p) = k, Desmarcar(p) PROVE Bien
  <2>1. Reclamado(p) /\ mov[k] = "aplicado" /\ veces[k] = 0
    BY <1>9, <1>i DEF Desmarcar, Reclamado
  <2> QED
    BY <1>9, <1>c, <1>m, <2>1 DEF Desmarcar, Devuelve, Falla, Responde
<1>10. ASSUME NEW m \in Mov, Soltar(m) PROVE Bien
  BY <1>10, <1>c DEF Soltar, Falla, Responde
<1>11. ASSUME NEW m \in Mov, BorrarVenta(m) PROVE Bien
  BY <1>11, <1>c DEF BorrarVenta, Falla
<1>12. ASSUME NEW b \in Barridos, BarridoLee(b) \/ BarridoSigue(b) PROVE Bien
  BY <1>12, <1>c DEF BarridoLee, BarridoSigue
<1>13. ASSUME NEW p \in Actores, Corte(p) PROVE Bien
  BY <1>13, <1>c DEF Corte
<1>14. CASE UNCHANGED vars
  BY <1>14 DEF vars
<1> QED
  BY <1>m, <1>1, <1>2, <1>3, <1>4, <1>5, <1>6, <1>7, <1>8, <1>9, <1>10,
     <1>11, <1>12, <1>13, <1>14 DEF Next, Peticion, Barrido, Aplicar

-----------------------------------------------------------------------------
\* The balance is the sum of the movements that moved it.
SaldoEsLaSuma == saldo = Total(Movidos)

LEMMA MovFinito ==
    /\ IsFiniteSet(Mov)
    /\ \A m \in Mov : [n \in Mov |-> Signo(n)][m] \in Int
<1>1. IsFiniteSet({"abono"} \X Abonos)
  BY FS_Product, FS_Singleton
<1>2. IsFiniteSet({"consumo", "reverso"} \X Ventas)
  <2>1. IsFiniteSet({"consumo"} \cup {"reverso"})
    BY FS_Singleton, FS_Union
  <2>2. {"consumo"} \cup {"reverso"} = {"consumo", "reverso"}
    OBVIOUS
  <2> QED
    BY <2>1, <2>2, FS_Product
<1>3. IsFiniteSet(Mov)
  BY <1>1, <1>2, FS_Union DEF Mov
<1> QED
  BY <1>3, Tipos

\* A step of the promise adds its movement to the sum; the rest leave it alone.
LEMMA PasoSuma ==
    IInv /\ SaldoEsLaSuma /\ [Next]_vars => SaldoEsLaSuma'
<1> SUFFICES ASSUME IInv, SaldoEsLaSuma, [Next]_vars PROVE SaldoEsLaSuma'
  OBVIOUS
<1>1. CASE UNCHANGED <<saldo, Movidos>>
  BY <1>1 DEF SaldoEsLaSuma, Total
<1>2. CASE Promesa!Next
  <2> DEFINE f == [n \in Mov |-> Signo(n)]
  <2>1. PICK m \in Mov : /\ m \notin Movidos /\ Movidos' = Movidos \cup {m}
                         /\ saldo' = saldo + Signo(m)
    BY <1>2 DEF Promesa!Next, Promesa!Mueve
  <2>2. f[m] = Signo(m) /\ Signo(m) \in Int /\ saldo \in Int
    BY Tipos DEF IInv, TypeOK
  <2>3. /\ IsFiniteSet(Movidos') /\ m \in Movidos' /\ Movidos' \ {m} = Movidos
        /\ \A x \in Movidos' : f[x] \in Int
    BY <2>1, MovFinito, FS_Subset DEF Movidos
  <2> HIDE DEF f
  <2>4. SumFunctionOnSet(f, Movidos') = f[m] + SumFunctionOnSet(f, Movidos' \ {m})
    BY <2>3, SumaQuita
  <2>5. saldo = SumFunctionOnSet(f, Movidos)
    BY DEF SaldoEsLaSuma, Total, f
  <2>6. saldo' = SumFunctionOnSet(f, Movidos')
    BY <2>1, <2>2, <2>3, <2>4, <2>5
  <2> QED
    BY <2>6 DEF SaldoEsLaSuma, Total, f
<1> QED
  BY <1>1, <1>2, PasoPromesa

\* With every movement that moved the balance in the auxiliary, what the
\* auxiliary counts too many is what was left half done.
LEMMA Explicado == IInv /\ AnonimoQuieto /\ SaldoEsLaSuma => DescuadreExplicado
<1> SUFFICES ASSUME IInv, AnonimoQuieto, SaldoEsLaSuma PROVE DescuadreExplicado
  OBVIOUS
<1> DEFINE f == [n \in Mov |-> Signo(n)]
           E == {m \in Mov : EnElAuxiliar(m)}
           A == {m \in Mov : AMedias(m)}
<1>1. Movidos \subseteq E
  BY DEF Movidos, EnElAuxiliar, AnonimoQuieto, IInv, TypeOK, EfectoUnico
<1>2. E \ Movidos = A
  BY DEF Movidos, AMedias, IInv, TypeOK
<1>3. IsFiniteSet(E) /\ \A x \in E : f[x] \in Int
  BY MovFinito, FS_Subset
<1>4. saldo = SumFunctionOnSet(f, Movidos)
  BY DEF SaldoEsLaSuma, Total
<1>5. Descuadre = saldo - SumFunctionOnSet(f, E)
  BY DEF Descuadre, Total
<1>6. DescuadreExplicado <=> Descuadre = -SumFunctionOnSet(f, A)
  BY DEF DescuadreExplicado, Total
<1> HIDE DEF f, E, A
<1>7. SumFunctionOnSet(f, E) = SumFunctionOnSet(f, Movidos) + SumFunctionOnSet(f, A)
  BY <1>1, <1>2, <1>3, SumaPartida
<1>8. /\ IsFiniteSet(Movidos) /\ IsFiniteSet(A)
      /\ \A x \in Movidos \cup A : f[x] \in Int
  BY <1>1, <1>2, <1>3, FS_Subset
<1>9. SumFunctionOnSet(f, Movidos) \in Int /\ SumFunctionOnSet(f, A) \in Int
  BY <1>8, SumaEntera
<1> QED
  BY <1>4, <1>5, <1>6, <1>7, <1>9

\* However requests, retries, sweeps and cuts interleave, the difference of the
\* report is what the half-done movements will still move, and a charge that was
\* accepted took the balance, of which its void gives back no more than that.
THEOREM SaldoCuadraSiempre == Spec => []SaldoCuadra
<1>1. Init => AnonimoQuieto /\ CargoUnico /\ SaldoEsLaSuma
  <2> SUFFICES ASSUME Init PROVE AnonimoQuieto /\ CargoUnico /\ SaldoEsLaSuma
    OBVIOUS
  <2>1. \A s \in Ventas : Consumo(s) \in Mov
    BY DEF Consumo, Mov
  <2>2. AnonimoQuieto /\ CargoUnico
    BY <2>1 DEF Init, Actores, AnonimoQuieto, CargoUnico
  <2>3. Movidos = {}
    BY DEF Init, Movidos
  <2>4. IsFiniteSet(Movidos)
    BY <2>3, FS_EmptySet
  <2>5. SumFunctionOnSet([n \in Mov |-> Signo(n)], Movidos) = 0
    BY <2>3, <2>4, SumaDeCeros
  <2> QED
    BY <2>2, <2>5 DEF Init, SaldoEsLaSuma, Total
<1>2. IInv /\ AnonimoQuieto /\ CargoUnico /\ SaldoEsLaSuma => SaldoCuadra
  <2> SUFFICES ASSUME IInv, AnonimoQuieto, CargoUnico, SaldoEsLaSuma PROVE SaldoCuadra
    OBVIOUS
  <2>1. \A s \in Ventas : Reverso(s) \in Mov
    BY DEF Reverso, Mov
  <2>2. CobroAceptadoGasta
    BY <2>1 DEF CobroAceptadoGasta, CargoUnico, IInv, EfectoUnico
  <2> QED
    BY <2>2, Explicado DEF SaldoCuadra
<1> QED
  BY <1>1, <1>2, InvarianteInductivo, PasoAnonimo, PasoCargo, PasoSuma, PTL DEF Spec

-----------------------------------------------------------------------------
\* What follows is about other constants.
HIDE SaldoAssumption

\* A set of numbers with something in it has a least one.
LEMMA MenorNatural ==
    ASSUME NEW S \in SUBSET Nat, S # {}
    PROVE  \E x \in S : \A y \in S : x <= y
<1>1. PICK c \in S : TRUE
  OBVIOUS
<1> DEFINE T == {y \in (-c)..0 : -y \in S}
<1>2. IsFiniteSet(T)
  <2>1. IsFiniteSet((-c)..0)
    BY FS_Interval
  <2>2. T \subseteq (-c)..0
    OBVIOUS
  <2> QED
    BY <2>1, <2>2, FS_Subset
<1>3. -c \in T
  OBVIOUS
<1>4. \A y \in T : y \in Int
  OBVIOUS
<1>5. PICK x \in T : \A y \in T : x >= y
  <2> HIDE DEF T
  <2> QED
    BY <1>2, <1>3, <1>4, HayMaximo
<1>6. ASSUME NEW y \in S PROVE -x <= y
  <2>1. CASE y <= c
    <3>1. -y \in T
      BY <2>1
    <3> QED
      BY <1>5, <3>1
  <2>2. CASE y > c
    BY <1>3, <1>5, <2>2
  <2> QED
    BY <2>1, <2>2
<1>7. -x \in S
  OBVIOUS
<1> QED
  BY <1>6, <1>7

-----------------------------------------------------------------------------
(* The subscription and its charges, Suscripcion, are G! *)

CONSTANTS
    Altas, Compras, Cancelaciones, gBarridos, Avisos, Nadie, Ciclo, MaxReintentos, BancoLento,
    Cruces, gFallan, gCortan, MaxDia, MaxPagos, gMaxFallas, gMaxCortes

VARIABLES
    dia, sub, empresa, pagos, avances, gPc, leido, gFallas, gCortes

G == INSTANCE Suscripcion WITH
    Barridos <- gBarridos, Fallan <- gFallan, Cortan <- gCortan, MaxFallas <- gMaxFallas,
    MaxCortes <- gMaxCortes, pc <- gPc, fallas <- gFallas, cortes <- gCortes

Efectos == {"plan", "period", "docCredits"}
Bancos == {"no", "pending", "approved", "declined"}
Suscripciones ==
    [estado : {"no", "pending", "active", "past_due", "canceled"}, hasta : Nat, proximo : Nat,
     intento : Nat, intentoDia : Nat, fallidos : Nat, sinAcceso : BOOLEAN]
LosPagos ==
    [tipo : {"subscription", "renewal", "docPackage"},
     ref : {<<a>> : a \in G!Actores} \cup (Nat \X Nat),
     estado : {"pending", "approved", "declined"}, tx : BOOLEAN, banco : Bancos,
     aplicado : BOOLEAN, dueno : G!Actores \cup {Nadie}, efectos : SUBSET Efectos, paga : Nat]
Lecturas ==
    [pago : Nat, sub : Suscripciones, nuevo : Suscripciones,
     fase : G!Fases \cup {"nada", "fin"}, lista : SUBSET Nat, hechos : SUBSET Efectos,
     ahora : Nat, r : Efectos \cup Bancos \cup {"subscription", "renewal", "docPackage"}]
PasosG ==
    {"libre", "fin"} \cup G!Fases \cup G!PasosCobro \cup G!PasosPago \cup G!PasosSub

\* The types of what there is, and of what each actor read.
Formas ==
    /\ dia \in 1..MaxDia
    /\ sub \in Suscripciones
    /\ empresa \in [estado : {"trial", "active", "suspended"}, creditos : Nat,
                    acreditados : SUBSET Nat, motivo : {"nada", "plazo", "mora", "vieja"}]
    /\ pagos \in Seq(LosPagos) /\ Len(pagos) <= MaxPagos
    /\ avances \in [1..MaxPagos -> Nat]
    /\ gPc \in [G!Actores -> PasosG]
    /\ leido \in [G!Actores -> Lecturas]
    /\ gFallas \in 0..gMaxFallas /\ gCortes \in 0..gMaxCortes

\* Who is charging or applying has a payment, who creates one knows its kind, and a sweep
\* is in one of its phases.
Camino(a) ==
    /\ gPc[a] \in G!PasosPago \cup {"transar", "anotar"} => leido[a].pago \in G!Ids
    /\ gPc[a] = "crear" => leido[a].r \in {"subscription", "renewal", "docPackage"}
    /\ leido[a].lista \subseteq G!Ids
    /\ gPc[a] \in G!Fases => a \in gBarridos
    /\ a \in gBarridos /\ gPc[a] \notin {"libre", "fin"} => leido[a].fase \in G!Fases \cup {"fin"}
Caminos == empresa.acreditados \subseteq G!Ids /\ \A a \in G!Actores : Camino(a)

\* What the bank decided stays: only who creates a charge sends it, once, and what an
\* actor carries of an answer is what the bank said.
Respuesta(a) ==
    /\ gPc[a] = "transar" => pagos[leido[a].pago].banco = "no"
    /\ gPc[a] = "anotar" /\ leido[a].r \in {"approved", "declined"} =>
         pagos[leido[a].pago].banco = leido[a].r
    /\ gPc[a] = "reservar" => pagos[leido[a].pago].banco = "approved"
    /\ a \in gBarridos /\ leido[a].fase = "retomar" =>
         \A k \in leido[a].lista : pagos[k].estado = "approved"
    /\ gPc[a] = "retomar" => leido[a].fase = "retomar"
Decidido ==
    /\ \A a \in G!Actores : Respuesta(a)
    /\ \A a, b \in G!Actores :
         gPc[a] = "transar" /\ gPc[b] = "transar" /\ leido[b].pago = leido[a].pago => a = b
    /\ \A k \in G!Ids : pagos[k].estado = "approved" => pagos[k].banco = "approved"

\* Who applies an approval holds its lease, and it is not applied.
Arrendado(a) ==
    gPc[a] \in G!Aplicando =>
        /\ pagos[leido[a].pago].dueno = a /\ ~pagos[leido[a].pago].aplicado
        /\ pagos[leido[a].pago].estado = "approved"
Arriendo == \A a \in G!Actores : Arrendado(a)

\* What each step of an approval knows of the effects that were marked.
Marca(a) ==
    LET k == leido[a].pago
        doc == pagos[k].tipo = "docPackage"
        marcados == pagos[k].efectos
    IN  /\ gPc[a] = "efecto" => leido[a].hechos = marcados
        /\ gPc[a] = "marcarEfecto" => leido[a].r = IF doc THEN "docCredits" ELSE "plan"
        /\ gPc[a] = "marcarEfecto" /\ doc => k \in empresa.acreditados
        /\ gPc[a] \in {"leerSub", "guardarPeriodo", "marcar"} => ~doc
        /\ gPc[a] \in {"marcarEfecto", "leerSub"} =>
             ("period" \in leido[a].hechos <=> "period" \in marcados)
        /\ gPc[a] = "guardarPeriodo" => "period" \notin marcados
        /\ gPc[a] = "marcar" => leido[a].r = "period" /\ ("marcar" \notin gCortan => avances[k] = 1)
        /\ gPc[a] = "cerrar" => IF doc THEN "docCredits" \in marcados ELSE "period" \in marcados
Marcas == \A a \in G!Actores : Marca(a)

\* A payment has opened a period if it is marked, or if somebody is about to mark it.
Periodo(k) ==
    /\ avances[k] <= 1
    /\ "period" \in pagos[k].efectos => avances[k] = 1
    /\ avances[k] = 1 /\ "period" \notin pagos[k].efectos =>
         \E a \in G!Actores : gPc[a] = "marcar" /\ leido[a].pago = k
    /\ pagos[k].aplicado /\ pagos[k].tipo # "docPackage" => "period" \in pagos[k].efectos
Periodos ==
    /\ \A k \in G!Ids : Periodo(k)
    /\ \A k \in 1..MaxPagos : k \notin G!Ids => avances[k] = 0

\* The credits of the company are those of the packages it counts, which the bank took.
Creditos ==
    /\ empresa.creditos = Cardinality(empresa.acreditados)
    /\ \A k \in empresa.acreditados : pagos[k].tipo = "docPackage" /\ pagos[k].estado = "approved"
    /\ \A k \in G!Ids :
         /\ "docCredits" \in pagos[k].efectos => k \in empresa.acreditados
         /\ pagos[k].aplicado /\ pagos[k].tipo = "docPackage" => k \in empresa.acreditados

\* The periods are counted right if no process is lost between one and its mark.
PeriodosSi == "marcar" \notin gCortan => Periodos
IndG == Formas /\ Caminos /\ Decidido /\ Arriendo /\ Marcas /\ PeriodosSi /\ Creditos

-----------------------------------------------------------------------------
(* What the steps are built from *)

LEMMA GuardadoTipo ==
    ASSUME sub \in Suscripciones, NEW v \in Suscripciones, NEW n \in Suscripciones
    PROVE  G!Guardado(v, n) \in Suscripciones
<1> DEFINE campos == {"estado", "hasta", "proximo", "intento", "intentoDia", "fallidos", "sinAcceso"}
          g == [c \in campos |-> IF n[c] # v[c] THEN n[c] ELSE sub[c]]
<1>1. DOMAIN sub = campos
  BY DEF Suscripciones
<1>2. G!Guardado(v, n) = g
  BY <1>1 DEF G!Guardado
<1>3. g = [estado |-> g.estado, hasta |-> g.hasta, proximo |-> g.proximo, intento |-> g.intento,
           intentoDia |-> g.intentoDia, fallidos |-> g.fallidos, sinAcceso |-> g.sinAcceso]
  OBVIOUS
<1>4. /\ g.estado \in {"no", "pending", "active", "past_due", "canceled"} /\ g.hasta \in Nat
      /\ g.proximo \in Nat /\ g.intento \in Nat /\ g.intentoDia \in Nat /\ g.fallidos \in Nat
      /\ g.sinAcceso \in BOOLEAN
  BY DEF Suscripciones
<1> HIDE DEF g
<1> QED
  BY <1>2, <1>3, <1>4 DEF Suscripciones

\* There is a next date of the cycle, and it is a number.
LEMMA ProximoTipo ==
    ASSUME G!Supuestos, dia \in 1..MaxDia, NEW fecha \in Nat
    PROVE  G!ProximoDesde(fecha) \in Nat
<1> DEFINE siguientes == {fecha + n * Ciclo : n \in 1..MaxDia + 1}
          futuras == {f \in siguientes : f > dia}
<1> USE DEF G!Supuestos
<1>1. \A n \in Nat : fecha + n * Ciclo \in Nat
  OBVIOUS
<1>2. futuras \in SUBSET Nat
  BY <1>1
<1>3. fecha + (MaxDia + 1) * Ciclo > dia
  <2>1. (MaxDia + 1) * Ciclo >= MaxDia + 1
    OBVIOUS
  <2> QED
    BY <2>1
<1>4. futuras # {}
  <2>1. MaxDia + 1 \in 1..MaxDia + 1
    OBVIOUS
  <2>2. fecha + (MaxDia + 1) * Ciclo \in siguientes
    BY <2>1
  <2> QED
    BY <1>3, <2>2
<1> HIDE DEF futuras
<1>5. PICK f \in futuras : \A g \in futuras : f <= g
  BY <1>2, <1>4, MenorNatural
<1>6. /\ f \in siguientes /\ f > dia
      /\ \A g \in siguientes : g > dia => f <= g
  BY <1>5 DEF futuras
<1>7. G!ProximoDesde(fecha) \in siguientes
  <2> HIDE DEF siguientes
  <2>1. \E x \in siguientes : x > dia /\ \A g \in siguientes : g > dia => x <= g
    BY <1>6
  <2>2. (CHOOSE x \in siguientes : x > dia /\ \A g \in siguientes : g > dia => x <= g) \in siguientes
    BY <2>1
  <2> QED
    BY <2>2 DEF G!ProximoDesde, siguientes
<1> QED
  BY <1>1, <1>7

\* An actor that is done with a payment goes on with its sweep, or ends.
LEMMA AcabaHace ==
    ASSUME Formas, NEW a \in G!Actores, NEW k,
           a \in gBarridos => leido[a].fase \in G!Fases \cup {"fin"}, G!Acaba(a, k)
    PROVE  /\ gPc' \in [G!Actores -> PasosG] /\ leido' \in [G!Actores -> Lecturas]
           /\ \A b \in G!Actores \ {a} : gPc'[b] = gPc[b] /\ leido'[b] = leido[b]
           /\ gPc'[a] \in G!Fases \cup {"fin"} /\ (gPc'[a] # "fin" => a \in gBarridos)
           /\ leido'[a].lista \subseteq leido[a].lista
           /\ a \in gBarridos => leido'[a].fase = leido[a].fase
           /\ gPc'[a] = "retomar" => leido[a].fase = "retomar"
<1>1. G!SinLeer \in Lecturas
  BY DEF G!SinLeer, G!SinSub, G!Ninguno, Lecturas, Suscripciones, Efectos, Bancos
<1>2. leido[a] \in Lecturas
  BY DEF Formas
<1>3. /\ G!Queda(a, k) \in Lecturas
      /\ G!Queda(a, k).lista \subseteq leido[a].lista
      /\ a \in gBarridos => G!Queda(a, k).fase = leido[a].fase
  <2>1. CASE a \in gBarridos
    <3> DEFINE q == [G!SinLeer EXCEPT !.ahora = leido[a].ahora, !.fase = leido[a].fase,
                                      !.lista = leido[a].lista \ {k}]
    <3>1. G!Queda(a, k) = q
      BY <2>1 DEF G!Queda
    <3>2. leido[a].ahora \in Nat /\ leido[a].fase \in G!Fases \cup {"nada", "fin"} /\ leido[a].lista \in SUBSET Nat
      BY <1>2 DEF Lecturas
    <3>3. q \in Lecturas /\ q.lista = leido[a].lista \ {k} /\ q.fase = leido[a].fase
      BY <1>1, <3>2 DEF Lecturas
    <3> QED
      BY <3>1, <3>3
  <2>2. CASE a \notin gBarridos
    <3>1. G!Queda(a, k) = G!SinLeer
      BY <2>2 DEF G!Queda
    <3>2. G!SinLeer.lista = {}
      BY DEF G!SinLeer
    <3> QED
      BY <1>1, <2>2, <3>1, <3>2
  <2> QED
    BY <2>1, <2>2
<1>4. DOMAIN gPc = G!Actores /\ DOMAIN leido = G!Actores
  BY DEF Formas
<1>5. /\ leido' = [leido EXCEPT ![a] = G!Queda(a, k)]
      /\ gPc' = [gPc EXCEPT ![a] = IF a \in gBarridos THEN G!Siguiente(leido[a].fase) ELSE "fin"]
  BY DEF G!Acaba, G!Va
<1>6. a \in gBarridos => /\ G!Siguiente(leido[a].fase) \in G!Fases \cup {"fin"}
                        /\ (G!Siguiente(leido[a].fase) = "retomar" => leido[a].fase = "retomar")
  BY DEF G!Siguiente, G!Fases
<1>7. gPc'[a] = IF a \in gBarridos THEN G!Siguiente(leido[a].fase) ELSE "fin"
  BY <1>4, <1>5
<1>8. gPc'[a] = "retomar" => leido[a].fase = "retomar"
  BY <1>6, <1>7
<1> QED
  BY <1>3, <1>4, <1>5, <1>6, <1>8 DEF Formas, PasosG

\* The answer of the bank starts applying or declining, or there is nothing to do.
LEMMA SyncHace ==
    ASSUME Formas, NEW a \in G!Actores, NEW k \in Nat, NEW r,
           a \in gBarridos => leido[a].fase \in G!Fases \cup {"fin"}, G!Sync(a, k, r)
    PROVE  /\ gPc' \in [G!Actores -> PasosG] /\ leido' \in [G!Actores -> Lecturas]
           /\ \A b \in G!Actores \ {a} : gPc'[b] = gPc[b] /\ leido'[b] = leido[b]
           /\ \/ gPc'[a] \in G!Fases \cup {"fin"} /\ (gPc'[a] # "fin" => a \in gBarridos)
              \/ gPc'[a] \in {"reservar", "declinar"} /\ leido'[a].pago = k
           /\ gPc'[a] = "reservar" => r = "approved"
           /\ leido'[a].lista \subseteq leido[a].lista
           /\ a \in gBarridos => leido'[a].fase = leido[a].fase
           /\ gPc'[a] = "retomar" => leido[a].fase = "retomar"
<1>1. CASE G!Acaba(a, k)
  <2>1. gPc'[a] \in G!Fases \cup {"fin"}
    BY <1>1, AcabaHace
  <2>2. gPc'[a] # "reservar"
    BY <2>1 DEF G!Fases
  <2> QED
    BY <1>1, <2>2, AcabaHace
<1>2. CASE /\ G!Va(a, IF r = "approved" THEN "reservar" ELSE "declinar")
           /\ leido' = [leido EXCEPT ![a] = [leido[a] EXCEPT !.pago = k, !.sub = G!SinSub, !.r = "no"]]
  <2>1. leido[a] \in Lecturas /\ G!SinSub \in Suscripciones
    BY DEF Formas, G!SinSub, Suscripciones
  <2> DEFINE l == [leido[a] EXCEPT !.pago = k, !.sub = G!SinSub, !.r = "no"]
  <2>2. l \in Lecturas /\ l.pago = k /\ l.lista = leido[a].lista /\ l.fase = leido[a].fase
    BY <2>1 DEF Lecturas, Bancos
  <2>3. DOMAIN gPc = G!Actores /\ DOMAIN leido = G!Actores
    BY DEF Formas
  <2> HIDE DEF l
  <2>4. /\ leido' = [leido EXCEPT ![a] = l]
        /\ gPc' = [gPc EXCEPT ![a] = IF r = "approved" THEN "reservar" ELSE "declinar"]
    BY <1>2 DEF G!Va, l
  <2> QED
    BY <2>2, <2>3, <2>4 DEF Formas, PasosG, G!PasosPago
<1> QED
  BY <1>1, <1>2 DEF G!Sync

\* Payment k is now p, and the others are what they were.
Solo(k, p) ==
    /\ G!Ids' = G!Ids /\ pagos' \in Seq(LosPagos) /\ Len(pagos') = Len(pagos)
    /\ k \in G!Ids /\ pagos'[k] = p /\ p \in LosPagos
    /\ \A j \in G!Ids \ {k} : pagos'[j] = pagos[j]

LEMMA CambiaPago ==
    ASSUME pagos \in Seq(LosPagos), NEW k \in G!Ids, NEW p \in LosPagos,
           pagos' = [pagos EXCEPT ![k] = p]
    PROVE  Solo(k, p)
<1>1. k \in 1..Len(pagos) /\ DOMAIN pagos = 1..Len(pagos) /\ Len(pagos) \in Nat
  BY DEF G!Ids
<1>2. pagos \in [1..Len(pagos) -> LosPagos]
  OBVIOUS
<1>3. pagos' \in [1..Len(pagos) -> LosPagos]
  BY <1>2
<1>4. pagos' \in Seq(LosPagos) /\ Len(pagos') = Len(pagos)
  BY <1>1, <1>3
<1> QED
  BY <1>1, <1>3, <1>4 DEF Solo, G!Ids

\* What each action writes of the payment in its hands.
LEMMA Escribe ==
    ASSUME Formas, Caminos, NEW a \in G!Actores,
           NEW k, k = leido[a].pago
    PROVE  /\ G!Transar(a) => \E r \in Bancos : Solo(k, [pagos[k] EXCEPT !.banco = r])
           /\ G!Anotar(a) => Solo(k, [pagos[k] EXCEPT !.tx = TRUE])
           /\ G!Reservar(a) => \/ UNCHANGED pagos
                               \/ Solo(k, [pagos[k] EXCEPT !.estado = "approved", !.dueno = a])
           /\ G!Marcar(a) /\ leido[a].r \in Efectos =>
                Solo(k, [pagos[k] EXCEPT !.efectos = @ \cup {leido[a].r}])
           /\ G!Cerrar(a) => Solo(k, [pagos[k] EXCEPT !.aplicado = TRUE, !.dueno = Nadie])
           /\ G!Liberar(a) => \/ UNCHANGED pagos
                              \/ Solo(k, [pagos[k] EXCEPT !.dueno = Nadie])
           /\ G!Declinar(a) => \/ UNCHANGED pagos
                               \/ /\ pagos[k].estado = "pending"
                                  /\ Solo(k, [pagos[k] EXCEPT !.estado = "declined"])
<1>1. gPc[a] \in G!PasosPago \cup {"transar", "anotar"} => k \in G!Ids /\ pagos[k] \in LosPagos
  BY DEF Caminos, Camino, Formas, G!Ids
<1> DEFINE conBanco(r) == [pagos[k] EXCEPT !.banco = r]
           conTx == [pagos[k] EXCEPT !.tx = TRUE]
           reservado == [pagos[k] EXCEPT !.estado = "approved", !.dueno = a]
           marcado == [pagos[k] EXCEPT !.efectos = @ \cup {leido[a].r}]
           cerrado == [pagos[k] EXCEPT !.aplicado = TRUE, !.dueno = Nadie]
           suelto == [pagos[k] EXCEPT !.dueno = Nadie]
           declinado == [pagos[k] EXCEPT !.estado = "declined"]
<1>2. pagos[k] \in LosPagos =>
        /\ \A r \in Bancos : conBanco(r) \in LosPagos
        /\ conTx \in LosPagos /\ reservado \in LosPagos /\ cerrado \in LosPagos
        /\ suelto \in LosPagos /\ declinado \in LosPagos
        /\ leido[a].r \in Efectos => marcado \in LosPagos
  BY DEF LosPagos
<1>3. /\ G!Transar(a) => \E r \in Bancos : pagos' = [pagos EXCEPT ![k] = conBanco(r)]
      /\ G!Anotar(a) => pagos' = [pagos EXCEPT ![k] = conTx]
      /\ G!Reservar(a) => UNCHANGED pagos \/ pagos' = [pagos EXCEPT ![k] = reservado]
      /\ G!Marcar(a) => pagos' = [pagos EXCEPT ![k] = marcado]
      /\ G!Cerrar(a) => pagos' = [pagos EXCEPT ![k] = cerrado]
      /\ G!Liberar(a) => UNCHANGED pagos \/ pagos' = [pagos EXCEPT ![k] = suelto]
      /\ G!Declinar(a) => \/ UNCHANGED pagos
                          \/ pagos[k].estado = "pending" /\ pagos' = [pagos EXCEPT ![k] = declinado]
  <2>1. G!Transar(a) => \E r \in Bancos : pagos' = [pagos EXCEPT ![k] = conBanco(r)]
    BY DEF G!Transar, Bancos
  <2>2. G!Anotar(a) => pagos' = [pagos EXCEPT ![k] = conTx]
    BY DEF G!Anotar
  <2>3. G!Reservar(a) => UNCHANGED pagos \/ pagos' = [pagos EXCEPT ![k] = reservado]
    BY <1>1 DEF G!Reservar, G!PasosPago, G!Ids
  <2>4. G!Marcar(a) => pagos' = [pagos EXCEPT ![k] = marcado]
    BY DEF G!Marcar
  <2>5. G!Cerrar(a) => pagos' = [pagos EXCEPT ![k] = cerrado]
    BY <1>1 DEF G!Cerrar, G!PasosPago, G!Ids
  <2>6. G!Liberar(a) => UNCHANGED pagos \/ pagos' = [pagos EXCEPT ![k] = suelto]
    BY DEF G!Liberar
  <2>7. G!Declinar(a) => \/ UNCHANGED pagos
                         \/ pagos[k].estado = "pending" /\ pagos' = [pagos EXCEPT ![k] = declinado]
    BY DEF G!Declinar
  <2> QED
    BY <2>1, <2>2, <2>3, <2>4, <2>5, <2>6, <2>7
<1>4. \A p \in LosPagos : k \in G!Ids /\ pagos' = [pagos EXCEPT ![k] = p] => Solo(k, p)
  BY CambiaPago DEF Formas
<1>5. /\ G!Transar(a) => gPc[a] = "transar" 
      /\ G!Anotar(a) => gPc[a] = "anotar"
      /\ G!Reservar(a) => gPc[a] = "reservar"
      /\ G!Marcar(a) => gPc[a] \in {"marcarEfecto", "marcar"}
      /\ G!Cerrar(a) => gPc[a] = "cerrar"
      /\ G!Liberar(a) => gPc[a] = "liberar"
      /\ G!Declinar(a) => gPc[a] = "declinar"
  BY DEF G!Transar, G!Anotar, G!Reservar, G!Marcar, G!Cerrar, G!Liberar, G!Declinar
<1> HIDE DEF conBanco, conTx, reservado, marcado, cerrado, suelto, declinado
<1>6. G!Transar(a) => \E r \in Bancos : Solo(k, conBanco(r))
  BY <1>1, <1>2, <1>3, <1>4, <1>5
<1>7. /\ G!Anotar(a) => Solo(k, conTx)
      /\ G!Reservar(a) => UNCHANGED pagos \/ Solo(k, reservado)
      /\ G!Marcar(a) /\ leido[a].r \in Efectos => Solo(k, marcado)
  BY <1>1, <1>2, <1>3, <1>4, <1>5 DEF G!PasosPago
<1>8. /\ G!Cerrar(a) => Solo(k, cerrado)
      /\ G!Liberar(a) => UNCHANGED pagos \/ Solo(k, suelto)
      /\ G!Declinar(a) => UNCHANGED pagos \/ (pagos[k].estado = "pending" /\ Solo(k, declinado))
  BY <1>1, <1>2, <1>3, <1>4, <1>5 DEF G!PasosPago
<1> QED
  BY <1>6, <1>7, <1>8 DEF conBanco, conTx, reservado, marcado, cerrado, suelto, declinado

\* The same of a notice, of the bank, and of who creates one.
LEMMA EscribenOtros ==
    ASSUME Formas, Caminos, NEW k \in G!Ids
    PROVE  /\ pagos' = [pagos EXCEPT ![k].tx = TRUE] => Solo(k, [pagos[k] EXCEPT !.tx = TRUE])
           /\ G!Decide(k) =>
                /\ pagos[k].banco = "pending"
                /\ \E r \in {"approved", "declined"} : Solo(k, [pagos[k] EXCEPT !.banco = r])
<1>1. pagos[k] \in LosPagos
  BY DEF Formas, G!Ids
<1> DEFINE conBanco(r) == [pagos[k] EXCEPT !.banco = r]
           conTx == [pagos[k] EXCEPT !.tx = TRUE]
<1>2. /\ \A r \in {"approved", "declined"} : conBanco(r) \in LosPagos
      /\ conTx \in LosPagos
  BY <1>1 DEF LosPagos, Bancos
<1>3. /\ pagos' = [pagos EXCEPT ![k].tx = TRUE] => pagos' = [pagos EXCEPT ![k] = conTx]
      /\ G!Decide(k) => /\ pagos[k].banco = "pending"
                        /\ \E r \in {"approved", "declined"} : pagos' = [pagos EXCEPT ![k] = conBanco(r)]
  BY DEF G!Decide
<1>4. \A p \in LosPagos : pagos' = [pagos EXCEPT ![k] = p] => Solo(k, p)
  BY CambiaPago DEF Formas
<1> HIDE DEF conBanco, conTx
<1>5. /\ pagos' = [pagos EXCEPT ![k].tx = TRUE] => Solo(k, conTx)
      /\ G!Decide(k) => /\ pagos[k].banco = "pending"
                        /\ \E r \in {"approved", "declined"} : Solo(k, conBanco(r))
  BY <1>2, <1>3, <1>4
<1> QED
  BY <1>5 DEF conBanco, conTx

\* A new payment goes after the others.
LEMMA CreaPago ==
    ASSUME G!Supuestos, Formas, Caminos, NEW a \in G!Actores, G!CrearPago(a)
    PROVE  \/ /\ G!Vuelve(a) /\ UNCHANGED pagos
           \/ /\ pagos' \in Seq(LosPagos) /\ Len(pagos') = Len(pagos) + 1 /\ Len(pagos') <= MaxPagos
              /\ \A k \in G!Ids : k \in G!Ids' /\ pagos'[k] = pagos[k]
              /\ \E p \in LosPagos :
                   /\ p.estado = "pending" /\ p.banco = "no" /\ ~p.aplicado /\ p.efectos = {}
                   /\ pagos'[Len(pagos) + 1] = p
              /\ leido' = [leido EXCEPT ![a].pago = Len(pagos) + 1]
              /\ G!Va(a, "transar")
<1>1. CASE \E k \in G!Ids : pagos[k].ref = G!Referencia(a)
  BY <1>1 DEF G!CrearPago
<1>2. CASE ~ \E k \in G!Ids : pagos[k].ref = G!Referencia(a)
  <2> DEFINE p == [tipo |-> leido[a].r, ref |-> G!Referencia(a),
                 estado |-> "pending", tx |-> FALSE, banco |-> "no", aplicado |-> FALSE,
                 dueno |-> Nadie, efectos |-> {}, paga |-> leido[a].sub.hasta]
  <2>1. leido[a] \in Lecturas /\ leido[a].sub \in Suscripciones
    BY DEF Formas, Lecturas
  <2>2. leido[a].r \in {"subscription", "renewal", "docPackage"}
    BY DEF Caminos, Camino, G!CrearPago
  <2>3. G!Referencia(a) \in {<<b>> : b \in G!Actores} \cup (Nat \X Nat)
    BY <2>1 DEF G!Referencia, Suscripciones
  <2>4. leido[a].sub.hasta \in Nat
    BY <2>1 DEF Suscripciones
  <2>5. p \in LosPagos
    <3>1. "pending" \in {"pending", "approved", "declined"} /\ "no" \in Bancos
      BY DEF Bancos
    <3> QED
      BY <2>2, <2>3, <2>4, <3>1 DEF LosPagos
  <2>6. /\ pagos' = Append(pagos, p) /\ leido' = [leido EXCEPT ![a].pago = Len(pagos) + 1]
        /\ G!Va(a, "transar") /\ Len(pagos) < MaxPagos
    BY <1>2 DEF G!CrearPago
  <2>7. p.estado = "pending" /\ p.banco = "no" /\ ~p.aplicado /\ p.efectos = {}
    OBVIOUS
  <2> HIDE DEF p
  <2>8. /\ pagos' \in Seq(LosPagos) /\ Len(pagos') = Len(pagos) + 1
        /\ \A k \in 1..Len(pagos) : pagos'[k] = pagos[k]
        /\ pagos'[Len(pagos) + 1] = p
    BY <2>5, <2>6 DEF Formas
  <2>9. G!Ids = 1..Len(pagos) /\ G!Ids' = 1..Len(pagos') /\ Len(pagos) \in Nat /\ MaxPagos \in Nat
    BY <2>8 DEF G!Ids, Formas, G!Supuestos
  <2> QED
    BY <2>5, <2>6, <2>7, <2>8, <2>9
<1> QED
  BY <1>1, <1>2

\* What no step takes away from the payments.
PagosQuedan ==
    /\ pagos' \in Seq(LosPagos) /\ Len(pagos') <= MaxPagos
    /\ \A k \in G!Ids :
         /\ k \in G!Ids' /\ pagos'[k].tipo = pagos[k].tipo
         /\ pagos[k].estado = "approved" => pagos'[k].estado = "approved"

\* A payment rewritten with its kind, and approved if it was, takes nothing away.
LEMMA SoloQueda ==
    ASSUME Formas, NEW k \in G!Ids, NEW p, Solo(k, p), p.tipo = pagos[k].tipo,
           pagos[k].estado = "approved" => p.estado = "approved"
    PROVE  PagosQuedan
BY DEF Solo, PagosQuedan, Formas

LEMMA PagosPaso ==
    ASSUME G!Supuestos
    PROVE  Formas /\ Caminos /\ Marcas /\ [G!Next]_(G!vars) => PagosQuedan
<1> SUFFICES ASSUME Formas, Caminos, Marcas, [G!Next]_(G!vars) PROVE PagosQuedan
  OBVIOUS
<1>1. ASSUME NEW u \in Altas, G!Alta(u) PROVE PagosQuedan
  BY <1>1
  DEF Formas, PagosQuedan, G!Ids, G!Alta
<1>2. ASSUME NEW u \in Compras, G!Comprar(u) PROVE PagosQuedan
  BY <1>2
  DEF Formas, PagosQuedan, G!Ids, G!Comprar
<1>3. ASSUME NEW w \in Avisos, G!Aviso(w) PROVE PagosQuedan
  <2>1. PICK k \in G!Ids : pagos' = [pagos EXCEPT ![k].tx = TRUE]
    BY <1>3 DEF G!Aviso
  <2>2. pagos[k] \in LosPagos
    BY DEF Formas, G!Ids
  <2>3. Solo(k, [pagos[k] EXCEPT !.tx = TRUE])
    BY <2>1, EscribenOtros
  <2> QED
    BY <2>2, <2>3, SoloQueda DEF LosPagos
<1>4. ASSUME NEW c \in Cancelaciones, G!Cancelar(c) PROVE PagosQuedan
  BY <1>4
  DEF Formas, PagosQuedan, G!Ids, G!Cancelar
<1>5. ASSUME NEW b \in gBarridos, G!Barrer(b) PROVE PagosQuedan
  BY <1>5
  DEF Formas, PagosQuedan, G!Ids, G!Barrer
<1>6. ASSUME NEW b \in gBarridos, G!Reconciliar(b) PROVE PagosQuedan
  BY <1>6
  DEF Formas, PagosQuedan, G!Ids, G!Reconciliar
<1>7. ASSUME NEW b \in gBarridos, G!Retomar(b) PROVE PagosQuedan
  BY <1>7
  DEF Formas, PagosQuedan, G!Ids, G!Retomar
<1>8. ASSUME NEW b \in gBarridos, G!CobrarVencida(b) PROVE PagosQuedan
  BY <1>8
  DEF Formas, PagosQuedan, G!Ids, G!CobrarVencida
<1>9. ASSUME NEW b \in gBarridos, G!ReservarCobro(b) PROVE PagosQuedan
  BY <1>9
  DEF Formas, PagosQuedan, G!Ids, G!ReservarCobro
<1>10. ASSUME NEW b \in gBarridos, G!CobrarMora(b) PROVE PagosQuedan
  BY <1>10
  DEF Formas, PagosQuedan, G!Ids, G!CobrarMora
<1>11. ASSUME NEW b \in gBarridos, G!Retirar(b) PROVE PagosQuedan
  BY <1>11
  DEF Formas, PagosQuedan, G!Ids, G!Retirar
<1>12. ASSUME NEW a \in G!Actores, G!CrearPago(a) PROVE PagosQuedan
  BY <1>12, CreaPago DEF PagosQuedan, Formas, G!Ids
<1>13. ASSUME NEW a \in G!Actores, G!Transar(a) PROVE PagosQuedan
  <2> DEFINE k == leido[a].pago
  <2>1. k \in G!Ids /\ pagos[k] \in LosPagos
    BY <1>13 DEF Caminos, Camino, Formas, G!Ids, G!PasosPago, G!Transar
  <2>2. PICK r \in Bancos : Solo(k, [pagos[k] EXCEPT !.banco = r])
    BY <1>13, Escribe
  <2> DEFINE p == [pagos[k] EXCEPT !.banco = r]
  <2>4. Solo(k, p) /\ p.tipo = pagos[k].tipo /\ p.estado = pagos[k].estado
    BY <2>1, <2>2 DEF LosPagos
  <2> HIDE DEF p, k
  <2> QED
    BY <2>1, <2>4, SoloQueda
<1>14. ASSUME NEW a \in G!Actores, G!Anotar(a) PROVE PagosQuedan
  <2> DEFINE k == leido[a].pago
             p == [pagos[k] EXCEPT !.tx = TRUE]
  <2>1. k \in G!Ids /\ pagos[k] \in LosPagos
    BY <1>14 DEF Caminos, Camino, Formas, G!Ids, G!PasosPago, G!Anotar
  <2>3. Solo(k, p)
    BY <1>14, Escribe
  <2>4. p.tipo = pagos[k].tipo /\ p.estado = pagos[k].estado
    BY <2>1 DEF LosPagos
  <2> HIDE DEF p, k
  <2> QED
    BY <2>1, <2>3, <2>4, SoloQueda
<1>15. ASSUME NEW a \in G!Actores, G!Reservar(a) PROVE PagosQuedan
  <2> DEFINE k == leido[a].pago
             p == [pagos[k] EXCEPT !.estado = "approved", !.dueno = a]
  <2>1. k \in G!Ids /\ pagos[k] \in LosPagos
    BY <1>15 DEF Caminos, Camino, Formas, G!Ids, G!PasosPago, G!Reservar
  <2>3. UNCHANGED pagos \/ Solo(k, p)
    BY <1>15, Escribe
  <2>4. p.tipo = pagos[k].tipo /\ p.estado = "approved"
    BY <2>1 DEF LosPagos
  <2> HIDE DEF p, k
  <2>5. UNCHANGED pagos => PagosQuedan
    BY DEF PagosQuedan, Formas, G!Ids
  <2>6. CASE Solo(k, p)
    BY <2>1, <2>4, <2>6, SoloQueda
  <2> QED
    BY <2>3, <2>5, <2>6
<1>16. ASSUME NEW a \in G!Actores, G!Efecto(a) PROVE PagosQuedan
  BY <1>16
  DEF Formas, PagosQuedan, G!Ids, G!Efecto
<1>17. ASSUME NEW a \in G!Actores, G!LeerSub(a) PROVE PagosQuedan
  BY <1>17
  DEF Formas, PagosQuedan, G!Ids, G!LeerSub
<1>18. ASSUME NEW a \in G!Actores, G!GuardarPeriodo(a) PROVE PagosQuedan
  BY <1>18
  DEF Formas, PagosQuedan, G!Ids, G!GuardarPeriodo
<1>19. ASSUME NEW a \in G!Actores, G!Marcar(a) PROVE PagosQuedan
  <2> DEFINE k == leido[a].pago
             p == [pagos[k] EXCEPT !.efectos = @ \cup {leido[a].r}]
  <2>1. k \in G!Ids /\ pagos[k] \in LosPagos
    BY <1>19 DEF Caminos, Camino, Formas, G!Ids, G!PasosPago, G!Marcar
  <2>2. leido[a].r \in Efectos
    BY <1>19, <2>1 DEF Marcas, Marca, G!Marcar, Efectos
  <2>3. Solo(k, p)
    BY <1>19, <2>2, Escribe
  <2>4. p.tipo = pagos[k].tipo /\ p.estado = pagos[k].estado
    BY <2>1 DEF LosPagos
  <2> HIDE DEF p, k
  <2> QED
    BY <2>1, <2>3, <2>4, SoloQueda
<1>20. ASSUME NEW a \in G!Actores, G!Cerrar(a) PROVE PagosQuedan
  <2> DEFINE k == leido[a].pago
             p == [pagos[k] EXCEPT !.aplicado = TRUE, !.dueno = Nadie]
  <2>1. k \in G!Ids /\ pagos[k] \in LosPagos
    BY <1>20 DEF Caminos, Camino, Formas, G!Ids, G!PasosPago, G!Cerrar
  <2>3. Solo(k, p)
    BY <1>20, Escribe
  <2>4. p.tipo = pagos[k].tipo /\ p.estado = pagos[k].estado
    BY <2>1 DEF LosPagos
  <2> HIDE DEF p, k
  <2> QED
    BY <2>1, <2>3, <2>4, SoloQueda
<1>21. ASSUME NEW a \in G!Actores, G!Liberar(a) PROVE PagosQuedan
  <2> DEFINE k == leido[a].pago
             p == [pagos[k] EXCEPT !.dueno = Nadie]
  <2>1. k \in G!Ids /\ pagos[k] \in LosPagos
    BY <1>21 DEF Caminos, Camino, Formas, G!Ids, G!PasosPago, G!Liberar
  <2>3. UNCHANGED pagos \/ Solo(k, p)
    BY <1>21, Escribe
  <2>4. p.tipo = pagos[k].tipo /\ p.estado = pagos[k].estado
    BY <2>1 DEF LosPagos
  <2> HIDE DEF p, k
  <2>5. UNCHANGED pagos => PagosQuedan
    BY DEF PagosQuedan, Formas, G!Ids
  <2>6. CASE Solo(k, p)
    BY <2>1, <2>4, <2>6, SoloQueda
  <2> QED
    BY <2>3, <2>5, <2>6
<1>22. ASSUME NEW a \in G!Actores, G!Declinar(a) PROVE PagosQuedan
  <2> DEFINE k == leido[a].pago
             p == [pagos[k] EXCEPT !.estado = "declined"]
  <2>1. k \in G!Ids /\ pagos[k] \in LosPagos
    BY <1>22 DEF Caminos, Camino, Formas, G!Ids, G!PasosPago, G!Declinar
  <2>3. UNCHANGED pagos \/ (pagos[k].estado = "pending" /\ Solo(k, p))
    BY <1>22, Escribe
  <2>4. p.tipo = pagos[k].tipo /\ p.estado = "declined"
    BY <2>1 DEF LosPagos
  <2> HIDE DEF p, k
  <2>5. UNCHANGED pagos => PagosQuedan
    BY DEF PagosQuedan, Formas, G!Ids
  <2>6. CASE pagos[k].estado = "pending" /\ Solo(k, p)
    BY <2>1, <2>4, <2>6, SoloQueda
  <2> QED
    BY <2>3, <2>5, <2>6
<1>23. ASSUME NEW a \in G!Actores, G!LeerMora(a) PROVE PagosQuedan
  BY <1>23
  DEF Formas, PagosQuedan, G!Ids, G!LeerMora
<1>24. ASSUME NEW a \in G!Actores, G!Suspender(a) PROVE PagosQuedan
  BY <1>24
  DEF Formas, PagosQuedan, G!Ids, G!Suspender
<1>25. ASSUME NEW a \in G!Actores, G!GuardarSub(a) PROVE PagosQuedan
  BY <1>25
  DEF Formas, PagosQuedan, G!Ids, G!GuardarSub
<1>26. ASSUME NEW a \in G!Actores, G!Otra(a) PROVE PagosQuedan
  BY <1>26
  DEF Formas, PagosQuedan, G!Ids, G!Otra
<1>27. ASSUME NEW a \in G!Actores, G!Corte(a) PROVE PagosQuedan
  BY <1>27
  DEF Formas, PagosQuedan, G!Ids, G!Corte
<1>28. ASSUME NEW k \in G!Ids, G!Decide(k) PROVE PagosQuedan
  <2>1. pagos[k] \in LosPagos
    BY DEF Formas, G!Ids
  <2>2. PICK r \in {"approved", "declined"} : Solo(k, [pagos[k] EXCEPT !.banco = r])
    BY <1>28, EscribenOtros
  <2> QED
    BY <2>1, <2>2, SoloQueda DEF LosPagos
<1>29. ASSUME G!NuevoDia PROVE PagosQuedan
  BY <1>29
  DEF Formas, PagosQuedan, G!Ids, G!NuevoDia
<1>30. CASE UNCHANGED G!vars
  BY <1>30
  DEF Formas, PagosQuedan, G!Ids, G!vars
<1> QED
  BY <1>1, <1>2, <1>3, <1>4, <1>5, <1>6, <1>7, <1>8, <1>9, <1>10, <1>11, <1>12, <1>13, <1>14,
     <1>15, <1>16, <1>17, <1>18, <1>19, <1>20, <1>21, <1>22, <1>23, <1>24, <1>25, <1>26,
     <1>27, <1>28, <1>29, <1>30
  DEF G!Next, G!Cobra, G!Aplica, G!Barre


LEMMA SubPaso ==
    ASSUME G!Supuestos
    PROVE  Formas /\ [G!Next]_(G!vars) => sub' \in Suscripciones
<1> SUFFICES ASSUME Formas, [G!Next]_(G!vars) PROVE sub' \in Suscripciones
  OBVIOUS
<1>1. ASSUME NEW u \in Altas, G!Alta(u) PROVE sub' \in Suscripciones
  <2>1. dia \in Nat
    BY DEF Formas, G!Supuestos
  <2> DEFINE i == sub.intento + 1
  <2>2. sub' = [sub EXCEPT !.estado = "pending", !.fallidos = 0, !.intento = i, !.intentoDia = dia]
    BY <1>1 DEF G!Alta
  <2>3. i \in Nat
    BY DEF Formas, Suscripciones
  <2> HIDE DEF i
  <2> QED
    BY <2>1, <2>2, <2>3 DEF Formas, Suscripciones
<1>2. ASSUME NEW u \in Compras, G!Comprar(u) PROVE sub' \in Suscripciones
  BY <1>2
  DEF Formas, Suscripciones, G!Comprar
<1>3. ASSUME NEW w \in Avisos, G!Aviso(w) PROVE sub' \in Suscripciones
  BY <1>3
  DEF Formas, Suscripciones, G!Aviso
<1>4. ASSUME NEW c \in Cancelaciones, G!Cancelar(c) PROVE sub' \in Suscripciones
  BY <1>4
  DEF Formas, Suscripciones, G!Cancelar
<1>5. ASSUME NEW b \in gBarridos, G!Barrer(b) PROVE sub' \in Suscripciones
  BY <1>5
  DEF Formas, Suscripciones, G!Barrer
<1>6. ASSUME NEW b \in gBarridos, G!Reconciliar(b) PROVE sub' \in Suscripciones
  BY <1>6
  DEF Formas, Suscripciones, G!Reconciliar
<1>7. ASSUME NEW b \in gBarridos, G!Retomar(b) PROVE sub' \in Suscripciones
  BY <1>7
  DEF Formas, Suscripciones, G!Retomar
<1>8. ASSUME NEW b \in gBarridos, G!CobrarVencida(b) PROVE sub' \in Suscripciones
  BY <1>8
  DEF Formas, Suscripciones, G!CobrarVencida
<1>9. ASSUME NEW b \in gBarridos, G!ReservarCobro(b) PROVE sub' \in Suscripciones
  <2> DEFINE s == leido[b].sub
  <2>1. s \in Suscripciones
    BY DEF Formas, Lecturas, G!Actores
  <2>2. s.proximo \in Nat /\ dia \in Nat /\ sub.intento \in Nat /\ sub.proximo \in Nat
    BY <2>1 DEF Formas, Suscripciones, G!Supuestos
  <2>3. G!ProximoDesde(s.proximo) \in Nat
    BY <2>2, ProximoTipo DEF Formas
  <2> DEFINE i == sub.intento + 1
             x == IF s.estado = "active" THEN G!ProximoDesde(s.proximo) ELSE sub.proximo
  <2>4. UNCHANGED sub \/ sub' = [sub EXCEPT !.intento = i, !.intentoDia = dia, !.proximo = x]
    BY <1>9 DEF G!ReservarCobro
  <2>5. i \in Nat /\ x \in Nat
    BY <2>2, <2>3
  <2> HIDE DEF s, i, x
  <2> QED
    BY <2>2, <2>4, <2>5 DEF Formas, Suscripciones
<1>10. ASSUME NEW b \in gBarridos, G!CobrarMora(b) PROVE sub' \in Suscripciones
  BY <1>10
  DEF Formas, Suscripciones, G!CobrarMora
<1>11. ASSUME NEW b \in gBarridos, G!Retirar(b) PROVE sub' \in Suscripciones
  BY <1>11
  DEF Formas, Suscripciones, G!Retirar
<1>12. ASSUME NEW a \in G!Actores, G!CrearPago(a) PROVE sub' \in Suscripciones
  BY <1>12
  DEF Formas, Suscripciones, G!CrearPago
<1>13. ASSUME NEW a \in G!Actores, G!Transar(a) PROVE sub' \in Suscripciones
  BY <1>13
  DEF Formas, Suscripciones, G!Transar
<1>14. ASSUME NEW a \in G!Actores, G!Anotar(a) PROVE sub' \in Suscripciones
  BY <1>14
  DEF Formas, Suscripciones, G!Anotar
<1>15. ASSUME NEW a \in G!Actores, G!Reservar(a) PROVE sub' \in Suscripciones
  BY <1>15
  DEF Formas, Suscripciones, G!Reservar
<1>16. ASSUME NEW a \in G!Actores, G!Efecto(a) PROVE sub' \in Suscripciones
  BY <1>16
  DEF Formas, Suscripciones, G!Efecto
<1>17. ASSUME NEW a \in G!Actores, G!LeerSub(a) PROVE sub' \in Suscripciones
  BY <1>17
  DEF Formas, Suscripciones, G!LeerSub
<1>18. ASSUME NEW a \in G!Actores, G!GuardarPeriodo(a) PROVE sub' \in Suscripciones
  <2> DEFINE s == leido[a].sub
             fin == (IF s.hasta > dia THEN s.hasta ELSE dia) + Ciclo
             n == [s EXCEPT !.estado = "active", !.hasta = fin, !.proximo = fin, !.fallidos = 0]
  <2>1. s \in Suscripciones
    BY DEF Formas, Lecturas
  <2>2. fin \in Nat
    <3>1. s.hasta \in Nat
      BY <2>1 DEF Suscripciones
    <3>2. dia \in Nat /\ Ciclo \in Nat
      BY DEF Formas, G!Supuestos
    <3> QED
      BY <3>1, <3>2
  <2>3. n \in Suscripciones
    <3> HIDE DEF fin, s
    <3> QED
      BY <2>1, <2>2 DEF Suscripciones
  <2>4. sub' = G!Guardado(s, n) \/ UNCHANGED sub
    BY <1>18 DEF G!GuardarPeriodo
  <2> HIDE DEF n, s
  <2> QED
    BY <2>1, <2>3, <2>4, GuardadoTipo DEF Formas
<1>19. ASSUME NEW a \in G!Actores, G!Marcar(a) PROVE sub' \in Suscripciones
  BY <1>19
  DEF Formas, Suscripciones, G!Marcar
<1>20. ASSUME NEW a \in G!Actores, G!Cerrar(a) PROVE sub' \in Suscripciones
  BY <1>20
  DEF Formas, Suscripciones, G!Cerrar
<1>21. ASSUME NEW a \in G!Actores, G!Liberar(a) PROVE sub' \in Suscripciones
  BY <1>21
  DEF Formas, Suscripciones, G!Liberar
<1>22. ASSUME NEW a \in G!Actores, G!Declinar(a) PROVE sub' \in Suscripciones
  BY <1>22
  DEF Formas, Suscripciones, G!Declinar
<1>23. ASSUME NEW a \in G!Actores, G!LeerMora(a) PROVE sub' \in Suscripciones
  BY <1>23
  DEF Formas, Suscripciones, G!LeerMora
<1>24. ASSUME NEW a \in G!Actores, G!Suspender(a) PROVE sub' \in Suscripciones
  BY <1>24
  DEF Formas, Suscripciones, G!Suspender
<1>25. ASSUME NEW a \in G!Actores, G!GuardarSub(a) PROVE sub' \in Suscripciones
  <2>1. leido[a].sub \in Suscripciones /\ leido[a].nuevo \in Suscripciones
    BY DEF Formas, Lecturas
  <2> QED
    BY <1>25, <2>1, GuardadoTipo DEF Formas, G!GuardarSub
<1>26. ASSUME NEW a \in G!Actores, G!Otra(a) PROVE sub' \in Suscripciones
  BY <1>26
  DEF Formas, Suscripciones, G!Otra
<1>27. ASSUME NEW a \in G!Actores, G!Corte(a) PROVE sub' \in Suscripciones
  BY <1>27
  DEF Formas, Suscripciones, G!Corte
<1>28. ASSUME NEW k \in G!Ids, G!Decide(k) PROVE sub' \in Suscripciones
  BY <1>28
  DEF Formas, Suscripciones, G!Decide
<1>29. ASSUME G!NuevoDia PROVE sub' \in Suscripciones
  BY <1>29
  DEF Formas, Suscripciones, G!NuevoDia
<1>30. CASE UNCHANGED G!vars
  BY <1>30
  DEF Formas, Suscripciones, G!vars
<1> QED
  BY <1>1, <1>2, <1>3, <1>4, <1>5, <1>6, <1>7, <1>8, <1>9, <1>10, <1>11, <1>12, <1>13, <1>14,
     <1>15, <1>16, <1>17, <1>18, <1>19, <1>20, <1>21, <1>22, <1>23, <1>24, <1>25, <1>26,
     <1>27, <1>28, <1>29, <1>30
  DEF G!Next, G!Cobra, G!Aplica, G!Barre


\* The types of what is not a payment, an actor or the subscription.
RestoQueda ==
    /\ dia' \in 1..MaxDia
    /\ empresa' \in [estado : {"trial", "active", "suspended"}, creditos : Nat,
                     acreditados : SUBSET Nat, motivo : {"nada", "plazo", "mora", "vieja"}]
    /\ avances' \in [1..MaxPagos -> Nat]
    /\ gFallas' \in 0..gMaxFallas /\ gCortes' \in 0..gMaxCortes

LEMMA RestoPaso ==
    ASSUME G!Supuestos
    PROVE  Formas /\ Caminos /\ [G!Next]_(G!vars) => RestoQueda
<1> SUFFICES ASSUME Formas, Caminos, [G!Next]_(G!vars) PROVE RestoQueda
  OBVIOUS
<1>1. ASSUME NEW u \in Altas, G!Alta(u) PROVE RestoQueda
  BY <1>1
  DEF RestoQueda, G!Supuestos, Formas, G!Falla, G!Bien, G!Acreditar, G!Ids, G!Alta
<1>2. ASSUME NEW u \in Compras, G!Comprar(u) PROVE RestoQueda
  BY <1>2
  DEF RestoQueda, G!Supuestos, Formas, G!Falla, G!Bien, G!Acreditar, G!Ids, G!Comprar
<1>3. ASSUME NEW w \in Avisos, G!Aviso(w) PROVE RestoQueda
  BY <1>3
  DEF RestoQueda, G!Supuestos, Formas, G!Falla, G!Bien, G!Acreditar, G!Ids, G!Aviso
<1>4. ASSUME NEW c \in Cancelaciones, G!Cancelar(c) PROVE RestoQueda
  BY <1>4
  DEF RestoQueda, G!Supuestos, Formas, G!Falla, G!Bien, G!Acreditar, G!Ids, G!Cancelar
<1>5. ASSUME NEW b \in gBarridos, G!Barrer(b) PROVE RestoQueda
  BY <1>5
  DEF RestoQueda, G!Supuestos, Formas, G!Falla, G!Bien, G!Acreditar, G!Ids, G!Barrer
<1>6. ASSUME NEW b \in gBarridos, G!Reconciliar(b) PROVE RestoQueda
  BY <1>6, SMTT(30)
  DEF RestoQueda, G!Supuestos, Formas, G!Falla, G!Bien, G!Acreditar, G!Ids, G!Reconciliar
<1>7. ASSUME NEW b \in gBarridos, G!Retomar(b) PROVE RestoQueda
  BY <1>7
  DEF RestoQueda, G!Supuestos, Formas, G!Falla, G!Bien, G!Acreditar, G!Ids, G!Retomar
<1>8. ASSUME NEW b \in gBarridos, G!CobrarVencida(b) PROVE RestoQueda
  BY <1>8
  DEF RestoQueda, G!Supuestos, Formas, G!Falla, G!Bien, G!Acreditar, G!Ids, G!CobrarVencida
<1>9. ASSUME NEW b \in gBarridos, G!ReservarCobro(b) PROVE RestoQueda
  BY <1>9
  DEF RestoQueda, G!Supuestos, Formas, G!Falla, G!Bien, G!Acreditar, G!Ids, G!ReservarCobro
<1>10. ASSUME NEW b \in gBarridos, G!CobrarMora(b) PROVE RestoQueda
  BY <1>10
  DEF RestoQueda, G!Supuestos, Formas, G!Falla, G!Bien, G!Acreditar, G!Ids, G!CobrarMora
<1>11. ASSUME NEW b \in gBarridos, G!Retirar(b) PROVE RestoQueda
  BY <1>11
  DEF RestoQueda, G!Supuestos, Formas, G!Falla, G!Bien, G!Acreditar, G!Ids, G!Retirar
<1>12. ASSUME NEW a \in G!Actores, G!CrearPago(a) PROVE RestoQueda
  BY <1>12
  DEF RestoQueda, G!Supuestos, Formas, G!Falla, G!Bien, G!Acreditar, G!Ids, G!CrearPago
<1>13. ASSUME NEW a \in G!Actores, G!Transar(a) PROVE RestoQueda
  BY <1>13, SMTT(30)
  DEF RestoQueda, G!Supuestos, Formas, G!Falla, G!Bien, G!Acreditar, G!Ids, G!Transar
<1>14. ASSUME NEW a \in G!Actores, G!Anotar(a) PROVE RestoQueda
  BY <1>14
  DEF RestoQueda, G!Supuestos, Formas, G!Falla, G!Bien, G!Acreditar, G!Ids, G!Anotar
<1>15. ASSUME NEW a \in G!Actores, G!Reservar(a) PROVE RestoQueda
  BY <1>15
  DEF RestoQueda, G!Supuestos, Formas, G!Falla, G!Bien, G!Acreditar, G!Ids, G!Reservar
<1>16. ASSUME NEW a \in G!Actores, G!Efecto(a) PROVE RestoQueda
  <2>1. leido[a].pago \in Nat
    BY DEF Formas, Lecturas
  <2> DEFINE c == empresa.creditos + 1
             s == empresa.acreditados \cup {leido[a].pago}
  <2>2. \/ UNCHANGED empresa
        \/ empresa' = [empresa EXCEPT !.estado = "active"]
        \/ empresa' = [empresa EXCEPT !.creditos = c, !.acreditados = s]
    BY <1>16 DEF G!Acreditar, G!Efecto
  <2>5. c \in Nat /\ s \in SUBSET Nat
    BY <2>1 DEF Formas
  <2> HIDE DEF c, s
  <2>3. empresa' \in [estado : {"trial", "active", "suspended"}, creditos : Nat,
                     acreditados : SUBSET Nat, motivo : {"nada", "plazo", "mora", "vieja"}]
    BY <2>2, <2>5 DEF Formas
  <2>4. /\ UNCHANGED <<dia, avances, gCortes>>
        /\ gFallas' \in 0..gMaxFallas
    BY <1>16 DEF Formas, G!Falla, G!Bien, G!Efecto, G!Supuestos
  <2> QED
    BY <2>3, <2>4 DEF RestoQueda, Formas
<1>17. ASSUME NEW a \in G!Actores, G!LeerSub(a) PROVE RestoQueda
  BY <1>17
  DEF RestoQueda, G!Supuestos, Formas, G!Falla, G!Bien, G!Acreditar, G!Ids, G!LeerSub
<1>18. ASSUME NEW a \in G!Actores, G!GuardarPeriodo(a) PROVE RestoQueda
  <2>1. leido[a].pago \in 1..MaxPagos
    BY <1>18 DEF Formas, Caminos, Camino, G!Ids, G!PasosPago, G!GuardarPeriodo, G!Supuestos
  <2>2. avances' = avances \/ avances' = [avances EXCEPT ![leido[a].pago] = @ + 1]
    BY <1>18 DEF G!GuardarPeriodo
  <2>3. avances' \in [1..MaxPagos -> Nat]
    BY <2>1, <2>2 DEF Formas
  <2>4. /\ UNCHANGED <<dia, empresa, gCortes>>
        /\ gFallas' \in 0..gMaxFallas
    BY <1>18 DEF Formas, G!Falla, G!Bien, G!GuardarPeriodo, G!Supuestos
  <2> QED
    BY <2>3, <2>4 DEF RestoQueda, Formas
<1>19. ASSUME NEW a \in G!Actores, G!Marcar(a) PROVE RestoQueda
  BY <1>19
  DEF RestoQueda, G!Supuestos, Formas, G!Falla, G!Bien, G!Acreditar, G!Ids, G!Marcar
<1>20. ASSUME NEW a \in G!Actores, G!Cerrar(a) PROVE RestoQueda
  BY <1>20
  DEF RestoQueda, G!Supuestos, Formas, G!Falla, G!Bien, G!Acreditar, G!Ids, G!Cerrar
<1>21. ASSUME NEW a \in G!Actores, G!Liberar(a) PROVE RestoQueda
  BY <1>21
  DEF RestoQueda, G!Supuestos, Formas, G!Falla, G!Bien, G!Acreditar, G!Ids, G!Liberar
<1>22. ASSUME NEW a \in G!Actores, G!Declinar(a) PROVE RestoQueda
  BY <1>22
  DEF RestoQueda, G!Supuestos, Formas, G!Falla, G!Bien, G!Acreditar, G!Ids, G!Declinar
<1>23. ASSUME NEW a \in G!Actores, G!LeerMora(a) PROVE RestoQueda
  BY <1>23
  DEF RestoQueda, G!Supuestos, Formas, G!Falla, G!Bien, G!Acreditar, G!Ids, G!LeerMora
<1>24. ASSUME NEW a \in G!Actores, G!Suspender(a) PROVE RestoQueda
  BY <1>24
  DEF RestoQueda, G!Supuestos, Formas, G!Falla, G!Bien, G!Acreditar, G!Ids, G!Suspender
<1>25. ASSUME NEW a \in G!Actores, G!GuardarSub(a) PROVE RestoQueda
  BY <1>25
  DEF RestoQueda, G!Supuestos, Formas, G!Falla, G!Bien, G!Acreditar, G!Ids, G!GuardarSub
<1>26. ASSUME NEW a \in G!Actores, G!Otra(a) PROVE RestoQueda
  BY <1>26
  DEF RestoQueda, G!Supuestos, Formas, G!Falla, G!Bien, G!Acreditar, G!Ids, G!Otra
<1>27. ASSUME NEW a \in G!Actores, G!Corte(a) PROVE RestoQueda
  BY <1>27
  DEF RestoQueda, G!Supuestos, Formas, G!Falla, G!Bien, G!Acreditar, G!Ids, G!Corte
<1>28. ASSUME NEW k \in G!Ids, G!Decide(k) PROVE RestoQueda
  BY <1>28
  DEF RestoQueda, G!Supuestos, Formas, G!Falla, G!Bien, G!Acreditar, G!Ids, G!Decide
<1>29. ASSUME G!NuevoDia PROVE RestoQueda
  BY <1>29 DEF RestoQueda, Formas, G!Supuestos, G!NuevoDia
<1>30. CASE UNCHANGED G!vars
  BY <1>30
  DEF RestoQueda, G!Supuestos, Formas, G!Falla, G!Bien, G!Acreditar, G!Ids, G!vars
<1> QED
  BY <1>1, <1>2, <1>3, <1>4, <1>5, <1>6, <1>7, <1>8, <1>9, <1>10, <1>11, <1>12, <1>13, <1>14,
     <1>15, <1>16, <1>17, <1>18, <1>19, <1>20, <1>21, <1>22, <1>23, <1>24, <1>25, <1>26,
     <1>27, <1>28, <1>29, <1>30
  DEF G!Next, G!Cobra, G!Aplica, G!Barre


\* The types of where the actors are and of what they read.
ActoresQuedan == gPc' \in [G!Actores -> PasosG] /\ leido' \in [G!Actores -> Lecturas]
Quietos(a) == \A b \in G!Actores \ {a} : gPc'[b] = gPc[b] /\ leido'[b] = leido[b]

\* Actor a is now at p with what it read in l, and the others are where they were.
Ahora(a, p, l) ==
    /\ a \in G!Actores /\ ActoresQuedan /\ Quietos(a)
    /\ gPc'[a] = p /\ leido'[a] = l /\ l \in Lecturas

\* Actor a goes on with its sweep, or it ended.
Regresa(a) ==
    /\ a \in G!Actores /\ ActoresQuedan /\ Quietos(a)
    /\ gPc'[a] \in G!Fases \cup {"fin"} /\ (gPc'[a] # "fin" => a \in gBarridos)
    /\ leido'[a].lista \subseteq leido[a].lista
    /\ a \in gBarridos => leido'[a].fase = leido[a].fase
    /\ gPc'[a] = "retomar" => leido[a].fase = "retomar"

\* Actor a starts applying or declining payment k, if what the bank said is new.
Sincroniza(a, k, r) ==
    /\ a \in G!Actores /\ ActoresQuedan /\ Quietos(a)
    /\ \/ gPc'[a] \in G!Fases \cup {"fin"} /\ (gPc'[a] # "fin" => a \in gBarridos)
       \/ gPc'[a] \in {"reservar", "declinar"} /\ leido'[a].pago = k
    /\ gPc'[a] = "reservar" => r = "approved"
    /\ leido'[a].lista \subseteq leido[a].lista
    /\ a \in gBarridos => leido'[a].fase = leido[a].fase
    /\ gPc'[a] = "retomar" => leido[a].fase = "retomar"

LEMMA CambiaActor ==
    ASSUME Formas, NEW a \in G!Actores, NEW p \in PasosG, NEW l \in Lecturas,
           gPc' = [gPc EXCEPT ![a] = p], leido' = [leido EXCEPT ![a] = l]
    PROVE  Ahora(a, p, l)
BY DEF Formas, Ahora, ActoresQuedan, Quietos

LEMMA VuelveHace ==
    ASSUME Formas, Caminos, NEW a \in G!Actores, G!Vuelve(a), gPc[a] \notin {"libre", "fin"}
    PROVE  Regresa(a)
<1>1. a \in gBarridos => leido[a].fase \in G!Fases \cup {"fin"}
  BY DEF Caminos, Camino
<1> QED
  BY <1>1, AcabaHace DEF G!Vuelve, Regresa, ActoresQuedan, Quietos

LEMMA SinLeerTipo == G!SinLeer \in Lecturas /\ G!SinLeer.lista = {} /\ G!SinSub \in Suscripciones
BY DEF G!SinLeer, G!SinSub, G!Ninguno, Lecturas, Suscripciones, Efectos, Bancos


LEMMA AltaDeja ==
    ASSUME G!Supuestos, Formas, Caminos, NEW u \in Altas, G!Alta(u)
    PROVE  Ahora(u, "crear", [leido[u] EXCEPT !.r = "subscription"])
<1> DEFINE l1 == [leido[u] EXCEPT !.r = "subscription"]
<1>1. u \in G!Actores /\ leido[u] \in Lecturas /\ sub \in Suscripciones
  BY DEF Formas, G!Actores
<1>3. l1 \in Lecturas
  BY <1>1, SinLeerTipo
  DEF Lecturas, Suscripciones, Efectos, Bancos, G!Fases
<1>4. leido' = [leido EXCEPT ![u] = l1] /\ gPc' = [gPc EXCEPT ![u] = "crear"]
  BY DEF G!Alta, G!Va
<1>6. {"crear"} \subseteq PasosG
  BY DEF PasosG, G!Fases, G!PasosCobro, G!PasosPago, G!PasosSub
<1> HIDE DEF l1
<1>8. Ahora(u, "crear", l1)
  BY <1>1, <1>3, <1>4, <1>6, CambiaActor
<1> QED
  BY <1>8 DEF l1

LEMMA ComprarDeja ==
    ASSUME G!Supuestos, Formas, Caminos, NEW u \in Compras, G!Comprar(u)
    PROVE  Ahora(u, "crear", [leido[u] EXCEPT !.r = "docPackage"])
<1> DEFINE l1 == [leido[u] EXCEPT !.r = "docPackage"]
<1>1. u \in G!Actores /\ leido[u] \in Lecturas /\ sub \in Suscripciones
  BY DEF Formas, G!Actores
<1>3. l1 \in Lecturas
  BY <1>1, SinLeerTipo
  DEF Lecturas, Suscripciones, Efectos, Bancos, G!Fases
<1>4. leido' = [leido EXCEPT ![u] = l1] /\ gPc' = [gPc EXCEPT ![u] = "crear"]
  BY DEF G!Comprar, G!Va
<1>6. {"crear"} \subseteq PasosG
  BY DEF PasosG, G!Fases, G!PasosCobro, G!PasosPago, G!PasosSub
<1> HIDE DEF l1
<1>8. Ahora(u, "crear", l1)
  BY <1>1, <1>3, <1>4, <1>6, CambiaActor
<1> QED
  BY <1>8 DEF l1

LEMMA BarrerDeja ==
    ASSUME G!Supuestos, Formas, Caminos, NEW b \in gBarridos, G!Barrer(b)
    PROVE  Ahora(b, "reconciliar", [G!SinLeer EXCEPT !.ahora = dia, !.fase = "reconciliar", !.lista = {k \in G!Ids : pagos[k].estado = "pending" /\ pagos[k].tx}])
<1> DEFINE l1 == [G!SinLeer EXCEPT !.ahora = dia, !.fase = "reconciliar", !.lista = {k \in G!Ids : pagos[k].estado = "pending" /\ pagos[k].tx}]
<1>1. b \in G!Actores /\ leido[b] \in Lecturas /\ sub \in Suscripciones
  BY DEF Formas, G!Actores
<1>2. dia \in Nat /\ {k \in G!Ids : pagos[k].estado = "pending" /\ pagos[k].tx} \in SUBSET Nat
  BY DEF Formas, G!Supuestos, G!Ids
<1>3. l1 \in Lecturas
  BY <1>1, <1>2, SinLeerTipo
  DEF Lecturas, Suscripciones, Efectos, Bancos, G!Fases
<1>4. leido' = [leido EXCEPT ![b] = l1] /\ gPc' = [gPc EXCEPT ![b] = "reconciliar"]
  BY DEF G!Barrer, G!Va
<1>6. {"reconciliar"} \subseteq PasosG
  BY DEF PasosG, G!Fases, G!PasosCobro, G!PasosPago, G!PasosSub
<1> HIDE DEF l1
<1>8. Ahora(b, "reconciliar", l1)
  BY <1>1, <1>3, <1>4, <1>6, CambiaActor
<1> QED
  BY <1>8 DEF l1

LEMMA CobrarVencidaDeja ==
    ASSUME G!Supuestos, Formas, Caminos, NEW b \in gBarridos, G!CobrarVencida(b)
    PROVE  (\E p \in {"reservarCobro", "mora"} : Ahora(b, p, [leido[b] EXCEPT !.sub = sub, !.fase = "cobrar"]))
<1> DEFINE l1 == [leido[b] EXCEPT !.sub = sub, !.fase = "cobrar"]
<1>1. b \in G!Actores /\ leido[b] \in Lecturas /\ sub \in Suscripciones
  BY DEF Formas, G!Actores
<1>3. l1 \in Lecturas
  BY <1>1, SinLeerTipo
  DEF Lecturas, Suscripciones, Efectos, Bancos, G!Fases
<1>4. leido' = [leido EXCEPT ![b] = l1] /\ \E p \in {"reservarCobro", "mora"} : gPc' = [gPc EXCEPT ![b] = p]
  BY DEF G!CobrarVencida, G!Va
<1>6. {"mora", "reservarCobro"} \subseteq PasosG
  BY DEF PasosG, G!Fases, G!PasosCobro, G!PasosPago, G!PasosSub
<1> HIDE DEF l1
<1>8. (\E p \in {"reservarCobro", "mora"} : Ahora(b, p, l1))
  BY <1>1, <1>3, <1>4, <1>6, CambiaActor
<1> QED
  BY <1>8 DEF l1

LEMMA ReservarCobroDeja ==
    ASSUME G!Supuestos, Formas, Caminos, NEW b \in gBarridos, G!ReservarCobro(b)
    PROVE  \/ Regresa(b)
           \/ Ahora(b, "crear", [leido[b] EXCEPT !.r = "renewal", !.sub = [leido[b].sub EXCEPT !.intentoDia = dia]])
<1> DEFINE l1 == [leido[b] EXCEPT !.r = "renewal", !.sub = [leido[b].sub EXCEPT !.intentoDia = dia]]
<1>1. b \in G!Actores /\ leido[b] \in Lecturas /\ sub \in Suscripciones
  BY DEF Formas, G!Actores
<1>2. dia \in Nat /\ {k \in G!Ids : pagos[k].estado = "pending" /\ pagos[k].tx} \in SUBSET Nat
  BY DEF Formas, G!Supuestos, G!Ids
<1>3. l1 \in Lecturas
  BY <1>1, <1>2, SinLeerTipo
  DEF Lecturas, Suscripciones, Efectos, Bancos, G!Fases
<1>4. \/ G!Vuelve(b)
      \/ leido' = [leido EXCEPT ![b] = l1] /\ gPc' = [gPc EXCEPT ![b] = "crear"]
  BY DEF G!ReservarCobro, G!Va
<1>6. {"crear"} \subseteq PasosG
  BY DEF PasosG, G!Fases, G!PasosCobro, G!PasosPago, G!PasosSub
<1>7. gPc[b] \notin {"libre", "fin"}
  BY DEF G!ReservarCobro
<1> HIDE DEF l1
<1>8. \/ Regresa(b)
      \/ Ahora(b, "crear", l1)
  BY <1>1, <1>3, <1>4, <1>6, <1>7, CambiaActor, VuelveHace
<1> QED
  BY <1>8 DEF l1

LEMMA CobrarMoraDeja ==
    ASSUME G!Supuestos, Formas, Caminos, NEW b \in gBarridos, G!CobrarMora(b)
    PROVE  \/ (\E p \in {"guardarSub", "suspender"} : Ahora(b, p, [leido[b] EXCEPT !.sub = sub, !.fase = "mora", !.nuevo = G!SinAcceso(G!Cancelada(sub))]))
           \/ Ahora(b, "reservarCobro", [leido[b] EXCEPT !.sub = sub, !.fase = "mora"])
           \/ Ahora(b, "retirar", [leido[b] EXCEPT !.fase = "mora"])
<1> DEFINE l1 == [leido[b] EXCEPT !.sub = sub, !.fase = "mora", !.nuevo = G!SinAcceso(G!Cancelada(sub))]
           l2 == [leido[b] EXCEPT !.sub = sub, !.fase = "mora"]
           l3 == [leido[b] EXCEPT !.fase = "mora"]
<1>1. b \in G!Actores /\ leido[b] \in Lecturas /\ sub \in Suscripciones
  BY DEF Formas, G!Actores
<1>2. "mora" \in G!Fases /\ G!SinAcceso(G!Cancelada(sub)) \in Suscripciones
  BY <1>1 DEF Suscripciones, G!Fases, G!SinAcceso, G!Cancelada
<1>3. l1 \in Lecturas /\ l2 \in Lecturas /\ l3 \in Lecturas
  BY <1>1, <1>2 DEF Lecturas
<1>4. \/ leido' = [leido EXCEPT ![b] = l1] /\ \E p \in {"guardarSub", "suspender"} : gPc' = [gPc EXCEPT ![b] = p]
      \/ leido' = [leido EXCEPT ![b] = l2] /\ gPc' = [gPc EXCEPT ![b] = "reservarCobro"]
      \/ leido' = [leido EXCEPT ![b] = l3] /\ gPc' = [gPc EXCEPT ![b] = "retirar"]
  BY DEF G!CobrarMora, G!Va
<1>6. {"guardarSub", "reservarCobro", "retirar", "suspender"} \subseteq PasosG
  BY DEF PasosG, G!Fases, G!PasosCobro, G!PasosPago, G!PasosSub
<1> HIDE DEF l1, l2, l3
<1>8. \/ (\E p \in {"guardarSub", "suspender"} : Ahora(b, p, l1))
      \/ Ahora(b, "reservarCobro", l2)
      \/ Ahora(b, "retirar", l3)
  BY <1>1, <1>3, <1>4, <1>6, CambiaActor
<1> QED
  BY <1>8 DEF l1, l2, l3

LEMMA RetirarDeja ==
    ASSUME G!Supuestos, Formas, Caminos, NEW b \in gBarridos, G!Retirar(b)
    PROVE  \/ Ahora(b, "suspender", [leido[b] EXCEPT !.sub = sub, !.nuevo = G!SinAcceso(sub), !.fase = "fin"])
           \/ Ahora(b, "libre", G!SinLeer)
<1> DEFINE l1 == [leido[b] EXCEPT !.sub = sub, !.nuevo = G!SinAcceso(sub), !.fase = "fin"]
<1>1. b \in G!Actores /\ leido[b] \in Lecturas /\ sub \in Suscripciones
  BY DEF Formas, G!Actores
<1>3. l1 \in Lecturas
  BY <1>1, SinLeerTipo
  DEF Lecturas, Suscripciones, Efectos, Bancos, G!Fases, G!SinAcceso, G!Cancelada
<1>4. \/ leido' = [leido EXCEPT ![b] = l1] /\ gPc' = [gPc EXCEPT ![b] = "suspender"]
      \/ leido' = [leido EXCEPT ![b] = G!SinLeer] /\ gPc' = [gPc EXCEPT ![b] = "libre"]
  BY DEF G!Retirar, G!Va
<1>6. {"libre", "suspender"} \subseteq PasosG
  BY DEF PasosG, G!Fases, G!PasosCobro, G!PasosPago, G!PasosSub
<1> HIDE DEF l1
<1>8. \/ Ahora(b, "suspender", l1)
      \/ Ahora(b, "libre", G!SinLeer)
  BY <1>1, <1>3, <1>4, <1>6, CambiaActor, SinLeerTipo
<1> QED
  BY <1>8 DEF l1

LEMMA ReservarDeja ==
    ASSUME G!Supuestos, Formas, Caminos, NEW a \in G!Actores, G!Reservar(a)
    PROVE  \/ Regresa(a)
           \/ Ahora(a, "efecto", [leido[a] EXCEPT !.hechos = pagos[leido[a].pago].efectos])
<1> DEFINE l1 == [leido[a] EXCEPT !.hechos = pagos[leido[a].pago].efectos]
<1>1. a \in G!Actores /\ leido[a] \in Lecturas /\ sub \in Suscripciones
  BY DEF Formas, G!Actores
<1>2. pagos[leido[a].pago].efectos \in SUBSET Efectos
  <2>1. pagos[leido[a].pago] \in LosPagos
    BY DEF Caminos, Camino, Formas, G!Ids, G!Reservar, G!PasosPago
  <2> QED
    BY <2>1 DEF LosPagos
<1>3. l1 \in Lecturas
  BY <1>1, <1>2, SinLeerTipo
  DEF Lecturas, Suscripciones, Efectos, Bancos, G!Fases
<1>4. \/ G!Vuelve(a)
      \/ leido' = [leido EXCEPT ![a] = l1] /\ gPc' = [gPc EXCEPT ![a] = "efecto"]
  BY DEF G!Reservar, G!Va
<1>6. {"efecto"} \subseteq PasosG
  BY DEF PasosG, G!Fases, G!PasosCobro, G!PasosPago, G!PasosSub
<1>7. gPc[a] \notin {"libre", "fin"}
  BY DEF G!Reservar
<1> HIDE DEF l1
<1>8. \/ Regresa(a)
      \/ Ahora(a, "efecto", l1)
  BY <1>1, <1>3, <1>4, <1>6, <1>7, CambiaActor, VuelveHace
<1> QED
  BY <1>8 DEF l1

LEMMA EfectoDeja ==
    ASSUME G!Supuestos, Formas, Caminos, NEW a \in G!Actores, G!Efecto(a)
    PROVE  \/ (\E p \in {"cerrar", "leerSub", "liberar"} : Ahora(a, p, leido[a]))
           \/ Ahora(a, "marcarEfecto", [leido[a] EXCEPT !.r = IF pagos[leido[a].pago].tipo = "docPackage" THEN "docCredits" ELSE "plan"])
<1> DEFINE l1 == [leido[a] EXCEPT !.r = IF pagos[leido[a].pago].tipo = "docPackage" THEN "docCredits" ELSE "plan"]
<1>1. a \in G!Actores /\ leido[a] \in Lecturas /\ sub \in Suscripciones
  BY DEF Formas, G!Actores
<1>3. l1 \in Lecturas
  BY <1>1, SinLeerTipo
  DEF Lecturas, Suscripciones, Efectos, Bancos, G!Fases
<1>4. \/ UNCHANGED leido /\ \E p \in {"cerrar", "leerSub", "liberar"} : gPc' = [gPc EXCEPT ![a] = p]
      \/ leido' = [leido EXCEPT ![a] = l1] /\ gPc' = [gPc EXCEPT ![a] = "marcarEfecto"]
  BY DEF G!Efecto, G!Va
<1>5. UNCHANGED leido => leido' = [leido EXCEPT ![a] = leido[a]]
  BY <1>1 DEF Formas
<1>6. {"cerrar", "leerSub", "liberar", "marcarEfecto"} \subseteq PasosG
  BY DEF PasosG, G!Fases, G!PasosCobro, G!PasosPago, G!PasosSub
<1> HIDE DEF l1
<1>8. \/ (\E p \in {"cerrar", "leerSub", "liberar"} : Ahora(a, p, leido[a]))
      \/ Ahora(a, "marcarEfecto", l1)
  BY <1>1, <1>3, <1>4, <1>5, <1>6, CambiaActor
<1> QED
  BY <1>8 DEF l1

LEMMA LeerSubDeja ==
    ASSUME G!Supuestos, Formas, Caminos, NEW a \in G!Actores, G!LeerSub(a)
    PROVE  \/ Ahora(a, "cerrar", leido[a])
           \/ Ahora(a, "guardarPeriodo", [leido[a] EXCEPT !.sub = sub])
<1> DEFINE l1 == [leido[a] EXCEPT !.sub = sub]
<1>1. a \in G!Actores /\ leido[a] \in Lecturas /\ sub \in Suscripciones
  BY DEF Formas, G!Actores
<1>3. l1 \in Lecturas
  BY <1>1, SinLeerTipo
  DEF Lecturas, Suscripciones, Efectos, Bancos, G!Fases
<1>4. \/ UNCHANGED leido /\ gPc' = [gPc EXCEPT ![a] = "cerrar"]
      \/ leido' = [leido EXCEPT ![a] = l1] /\ gPc' = [gPc EXCEPT ![a] = "guardarPeriodo"]
  BY DEF G!LeerSub, G!Va
<1>5. UNCHANGED leido => leido' = [leido EXCEPT ![a] = leido[a]]
  BY <1>1 DEF Formas
<1>6. {"cerrar", "guardarPeriodo"} \subseteq PasosG
  BY DEF PasosG, G!Fases, G!PasosCobro, G!PasosPago, G!PasosSub
<1> HIDE DEF l1
<1>8. \/ Ahora(a, "cerrar", leido[a])
      \/ Ahora(a, "guardarPeriodo", l1)
  BY <1>1, <1>3, <1>4, <1>5, <1>6, CambiaActor
<1> QED
  BY <1>8 DEF l1

LEMMA GuardarPeriodoDeja ==
    ASSUME G!Supuestos, Formas, Caminos, NEW a \in G!Actores, G!GuardarPeriodo(a)
    PROVE  \/ Ahora(a, "liberar", leido[a])
           \/ Ahora(a, "marcar", [leido[a] EXCEPT !.r = "period", !.sub = G!SinSub])
<1> DEFINE l1 == [leido[a] EXCEPT !.r = "period", !.sub = G!SinSub]
<1>1. a \in G!Actores /\ leido[a] \in Lecturas /\ sub \in Suscripciones
  BY DEF Formas, G!Actores
<1>3. l1 \in Lecturas
  BY <1>1, SinLeerTipo
  DEF Lecturas, Suscripciones, Efectos, Bancos, G!Fases
<1>4. \/ UNCHANGED leido /\ gPc' = [gPc EXCEPT ![a] = "liberar"]
      \/ leido' = [leido EXCEPT ![a] = l1] /\ gPc' = [gPc EXCEPT ![a] = "marcar"]
  BY DEF G!GuardarPeriodo, G!Va
<1>5. UNCHANGED leido => leido' = [leido EXCEPT ![a] = leido[a]]
  BY <1>1 DEF Formas
<1>6. {"liberar", "marcar"} \subseteq PasosG
  BY DEF PasosG, G!Fases, G!PasosCobro, G!PasosPago, G!PasosSub
<1> HIDE DEF l1
<1>8. \/ Ahora(a, "liberar", leido[a])
      \/ Ahora(a, "marcar", l1)
  BY <1>1, <1>3, <1>4, <1>5, <1>6, CambiaActor
<1> QED
  BY <1>8 DEF l1

LEMMA MarcarDeja ==
    ASSUME G!Supuestos, Formas, Caminos, NEW a \in G!Actores, G!Marcar(a)
    PROVE  (\E p \in {"leerSub", "cerrar"} : Ahora(a, p, leido[a]))
<1>1. a \in G!Actores /\ leido[a] \in Lecturas /\ sub \in Suscripciones
  BY DEF Formas, G!Actores
<1>4. UNCHANGED leido /\ \E p \in {"leerSub", "cerrar"} : gPc' = [gPc EXCEPT ![a] = p]
  BY DEF G!Marcar, G!Va
<1>5. UNCHANGED leido => leido' = [leido EXCEPT ![a] = leido[a]]
  BY <1>1 DEF Formas
<1>6. {"cerrar", "leerSub"} \subseteq PasosG
  BY DEF PasosG, G!Fases, G!PasosCobro, G!PasosPago, G!PasosSub
<1>8. (\E p \in {"leerSub", "cerrar"} : Ahora(a, p, leido[a]))
  BY <1>1, <1>4, <1>5, <1>6, CambiaActor
<1> QED
  BY <1>8

LEMMA CerrarDeja ==
    ASSUME G!Supuestos, Formas, Caminos, NEW a \in G!Actores, G!Cerrar(a)
    PROVE  Regresa(a)
<1>1. a \in G!Actores /\ leido[a] \in Lecturas /\ sub \in Suscripciones
  BY DEF Formas, G!Actores
<1>4. G!Vuelve(a)
  BY DEF G!Cerrar, G!Va
<1>7. gPc[a] \notin {"libre", "fin"}
  BY DEF G!Cerrar
<1>8. Regresa(a)
  BY <1>1, <1>4, <1>7, VuelveHace
<1> QED
  BY <1>8

LEMMA LiberarDeja ==
    ASSUME G!Supuestos, Formas, Caminos, NEW a \in G!Actores, G!Liberar(a)
    PROVE  Regresa(a)
<1>1. a \in G!Actores /\ leido[a] \in Lecturas /\ sub \in Suscripciones
  BY DEF Formas, G!Actores
<1>4. G!Vuelve(a)
  BY DEF G!Liberar, G!Va
<1>7. gPc[a] \notin {"libre", "fin"}
  BY DEF G!Liberar
<1>8. Regresa(a)
  BY <1>1, <1>4, <1>7, VuelveHace
<1> QED
  BY <1>8

LEMMA DeclinarDeja ==
    ASSUME G!Supuestos, Formas, Caminos, NEW a \in G!Actores, G!Declinar(a)
    PROVE  \/ Regresa(a)
           \/ Ahora(a, "leerMora", leido[a])
<1>1. a \in G!Actores /\ leido[a] \in Lecturas /\ sub \in Suscripciones
  BY DEF Formas, G!Actores
<1>4. \/ G!Vuelve(a)
      \/ UNCHANGED leido /\ gPc' = [gPc EXCEPT ![a] = "leerMora"]
  BY DEF G!Declinar, G!Va
<1>5. UNCHANGED leido => leido' = [leido EXCEPT ![a] = leido[a]]
  BY <1>1 DEF Formas
<1>6. {"leerMora"} \subseteq PasosG
  BY DEF PasosG, G!Fases, G!PasosCobro, G!PasosPago, G!PasosSub
<1>7. gPc[a] \notin {"libre", "fin"}
  BY DEF G!Declinar
<1>8. \/ Regresa(a)
      \/ Ahora(a, "leerMora", leido[a])
  BY <1>1, <1>4, <1>5, <1>6, <1>7, CambiaActor, VuelveHace
<1> QED
  BY <1>8

LEMMA SuspenderDeja ==
    ASSUME G!Supuestos, Formas, Caminos, NEW a \in G!Actores, G!Suspender(a)
    PROVE  Ahora(a, "guardarSub", leido[a])
<1>1. a \in G!Actores /\ leido[a] \in Lecturas /\ sub \in Suscripciones
  BY DEF Formas, G!Actores
<1>4. UNCHANGED leido /\ gPc' = [gPc EXCEPT ![a] = "guardarSub"]
  BY DEF G!Suspender, G!Va
<1>5. UNCHANGED leido => leido' = [leido EXCEPT ![a] = leido[a]]
  BY <1>1 DEF Formas
<1>6. {"guardarSub"} \subseteq PasosG
  BY DEF PasosG, G!Fases, G!PasosCobro, G!PasosPago, G!PasosSub
<1>8. Ahora(a, "guardarSub", leido[a])
  BY <1>1, <1>4, <1>5, <1>6, CambiaActor
<1> QED
  BY <1>8

LEMMA GuardarSubDeja ==
    ASSUME G!Supuestos, Formas, Caminos, NEW a \in G!Actores, G!GuardarSub(a)
    PROVE  Regresa(a)
<1>1. a \in G!Actores /\ leido[a] \in Lecturas /\ sub \in Suscripciones
  BY DEF Formas, G!Actores
<1>4. G!Vuelve(a)
  BY DEF G!GuardarSub, G!Va
<1>7. gPc[a] \notin {"libre", "fin"}
  BY DEF G!GuardarSub
<1>8. Regresa(a)
  BY <1>1, <1>4, <1>7, VuelveHace
<1> QED
  BY <1>8

LEMMA OtraDeja ==
    ASSUME G!Supuestos, Formas, Caminos, NEW a \in G!Actores, G!Otra(a)
    PROVE  Ahora(a, "libre", G!SinLeer)
<1>1. a \in G!Actores /\ leido[a] \in Lecturas /\ sub \in Suscripciones
  BY DEF Formas, G!Actores
<1>4. leido' = [leido EXCEPT ![a] = G!SinLeer] /\ gPc' = [gPc EXCEPT ![a] = "libre"]
  BY DEF G!Otra, G!Va
<1>6. {"libre"} \subseteq PasosG
  BY DEF PasosG, G!Fases, G!PasosCobro, G!PasosPago, G!PasosSub
<1>8. Ahora(a, "libre", G!SinLeer)
  BY <1>1, <1>4, <1>6, CambiaActor, SinLeerTipo
<1> QED
  BY <1>8

LEMMA CorteDeja ==
    ASSUME G!Supuestos, Formas, Caminos, NEW a \in G!Actores, G!Corte(a)
    PROVE  Ahora(a, "fin", G!SinLeer)
<1>1. a \in G!Actores /\ leido[a] \in Lecturas /\ sub \in Suscripciones
  BY DEF Formas, G!Actores
<1>4. leido' = [leido EXCEPT ![a] = G!SinLeer] /\ gPc' = [gPc EXCEPT ![a] = "fin"]
  BY DEF G!Corte, G!Va
<1>6. {"fin"} \subseteq PasosG
  BY DEF PasosG, G!Fases, G!PasosCobro, G!PasosPago, G!PasosSub
<1>8. Ahora(a, "fin", G!SinLeer)
  BY <1>1, <1>4, <1>6, CambiaActor, SinLeerTipo
<1> QED
  BY <1>8

LEMMA CancelarDeja ==
    ASSUME G!Supuestos, Formas, Caminos, NEW c \in Cancelaciones, G!Cancelar(c)
    PROVE  \E p \in {"guardarSub", "suspender"}, n \in Suscripciones :
             Ahora(c, p, [leido[c] EXCEPT !.sub = sub, !.nuevo = n])
<1>1. c \in G!Actores /\ leido[c] \in Lecturas /\ sub \in Suscripciones
  BY DEF Formas, G!Actores
<1> DEFINE s == [G!Cancelada(sub) EXCEPT !.proximo = G!Ninguno]
<1>2. s \in Suscripciones /\ G!SinAcceso(s) \in Suscripciones
  BY <1>1 DEF Suscripciones, G!Cancelada, G!Ninguno, G!SinAcceso
<1> HIDE DEF s
<1>3. PICK n \in {s, G!SinAcceso(s)} : G!Prepara(c, sub, n)
  BY DEF G!Cancelar, s
<1>4. n \in Suscripciones
  BY <1>2, <1>3
<1> DEFINE l == [leido[c] EXCEPT !.sub = sub, !.nuevo = n]
<1>5. l \in Lecturas
  BY <1>1, <1>4 DEF Lecturas
<1>6. PICK p \in {"guardarSub", "suspender"} :
        leido' = [leido EXCEPT ![c] = l] /\ gPc' = [gPc EXCEPT ![c] = p]
  BY <1>3 DEF G!Prepara, G!Va
<1>7. p \in PasosG
  BY DEF PasosG, G!PasosSub
<1> HIDE DEF l
<1>8. Ahora(c, p, l)
  BY <1>1, <1>5, <1>6, <1>7, CambiaActor
<1> QED
  BY <1>4, <1>8 DEF l

LEMMA ReconciliarDeja ==
    ASSUME G!Supuestos, Formas, Caminos, NEW b \in gBarridos, G!Reconciliar(b)
    PROVE  \/ \E k \in leido[b].lista : k \in G!Ids /\ Sincroniza(b, k, pagos[k].banco)
           \/ Regresa(b)
           \/ \E s \in SUBSET {k \in G!Ids : pagos[k].estado = "approved"} :
                Ahora(b, "retomar", [leido[b] EXCEPT !.fase = "retomar", !.lista = s])
<1>1. b \in G!Actores /\ leido[b] \in Lecturas /\ leido[b].fase \in G!Fases \cup {"fin"}
  BY DEF Formas, Caminos, Camino, G!Actores, G!Reconciliar
<1>2. ASSUME NEW k \in leido[b].lista, G!Sync(b, k, pagos[k].banco)
      PROVE  k \in G!Ids /\ Sincroniza(b, k, pagos[k].banco)
  <2>1. k \in G!Ids /\ k \in Nat
    BY <1>1 DEF Caminos, Camino, Formas, Lecturas
  <2> QED
    BY <1>1, <1>2, <2>1, SyncHace DEF Sincroniza, ActoresQuedan, Quietos
<1>3. ASSUME NEW k \in leido[b].lista, G!Acaba(b, k) PROVE Regresa(b)
  BY <1>1, <1>3, AcabaHace DEF Regresa, ActoresQuedan, Quietos
<1>4. ASSUME NEW s \in SUBSET {k \in G!Ids : pagos[k].estado = "approved"}, G!Va(b, "retomar"),
             leido' = [leido EXCEPT ![b].fase = "retomar", ![b].lista = s]
      PROVE  Ahora(b, "retomar", [leido[b] EXCEPT !.fase = "retomar", !.lista = s])
  <2> DEFINE l == [leido[b] EXCEPT !.fase = "retomar", !.lista = s]
  <2>1. s \in SUBSET Nat
    BY DEF Formas, G!Ids
  <2>2. l \in Lecturas /\ "retomar" \in PasosG
    BY <1>1, <2>1 DEF Lecturas, G!Fases, PasosG
  <2>3. leido' = [leido EXCEPT ![b] = l] /\ gPc' = [gPc EXCEPT ![b] = "retomar"]
    BY <1>4 DEF G!Va
  <2> HIDE DEF l
  <2>4. Ahora(b, "retomar", l)
    BY <1>1, <2>2, <2>3, CambiaActor
  <2> QED
    BY <2>4 DEF l
<1>5. CASE \E k \in leido[b].lista : G!Sync(b, k, pagos[k].banco) \/ G!Acaba(b, k)
  BY <1>2, <1>3, <1>5
<1>6. CASE /\ leido' = [leido EXCEPT ![b].fase = "retomar",
               ![b].lista = {k \in G!Ids : pagos[k].estado = "approved" /\ ~pagos[k].aplicado
                                         /\ G!Caduca(k)}]
           /\ G!Va(b, "retomar")
  <2> DEFINE s == {k \in G!Ids : pagos[k].estado = "approved" /\ ~pagos[k].aplicado /\ G!Caduca(k)}
  <2>1. s \in SUBSET {k \in G!Ids : pagos[k].estado = "approved"}
    OBVIOUS
  <2>2. leido' = [leido EXCEPT ![b].fase = "retomar", ![b].lista = s] /\ G!Va(b, "retomar")
    BY <1>6
  <2> HIDE DEF s
  <2> QED
    BY <1>4, <2>1, <2>2
<1> QED
  BY <1>5, <1>6 DEF G!Reconciliar

LEMMA RetomarDeja ==
    ASSUME G!Supuestos, Formas, Caminos, NEW b \in gBarridos, G!Retomar(b)
    PROVE  \/ \E k \in leido[b].lista : Ahora(b, "reservar", [leido[b] EXCEPT !.pago = k])
           \/ Ahora(b, "cobrar", [leido[b] EXCEPT !.fase = "cobrar"])
<1>1. b \in G!Actores /\ leido[b] \in Lecturas /\ {"reservar", "cobrar"} \subseteq PasosG
  BY DEF Formas, G!Actores, PasosG, G!Fases, G!PasosPago
<1>2. ASSUME NEW k \in leido[b].lista, leido' = [leido EXCEPT ![b].pago = k], G!Va(b, "reservar")
      PROVE  Ahora(b, "reservar", [leido[b] EXCEPT !.pago = k])
  <2> DEFINE l == [leido[b] EXCEPT !.pago = k]
  <2>1. l \in Lecturas
    BY <1>1 DEF Lecturas
  <2>2. leido' = [leido EXCEPT ![b] = l] /\ gPc' = [gPc EXCEPT ![b] = "reservar"]
    BY <1>2 DEF G!Va
  <2> HIDE DEF l
  <2>3. Ahora(b, "reservar", l)
    BY <1>1, <2>1, <2>2, CambiaActor
  <2> QED
    BY <2>3 DEF l
<1>3. ASSUME leido' = [leido EXCEPT ![b].fase = "cobrar"], G!Va(b, "cobrar")
      PROVE  Ahora(b, "cobrar", [leido[b] EXCEPT !.fase = "cobrar"])
  <2> DEFINE l == [leido[b] EXCEPT !.fase = "cobrar"]
  <2>1. l \in Lecturas
    BY <1>1 DEF Lecturas, G!Fases
  <2>2. leido' = [leido EXCEPT ![b] = l] /\ gPc' = [gPc EXCEPT ![b] = "cobrar"]
    BY <1>3 DEF G!Va
  <2> HIDE DEF l
  <2>3. Ahora(b, "cobrar", l)
    BY <1>1, <2>1, <2>2, CambiaActor
  <2> QED
    BY <2>3 DEF l
<1> QED
  BY <1>2, <1>3 DEF G!Retomar

LEMMA CrearPagoDeja ==
    ASSUME G!Supuestos, Formas, Caminos, NEW a \in G!Actores, G!CrearPago(a)
    PROVE  \/ Regresa(a) /\ UNCHANGED pagos
           \/ /\ Ahora(a, "transar", [leido[a] EXCEPT !.pago = Len(pagos) + 1])
              /\ \E p \in LosPagos :
                   /\ p.estado = "pending" /\ p.banco = "no" /\ ~p.aplicado /\ p.efectos = {}
                   /\ pagos'[Len(pagos) + 1] = p
              /\ Len(pagos) + 1 \in G!Ids' /\ G!Ids' = G!Ids \cup {Len(pagos) + 1}
              /\ Len(pagos) + 1 \notin G!Ids /\ \A k \in G!Ids : pagos'[k] = pagos[k]
<1>1. leido[a] \in Lecturas /\ Len(pagos) + 1 \in Nat /\ "transar" \in PasosG
  BY DEF Formas, PasosG, G!PasosCobro
<1>2. CASE G!Vuelve(a) /\ UNCHANGED pagos
  <2>1. gPc[a] \notin {"libre", "fin"}
    BY DEF G!CrearPago
  <2> QED
    BY <1>2, <2>1, VuelveHace
<1>3. CASE ~ (G!Vuelve(a) /\ UNCHANGED pagos)
  <2> DEFINE l == [leido[a] EXCEPT !.pago = Len(pagos) + 1]
  <2>1. l \in Lecturas
    BY <1>1 DEF Lecturas
  <2>2. /\ leido' = [leido EXCEPT ![a] = l] /\ gPc' = [gPc EXCEPT ![a] = "transar"]
        /\ pagos' \in Seq(LosPagos) /\ Len(pagos') = Len(pagos) + 1
        /\ \A k \in G!Ids : k \in G!Ids' /\ pagos'[k] = pagos[k]
        /\ \E p \in LosPagos :
             /\ p.estado = "pending" /\ p.banco = "no" /\ ~p.aplicado /\ p.efectos = {}
             /\ pagos'[Len(pagos) + 1] = p
    BY <1>3, CreaPago DEF G!Va
  <2> HIDE DEF l
  <2>3. Ahora(a, "transar", l)
    BY <1>1, <2>1, <2>2, CambiaActor
  <2>4. G!Ids = 1..Len(pagos) /\ G!Ids' = 1..Len(pagos') /\ Len(pagos) \in Nat
    BY <2>2 DEF G!Ids, Formas
  <2>5. /\ Len(pagos) + 1 \in G!Ids' /\ G!Ids' = G!Ids \cup {Len(pagos) + 1}
        /\ Len(pagos) + 1 \notin G!Ids
    BY <2>2, <2>4
  <2> QED
    BY <2>2, <2>3, <2>5 DEF l
<1> QED
  BY <1>2, <1>3

LEMMA TransarDeja ==
    ASSUME G!Supuestos, Formas, Caminos, NEW a \in G!Actores, G!Transar(a)
    PROVE  \/ Regresa(a)
           \/ \E r \in {"pending", "approved", "declined"} :
                /\ Ahora(a, "anotar", [leido[a] EXCEPT !.r = r])
                /\ Solo(leido[a].pago, [pagos[leido[a].pago] EXCEPT !.banco = r])
<1> DEFINE k == leido[a].pago
<1>1. leido[a] \in Lecturas /\ "anotar" \in PasosG /\ gPc[a] = "transar" /\ k \in G!Ids /\ pagos[k] \in LosPagos
  BY DEF Formas, PasosG, G!PasosCobro, G!Transar, Caminos, Camino, G!Ids
<1>2. CASE G!Vuelve(a)
  BY <1>1, <1>2, VuelveHace
<1>3. ASSUME NEW r \in {"pending", "approved", "declined"}, pagos' = [pagos EXCEPT ![k].banco = r],
             leido' = [leido EXCEPT ![a].r = r], G!Va(a, "anotar")
      PROVE  /\ Ahora(a, "anotar", [leido[a] EXCEPT !.r = r])
             /\ Solo(k, [pagos[k] EXCEPT !.banco = r])
  <2> DEFINE l == [leido[a] EXCEPT !.r = r]
             p == [pagos[k] EXCEPT !.banco = r]
  <2>1. l \in Lecturas
    BY <1>1 DEF Lecturas, Bancos
  <2>2. p \in LosPagos
    BY <1>1 DEF LosPagos, Bancos
  <2>3. leido' = [leido EXCEPT ![a] = l] /\ gPc' = [gPc EXCEPT ![a] = "anotar"]
    BY <1>3 DEF G!Va
  <2>4. pagos' = [pagos EXCEPT ![k] = p]
    BY <1>3
  <2> HIDE DEF l, p, k
  <2>5. Ahora(a, "anotar", l)
    BY <1>1, <2>1, <2>3, CambiaActor
  <2>6. Solo(k, p)
    BY <1>1, <2>2, <2>4, CambiaPago DEF Formas
  <2> QED
    BY <2>5, <2>6 DEF l, p
<1> QED
  BY <1>2, <1>3 DEF G!Transar

LEMMA AnotarDeja ==
    ASSUME G!Supuestos, Formas, Caminos, NEW a \in G!Actores, G!Anotar(a)
    PROVE  Sincroniza(a, leido[a].pago, leido[a].r)
<1>1. /\ a \in gBarridos => leido[a].fase \in G!Fases \cup {"fin"}
      /\ leido[a].pago \in Nat
  BY DEF Formas, Lecturas, Caminos, Camino, G!Anotar
<1>2. G!Sync(a, leido[a].pago, leido[a].r)
  BY DEF G!Anotar
<1> QED
  BY <1>1, <1>2, SyncHace DEF Sincroniza, ActoresQuedan, Quietos

LEMMA AvisoDeja ==
    ASSUME G!Supuestos, Formas, Caminos, NEW w \in Avisos, G!Aviso(w)
    PROVE  \E k \in G!Ids : /\ Sincroniza(w, k, pagos[k].banco)
                            /\ Solo(k, [pagos[k] EXCEPT !.tx = TRUE])
<1>1. w \in G!Actores /\ w \notin gBarridos
  BY DEF G!Actores, G!Supuestos
<1>2. PICK k \in G!Ids : G!Sync(w, k, pagos[k].banco) /\ pagos' = [pagos EXCEPT ![k].tx = TRUE]
  BY DEF G!Aviso
<1>3. k \in Nat
  BY DEF Formas, G!Ids
<1>4. Sincroniza(w, k, pagos[k].banco)
  BY <1>1, <1>2, <1>3, SyncHace DEF Sincroniza, ActoresQuedan, Quietos
<1> QED
  BY <1>2, <1>4, EscribenOtros

LEMMA LeerMoraDeja ==
    ASSUME G!Supuestos, Formas, Caminos, NEW a \in G!Actores, G!LeerMora(a)
    PROVE  \/ Regresa(a)
           \/ \E n \in Suscripciones : Ahora(a, "guardarSub", [leido[a] EXCEPT !.sub = sub, !.nuevo = n])
<1>1. /\ leido[a] \in Lecturas /\ sub \in Suscripciones /\ "guardarSub" \in PasosG
      /\ gPc[a] \notin {"libre", "fin"}
  BY DEF Formas, PasosG, G!PasosSub, G!LeerMora
<1> DEFINE f == sub.fallidos + 1
           n == IF pagos[leido[a].pago].tipo = "renewal"
                THEN [sub EXCEPT !.estado = "past_due", !.fallidos = f]
                ELSE [sub EXCEPT !.fallidos = f]
           l == [leido[a] EXCEPT !.sub = sub, !.nuevo = n]
<1>2. n \in Suscripciones
  <2>1. f \in Nat
    BY <1>1 DEF Suscripciones
  <2> HIDE DEF f
  <2> QED
    BY <1>1, <2>1 DEF Suscripciones
<1>3. \/ G!Vuelve(a)
      \/ leido' = [leido EXCEPT ![a] = l] /\ gPc' = [gPc EXCEPT ![a] = "guardarSub"]
  BY DEF G!LeerMora, G!Va
<1> HIDE DEF n
<1>4. l \in Lecturas
  BY <1>1, <1>2 DEF Lecturas
<1> HIDE DEF l
<1>5. Regresa(a) \/ Ahora(a, "guardarSub", l)
  BY <1>1, <1>3, <1>4, VuelveHace, CambiaActor
<1> QED
  BY <1>2, <1>5 DEF l


LEMMA ActoresPaso ==
    ASSUME G!Supuestos
    PROVE  Formas /\ Caminos /\ [G!Next]_(G!vars) => ActoresQuedan
<1> SUFFICES ASSUME Formas, Caminos, [G!Next]_(G!vars) PROVE ActoresQuedan
  OBVIOUS
<1>1. ASSUME NEW u \in Altas, G!Alta(u) PROVE ActoresQuedan
  BY <1>1, AltaDeja DEF Ahora, Regresa, Sincroniza
<1>2. ASSUME NEW u \in Compras, G!Comprar(u) PROVE ActoresQuedan
  BY <1>2, ComprarDeja DEF Ahora, Regresa, Sincroniza
<1>3. ASSUME NEW w \in Avisos, G!Aviso(w) PROVE ActoresQuedan
  BY <1>3, AvisoDeja DEF Ahora, Regresa, Sincroniza
<1>4. ASSUME NEW c \in Cancelaciones, G!Cancelar(c) PROVE ActoresQuedan
  BY <1>4, CancelarDeja DEF Ahora, Regresa, Sincroniza
<1>5. ASSUME NEW b \in gBarridos, G!Barrer(b) PROVE ActoresQuedan
  BY <1>5, BarrerDeja DEF Ahora, Regresa, Sincroniza
<1>6. ASSUME NEW b \in gBarridos, G!Reconciliar(b) PROVE ActoresQuedan
  BY <1>6, ReconciliarDeja DEF Ahora, Regresa, Sincroniza
<1>7. ASSUME NEW b \in gBarridos, G!Retomar(b) PROVE ActoresQuedan
  BY <1>7, RetomarDeja DEF Ahora, Regresa, Sincroniza
<1>8. ASSUME NEW b \in gBarridos, G!CobrarVencida(b) PROVE ActoresQuedan
  BY <1>8, CobrarVencidaDeja DEF Ahora, Regresa, Sincroniza
<1>9. ASSUME NEW b \in gBarridos, G!ReservarCobro(b) PROVE ActoresQuedan
  BY <1>9, ReservarCobroDeja DEF Ahora, Regresa, Sincroniza
<1>10. ASSUME NEW b \in gBarridos, G!CobrarMora(b) PROVE ActoresQuedan
  BY <1>10, CobrarMoraDeja DEF Ahora, Regresa, Sincroniza
<1>11. ASSUME NEW b \in gBarridos, G!Retirar(b) PROVE ActoresQuedan
  BY <1>11, RetirarDeja DEF Ahora, Regresa, Sincroniza
<1>12. ASSUME NEW a \in G!Actores, G!CrearPago(a) PROVE ActoresQuedan
  BY <1>12, CrearPagoDeja DEF Ahora, Regresa, Sincroniza
<1>13. ASSUME NEW a \in G!Actores, G!Transar(a) PROVE ActoresQuedan
  BY <1>13, TransarDeja DEF Ahora, Regresa, Sincroniza
<1>14. ASSUME NEW a \in G!Actores, G!Anotar(a) PROVE ActoresQuedan
  BY <1>14, AnotarDeja DEF Ahora, Regresa, Sincroniza
<1>15. ASSUME NEW a \in G!Actores, G!Reservar(a) PROVE ActoresQuedan
  BY <1>15, ReservarDeja DEF Ahora, Regresa, Sincroniza
<1>16. ASSUME NEW a \in G!Actores, G!Efecto(a) PROVE ActoresQuedan
  BY <1>16, EfectoDeja DEF Ahora, Regresa, Sincroniza
<1>17. ASSUME NEW a \in G!Actores, G!LeerSub(a) PROVE ActoresQuedan
  BY <1>17, LeerSubDeja DEF Ahora, Regresa, Sincroniza
<1>18. ASSUME NEW a \in G!Actores, G!GuardarPeriodo(a) PROVE ActoresQuedan
  BY <1>18, GuardarPeriodoDeja DEF Ahora, Regresa, Sincroniza
<1>19. ASSUME NEW a \in G!Actores, G!Marcar(a) PROVE ActoresQuedan
  BY <1>19, MarcarDeja DEF Ahora, Regresa, Sincroniza
<1>20. ASSUME NEW a \in G!Actores, G!Cerrar(a) PROVE ActoresQuedan
  BY <1>20, CerrarDeja DEF Ahora, Regresa, Sincroniza
<1>21. ASSUME NEW a \in G!Actores, G!Liberar(a) PROVE ActoresQuedan
  BY <1>21, LiberarDeja DEF Ahora, Regresa, Sincroniza
<1>22. ASSUME NEW a \in G!Actores, G!Declinar(a) PROVE ActoresQuedan
  BY <1>22, DeclinarDeja DEF Ahora, Regresa, Sincroniza
<1>23. ASSUME NEW a \in G!Actores, G!LeerMora(a) PROVE ActoresQuedan
  BY <1>23, LeerMoraDeja DEF Ahora, Regresa, Sincroniza
<1>24. ASSUME NEW a \in G!Actores, G!Suspender(a) PROVE ActoresQuedan
  BY <1>24, SuspenderDeja DEF Ahora, Regresa, Sincroniza
<1>25. ASSUME NEW a \in G!Actores, G!GuardarSub(a) PROVE ActoresQuedan
  BY <1>25, GuardarSubDeja DEF Ahora, Regresa, Sincroniza
<1>26. ASSUME NEW a \in G!Actores, G!Otra(a) PROVE ActoresQuedan
  BY <1>26, OtraDeja DEF Ahora, Regresa, Sincroniza
<1>27. ASSUME NEW a \in G!Actores, G!Corte(a) PROVE ActoresQuedan
  BY <1>27, CorteDeja DEF Ahora, Regresa, Sincroniza
<1>28. ASSUME NEW k \in G!Ids, G!Decide(k) PROVE ActoresQuedan
  BY <1>28 DEF ActoresQuedan, Formas, G!Decide
<1>29. ASSUME G!NuevoDia PROVE ActoresQuedan
  BY <1>29 DEF ActoresQuedan, Formas, G!NuevoDia
<1>30. CASE UNCHANGED G!vars
  BY <1>30
  DEF ActoresQuedan, Formas, G!vars
<1> QED
  BY <1>1, <1>2, <1>3, <1>4, <1>5, <1>6, <1>7, <1>8, <1>9, <1>10, <1>11, <1>12, <1>13, <1>14,
     <1>15, <1>16, <1>17, <1>18, <1>19, <1>20, <1>21, <1>22, <1>23, <1>24, <1>25, <1>26,
     <1>27, <1>28, <1>29, <1>30
  DEF G!Next, G!Cobra, G!Aplica, G!Barre


LEMMA FormasPaso ==
    ASSUME G!Supuestos
    PROVE  Formas /\ Caminos /\ Marcas /\ [G!Next]_(G!vars) => Formas'
<1> SUFFICES ASSUME Formas, Caminos, Marcas, [G!Next]_(G!vars) PROVE Formas'
  OBVIOUS
<1>1. PagosQuedan /\ sub' \in Suscripciones /\ RestoQueda /\ ActoresQuedan
  BY PagosPaso, SubPaso, RestoPaso, ActoresPaso
<1> QED
  BY <1>1 DEF Formas, PagosQuedan, RestoQueda, ActoresQuedan

\* A step of actor a disturbs the way of nobody else.
LEMMA CaminosDe ==
    ASSUME Caminos, PagosQuedan, NEW a \in G!Actores, Quietos(a), Camino(a)',
           empresa'.acreditados \subseteq G!Ids'
    PROVE  Caminos'
<1>1. G!Ids \subseteq G!Ids'
  BY DEF PagosQuedan
<1>2. ASSUME NEW b \in G!Actores \ {a} PROVE Camino(b)'
  <2>1. gPc'[b] = gPc[b] /\ leido'[b] = leido[b] /\ Camino(b)
    BY DEF Quietos, Caminos
  <2> QED
    BY <1>1, <2>1 DEF Camino
<1> QED
  BY <1>2 DEF Caminos

\* Which steps change the company, and which one moves a period.
LEMMA QuienesCambian ==
    ASSUME [G!Next]_(G!vars)
    PROVE  /\ UNCHANGED empresa \/ \E a \in G!Actores : G!Efecto(a) \/ G!Suspender(a)
           /\ UNCHANGED avances \/ \E a \in G!Actores : G!GuardarPeriodo(a)
<1>1. ASSUME NEW u, G!Alta(u) \/ G!Comprar(u) \/ G!Aviso(u) \/ G!Cancelar(u) \/ G!Decide(u)
      PROVE  UNCHANGED <<empresa, avances>>
  BY <1>1 DEF G!Alta, G!Comprar, G!Aviso, G!Cancelar, G!Decide
<1>2. ASSUME NEW b, G!Barre(b) PROVE UNCHANGED <<empresa, avances>>
  BY <1>2
  DEF G!Barre, G!Barrer, G!Reconciliar, G!Retomar, G!CobrarVencida, G!ReservarCobro, G!CobrarMora,
      G!Retirar
<1>3. ASSUME NEW a, G!Cobra(a) \/ G!Otra(a) \/ G!Corte(a) PROVE UNCHANGED <<empresa, avances>>
  BY <1>3 DEF G!Cobra, G!CrearPago, G!Transar, G!Anotar, G!Otra, G!Corte
<1>4. ASSUME NEW a, G!Aplica(a)
      PROVE  \/ UNCHANGED <<empresa, avances>>
             \/ (G!Efecto(a) \/ G!Suspender(a)) /\ UNCHANGED avances
             \/ G!GuardarPeriodo(a) /\ UNCHANGED empresa
  <2>1. ASSUME G!Reservar(a) \/ G!LeerSub(a) \/ G!Marcar(a) \/ G!Cerrar(a) \/ G!Liberar(a)
        PROVE  UNCHANGED <<empresa, avances>>
    BY <2>1 DEF G!Reservar, G!LeerSub, G!Marcar, G!Cerrar, G!Liberar
  <2>2. ASSUME G!Declinar(a) \/ G!LeerMora(a) \/ G!GuardarSub(a) PROVE UNCHANGED <<empresa, avances>>
    BY <2>2 DEF G!Declinar, G!LeerMora, G!GuardarSub
  <2>3. G!Efecto(a) \/ G!Suspender(a) => UNCHANGED avances
    BY DEF G!Efecto, G!Suspender
  <2>4. G!GuardarPeriodo(a) => UNCHANGED empresa
    BY DEF G!GuardarPeriodo
  <2> QED
    BY <1>4, <2>1, <2>2, <2>3, <2>4 DEF G!Aplica
<1>5. UNCHANGED G!vars => UNCHANGED <<empresa, avances>>
  BY DEF G!vars
<1>6. G!NuevoDia => UNCHANGED <<empresa, avances>>
  BY DEF G!NuevoDia
<1> QED
  BY <1>1, <1>2, <1>3, <1>4, <1>5, <1>6 DEF G!Next

\* The packages the company counts are payments.
LEMMA AcreditadosPaso ==
    ASSUME Formas, Caminos, PagosQuedan, [G!Next]_(G!vars)
    PROVE  empresa'.acreditados \subseteq G!Ids'
<1>1. G!Ids \subseteq G!Ids' /\ empresa.acreditados \subseteq G!Ids
  BY DEF PagosQuedan, Caminos
<1>2. CASE empresa'.acreditados = empresa.acreditados
  BY <1>1, <1>2
<1>3. ASSUME NEW a \in G!Actores, G!Efecto(a) PROVE empresa'.acreditados \subseteq G!Ids'
  <2>1. leido[a].pago \in G!Ids
    BY <1>3 DEF Caminos, Camino, G!Efecto, G!PasosPago
  <2>2. empresa'.acreditados \subseteq empresa.acreditados \cup {leido[a].pago}
    BY <1>3 DEF G!Efecto, G!Acreditar, Formas
  <2> QED
    BY <1>1, <2>1, <2>2
<1>4. ASSUME NEW a \in G!Actores, G!Suspender(a) PROVE empresa'.acreditados = empresa.acreditados
  BY <1>4 DEF G!Suspender, Formas
<1>5. \/ UNCHANGED empresa
      \/ \E a \in G!Actores : G!Efecto(a) \/ G!Suspender(a)
  BY QuienesCambian
<1> QED
  BY <1>2, <1>3, <1>4, <1>5

LEMMA CaminosPaso ==
    ASSUME G!Supuestos
    PROVE  Formas /\ Caminos /\ Marcas /\ [G!Next]_(G!vars) => Caminos'
<1> SUFFICES ASSUME Formas, Caminos, Marcas, [G!Next]_(G!vars) PROVE Caminos'
  OBVIOUS
<1>0. PagosQuedan /\ empresa'.acreditados \subseteq G!Ids'
  BY PagosPaso, AcreditadosPaso
<1>1. ASSUME NEW u \in Altas, G!Alta(u) PROVE Caminos'
  <2>1. u \in G!Actores /\ leido[u] \in Lecturas /\ Camino(u) /\ G!Ids \subseteq G!Ids'
    BY <1>0 DEF G!Actores, Formas, Caminos, PagosQuedan
  <2>2. Quietos(u)
    BY <1>1, AltaDeja DEF Ahora, Regresa, Sincroniza
  <2>9. u \notin gBarridos
    BY DEF G!Supuestos
  <2>5. Ahora(u, "crear", [leido[u] EXCEPT !.r = "subscription"])
    BY <1>1, AltaDeja
  <2>3. gPc'[u] = "crear" /\ leido'[u].r = "subscription" /\ leido'[u].lista = leido[u].lista
    BY <2>1, <2>5 DEF Ahora, Regresa, Lecturas
  <2>4. Camino(u)'
    BY <1>1, <2>1, <2>3, <2>9 DEF Camino, G!Fases, G!PasosPago, G!Alta
  <2> QED
    BY <1>0, <2>1, <2>2, <2>4, CaminosDe
<1>2. ASSUME NEW u \in Compras, G!Comprar(u) PROVE Caminos'
  <2>1. u \in G!Actores /\ leido[u] \in Lecturas /\ Camino(u) /\ G!Ids \subseteq G!Ids'
    BY <1>0 DEF G!Actores, Formas, Caminos, PagosQuedan
  <2>2. Quietos(u)
    BY <1>2, ComprarDeja DEF Ahora, Regresa, Sincroniza
  <2>9. u \notin gBarridos
    BY DEF G!Supuestos
  <2>5. Ahora(u, "crear", [leido[u] EXCEPT !.r = "docPackage"])
    BY <1>2, ComprarDeja
  <2>3. gPc'[u] = "crear" /\ leido'[u].r = "docPackage" /\ leido'[u].lista = leido[u].lista
    BY <2>1, <2>5 DEF Ahora, Regresa, Lecturas
  <2>4. Camino(u)'
    BY <1>2, <2>1, <2>3, <2>9 DEF Camino, G!Fases, G!PasosPago, G!Comprar
  <2> QED
    BY <1>0, <2>1, <2>2, <2>4, CaminosDe
<1>3. ASSUME NEW w \in Avisos, G!Aviso(w) PROVE Caminos'
  <2>1. w \in G!Actores /\ leido[w] \in Lecturas /\ Camino(w) /\ G!Ids \subseteq G!Ids'
    BY <1>0 DEF G!Actores, Formas, Caminos, PagosQuedan
  <2>2. Quietos(w)
    BY <1>3, AvisoDeja DEF Ahora, Regresa, Sincroniza
  <2>9. w \notin gBarridos
    BY DEF G!Supuestos
  <2>3. Camino(w)'
    BY <1>3, <2>1, <2>9, AvisoDeja
    DEF Camino, Ahora, Regresa, Sincroniza, Lecturas, G!Fases, G!PasosPago, G!PasosSub, G!Aviso
  <2> QED
    BY <1>0, <2>1, <2>2, <2>3, CaminosDe
<1>4. ASSUME NEW c \in Cancelaciones, G!Cancelar(c) PROVE Caminos'
  <2>1. c \in G!Actores /\ leido[c] \in Lecturas /\ Camino(c) /\ G!Ids \subseteq G!Ids'
    BY <1>0 DEF G!Actores, Formas, Caminos, PagosQuedan
  <2>2. Quietos(c)
    BY <1>4, CancelarDeja DEF Ahora, Regresa, Sincroniza
  <2>9. c \notin gBarridos
    BY DEF G!Supuestos
  <2>5. \E p \in {"guardarSub", "suspender"}, n \in Suscripciones :
          Ahora(c, p, [leido[c] EXCEPT !.sub = sub, !.nuevo = n])
    BY <1>4, CancelarDeja
  <2>3. gPc'[c] \in {"guardarSub", "suspender"} /\ leido'[c].lista = leido[c].lista
    BY <2>1, <2>5 DEF Ahora, Regresa, Lecturas
  <2>4. Camino(c)'
    BY <1>4, <2>1, <2>3, <2>9 DEF Camino, G!Fases, G!PasosPago, G!Cancelar
  <2> QED
    BY <1>0, <2>1, <2>2, <2>4, CaminosDe
<1>5. ASSUME NEW b \in gBarridos, G!Barrer(b) PROVE Caminos'
  <2>1. b \in G!Actores /\ leido[b] \in Lecturas /\ Camino(b) /\ G!Ids \subseteq G!Ids'
    BY <1>0 DEF G!Actores, Formas, Caminos, PagosQuedan
  <2>2. Quietos(b)
    BY <1>5, BarrerDeja DEF Ahora, Regresa, Sincroniza
  <2> DEFINE s == {k \in G!Ids : pagos[k].estado = "pending" /\ pagos[k].tx}
  <2>5. Ahora(b, "reconciliar", [G!SinLeer EXCEPT !.ahora = dia, !.fase = "reconciliar", !.lista = s])
    BY <1>5, BarrerDeja
  <2>6. s \subseteq G!Ids
    OBVIOUS
  <2> HIDE DEF s
  <2>3. gPc'[b] = "reconciliar" /\ leido'[b].lista \subseteq G!Ids /\ leido'[b].fase = "reconciliar"
    BY <2>1, SinLeerTipo, <2>5, <2>6 DEF Ahora, Regresa, Lecturas
  <2>4. Camino(b)'
    BY <1>5, <2>1, <2>3 DEF Camino, G!Fases, G!PasosPago, G!Barrer
  <2> QED
    BY <1>0, <2>1, <2>2, <2>4, CaminosDe
<1>6. ASSUME NEW b \in gBarridos, G!Reconciliar(b) PROVE Caminos'
  <2>1. b \in G!Actores /\ leido[b] \in Lecturas /\ Camino(b) /\ G!Ids \subseteq G!Ids'
    BY <1>0 DEF G!Actores, Formas, Caminos, PagosQuedan
  <2>2. Quietos(b)
    BY <1>6, ReconciliarDeja DEF Ahora, Regresa, Sincroniza
  <2>5. \/ \E k \in leido[b].lista : k \in G!Ids /\ Sincroniza(b, k, pagos[k].banco)
        \/ Regresa(b)
        \/ \E s \in SUBSET {k \in G!Ids : pagos[k].estado = "approved"} :
             Ahora(b, "retomar", [leido[b] EXCEPT !.fase = "retomar", !.lista = s])
    BY <1>6, ReconciliarDeja
  <2>3. \/ \E k \in G!Ids : Sincroniza(b, k, pagos[k].banco)
        \/ Regresa(b)
        \/ gPc'[b] = "retomar" /\ leido'[b].lista \subseteq G!Ids /\ leido'[b].fase = "retomar"
    BY <2>1, <2>5 DEF Ahora, Lecturas
  <2>4. Camino(b)'
    BY <1>6, <2>1, <2>3 DEF Camino, Regresa, Sincroniza, G!Fases, G!PasosPago, G!Reconciliar
  <2> QED
    BY <1>0, <2>1, <2>2, <2>4, CaminosDe
<1>7. ASSUME NEW b \in gBarridos, G!Retomar(b) PROVE Caminos'
  <2>1. b \in G!Actores /\ leido[b] \in Lecturas /\ Camino(b) /\ G!Ids \subseteq G!Ids'
    BY <1>0 DEF G!Actores, Formas, Caminos, PagosQuedan
  <2>2. Quietos(b)
    BY <1>7, RetomarDeja DEF Ahora, Regresa, Sincroniza
  <2>5. \/ \E k \in leido[b].lista : Ahora(b, "reservar", [leido[b] EXCEPT !.pago = k])
        \/ Ahora(b, "cobrar", [leido[b] EXCEPT !.fase = "cobrar"])
    BY <1>7, RetomarDeja
  <2>3. /\ leido'[b].lista = leido[b].lista
        /\ \/ gPc'[b] = "reservar" /\ leido'[b].pago \in leido[b].lista /\ leido'[b].fase = leido[b].fase
           \/ gPc'[b] = "cobrar" /\ leido'[b].fase = "cobrar"
    BY <2>1, <2>5 DEF Ahora, Lecturas
  <2>4. Camino(b)'
    BY <1>7, <2>1, <2>3 DEF Camino, G!Fases, G!PasosPago, G!Retomar
  <2> QED
    BY <1>0, <2>1, <2>2, <2>4, CaminosDe
<1>8. ASSUME NEW b \in gBarridos, G!CobrarVencida(b) PROVE Caminos'
  <2>1. b \in G!Actores /\ leido[b] \in Lecturas /\ Camino(b) /\ G!Ids \subseteq G!Ids'
    BY <1>0 DEF G!Actores, Formas, Caminos, PagosQuedan
  <2>2. Quietos(b)
    BY <1>8, CobrarVencidaDeja DEF Ahora, Regresa, Sincroniza
  <2>5. (\E p \in {"reservarCobro", "mora"} : Ahora(b, p, [leido[b] EXCEPT !.sub = sub, !.fase = "cobrar"]))
    BY <1>8, CobrarVencidaDeja
  <2>3. gPc'[b] \in {"reservarCobro", "mora"} /\ leido'[b].lista = leido[b].lista /\ leido'[b].fase = "cobrar"
    BY <2>1, <2>5 DEF Ahora, Regresa, Lecturas
  <2>4. Camino(b)'
    BY <1>8, <2>1, <2>3 DEF Camino, G!Fases, G!PasosPago, G!CobrarVencida
  <2> QED
    BY <1>0, <2>1, <2>2, <2>4, CaminosDe
<1>9. ASSUME NEW b \in gBarridos, G!ReservarCobro(b) PROVE Caminos'
  <2>1. b \in G!Actores /\ leido[b] \in Lecturas /\ Camino(b) /\ G!Ids \subseteq G!Ids'
    BY <1>0 DEF G!Actores, Formas, Caminos, PagosQuedan
  <2>2. Quietos(b)
    BY <1>9, ReservarCobroDeja DEF Ahora, Regresa, Sincroniza
  <2>5. \/ Regresa(b)
        \/ Ahora(b, "crear", [leido[b] EXCEPT !.r = "renewal", !.sub = [leido[b].sub EXCEPT !.intentoDia = dia]])
    BY <1>9, ReservarCobroDeja
  <2>3. \/ Regresa(b)
        \/ /\ gPc'[b] = "crear" /\ leido'[b].lista = leido[b].lista /\ leido'[b].fase = leido[b].fase
           /\ leido'[b].r = "renewal"
    BY <2>1, <2>5 DEF Ahora, Lecturas
  <2>4. Camino(b)'
    BY <1>9, <2>1, <2>3 DEF Camino, Regresa, G!Fases, G!PasosPago, G!ReservarCobro
  <2> QED
    BY <1>0, <2>1, <2>2, <2>4, CaminosDe
<1>10. ASSUME NEW b \in gBarridos, G!CobrarMora(b) PROVE Caminos'
  <2>1. b \in G!Actores /\ leido[b] \in Lecturas /\ Camino(b) /\ G!Ids \subseteq G!Ids'
    BY <1>0 DEF G!Actores, Formas, Caminos, PagosQuedan
  <2>2. Quietos(b)
    BY <1>10, CobrarMoraDeja DEF Ahora, Regresa, Sincroniza
  <2>5. \/ (\E p \in {"guardarSub", "suspender"} : Ahora(b, p, [leido[b] EXCEPT !.sub = sub, !.fase = "mora", !.nuevo = G!SinAcceso(G!Cancelada(sub))]))
        \/ Ahora(b, "reservarCobro", [leido[b] EXCEPT !.sub = sub, !.fase = "mora"])
        \/ Ahora(b, "retirar", [leido[b] EXCEPT !.fase = "mora"])
    BY <1>10, CobrarMoraDeja
  <2>3. /\ leido'[b].lista = leido[b].lista /\ leido'[b].fase = "mora"
        /\ gPc'[b] \in {"guardarSub", "suspender", "reservarCobro", "retirar"}
    BY <2>1, <2>5 DEF Ahora, Lecturas
  <2>4. Camino(b)'
    BY <1>10, <2>1, <2>3 DEF Camino, G!Fases, G!PasosPago, G!PasosSub, G!CobrarMora
  <2> QED
    BY <1>0, <2>1, <2>2, <2>4, CaminosDe
<1>11. ASSUME NEW b \in gBarridos, G!Retirar(b) PROVE Caminos'
  <2>1. b \in G!Actores /\ leido[b] \in Lecturas /\ Camino(b) /\ G!Ids \subseteq G!Ids'
    BY <1>0 DEF G!Actores, Formas, Caminos, PagosQuedan
  <2>2. Quietos(b)
    BY <1>11, RetirarDeja DEF Ahora, Regresa, Sincroniza
  <2>5. \/ Ahora(b, "suspender", [leido[b] EXCEPT !.sub = sub, !.nuevo = G!SinAcceso(sub), !.fase = "fin"])
        \/ Ahora(b, "libre", G!SinLeer)
    BY <1>11, RetirarDeja
  <2>3. /\ gPc'[b] \in {"suspender", "libre"} /\ leido'[b].lista \subseteq leido[b].lista
        /\ gPc'[b] # "libre" => leido'[b].fase = "fin"
    BY <2>1, SinLeerTipo, <2>5 DEF Ahora, Regresa, Lecturas
  <2>4. Camino(b)'
    BY <1>11, <2>1, <2>3 DEF Camino, G!Fases, G!PasosPago, G!Retirar
  <2> QED
    BY <1>0, <2>1, <2>2, <2>4, CaminosDe
<1>12. ASSUME NEW a \in G!Actores, G!CrearPago(a) PROVE Caminos'
  <2>1. a \in G!Actores /\ leido[a] \in Lecturas /\ Camino(a) /\ G!Ids \subseteq G!Ids'
    BY <1>0 DEF G!Actores, Formas, Caminos, PagosQuedan
  <2>2. Quietos(a)
    BY <1>12, CrearPagoDeja DEF Ahora, Regresa, Sincroniza
  <2>5. \/ Regresa(a) /\ UNCHANGED pagos
        \/ /\ Ahora(a, "transar", [leido[a] EXCEPT !.pago = Len(pagos) + 1])
           /\ \E p \in LosPagos :
                /\ p.estado = "pending" /\ p.banco = "no" /\ ~p.aplicado /\ p.efectos = {}
                /\ pagos'[Len(pagos) + 1] = p
           /\ Len(pagos) + 1 \in G!Ids' /\ G!Ids' = G!Ids \cup {Len(pagos) + 1}
           /\ Len(pagos) + 1 \notin G!Ids /\ \A k \in G!Ids : pagos'[k] = pagos[k]
    BY <1>12, CrearPagoDeja
  <2>3. \/ Regresa(a)
        \/ /\ gPc'[a] = "transar" /\ leido'[a].lista = leido[a].lista /\ leido'[a].fase = leido[a].fase
           /\ leido'[a].pago \in G!Ids'
    BY <2>1, <2>5 DEF Ahora, Lecturas
  <2>4. Camino(a)'
    BY <1>12, <2>1, <2>3 DEF Camino, Regresa, G!Fases, G!PasosPago, G!CrearPago
  <2> QED
    BY <1>0, <2>1, <2>2, <2>4, CaminosDe
<1>13. ASSUME NEW a \in G!Actores, G!Transar(a) PROVE Caminos'
  <2>1. a \in G!Actores /\ leido[a] \in Lecturas /\ Camino(a) /\ G!Ids \subseteq G!Ids'
    BY <1>0 DEF G!Actores, Formas, Caminos, PagosQuedan
  <2>2. Quietos(a)
    BY <1>13, TransarDeja DEF Ahora, Regresa, Sincroniza
  <2>5. \/ Regresa(a)
        \/ \E r \in {"pending", "approved", "declined"} : Ahora(a, "anotar", [leido[a] EXCEPT !.r = r])
    BY <1>13, TransarDeja
  <2>3. \/ Regresa(a)
        \/ /\ gPc'[a] = "anotar" /\ leido'[a].lista = leido[a].lista /\ leido'[a].fase = leido[a].fase
           /\ leido'[a].pago = leido[a].pago
    BY <2>1, <2>5 DEF Ahora, Lecturas
  <2>4. Camino(a)'
    BY <1>13, <2>1, <2>3 DEF Camino, Regresa, G!Fases, G!PasosPago, G!Transar
  <2> QED
    BY <1>0, <2>1, <2>2, <2>4, CaminosDe
<1>14. ASSUME NEW a \in G!Actores, G!Anotar(a) PROVE Caminos'
  <2>1. a \in G!Actores /\ leido[a] \in Lecturas /\ Camino(a) /\ G!Ids \subseteq G!Ids'
    BY <1>0 DEF G!Actores, Formas, Caminos, PagosQuedan
  <2>2. Quietos(a)
    BY <1>14, AnotarDeja DEF Ahora, Regresa, Sincroniza
  <2>3. Camino(a)'
    BY <1>14, <2>1, AnotarDeja
    DEF Camino, Ahora, Regresa, Sincroniza, Lecturas, G!Fases, G!PasosPago, G!PasosSub, G!Anotar
  <2> QED
    BY <1>0, <2>1, <2>2, <2>3, CaminosDe
<1>15. ASSUME NEW a \in G!Actores, G!Reservar(a) PROVE Caminos'
  <2>1. a \in G!Actores /\ leido[a] \in Lecturas /\ Camino(a) /\ G!Ids \subseteq G!Ids'
    BY <1>0 DEF G!Actores, Formas, Caminos, PagosQuedan
  <2>2. Quietos(a)
    BY <1>15, ReservarDeja DEF Ahora, Regresa, Sincroniza
  <2>5. \/ Regresa(a)
        \/ Ahora(a, "efecto", [leido[a] EXCEPT !.hechos = pagos[leido[a].pago].efectos])
    BY <1>15, ReservarDeja
  <2>3. \/ Regresa(a)
        \/ /\ gPc'[a] = "efecto" /\ leido'[a].lista = leido[a].lista /\ leido'[a].fase = leido[a].fase
           /\ leido'[a].pago = leido[a].pago
    BY <2>1, <2>5 DEF Ahora, Lecturas
  <2>4. Camino(a)'
    BY <1>15, <2>1, <2>3 DEF Camino, Regresa, G!Fases, G!PasosPago, G!Reservar
  <2> QED
    BY <1>0, <2>1, <2>2, <2>4, CaminosDe
<1>16. ASSUME NEW a \in G!Actores, G!Efecto(a) PROVE Caminos'
  <2>1. a \in G!Actores /\ leido[a] \in Lecturas /\ Camino(a) /\ G!Ids \subseteq G!Ids'
    BY <1>0 DEF G!Actores, Formas, Caminos, PagosQuedan
  <2>2. Quietos(a)
    BY <1>16, EfectoDeja DEF Ahora, Regresa, Sincroniza
  <2>5. \/ \E p \in {"cerrar", "leerSub", "liberar"} : Ahora(a, p, leido[a])
        \/ Ahora(a, "marcarEfecto", [leido[a] EXCEPT !.r = IF pagos[leido[a].pago].tipo = "docPackage" THEN "docCredits" ELSE "plan"])
    BY <1>16, EfectoDeja
  <2>3. /\ leido'[a].lista = leido[a].lista /\ leido'[a].fase = leido[a].fase /\ leido'[a].pago = leido[a].pago
        /\ gPc'[a] \in {"cerrar", "leerSub", "liberar", "marcarEfecto"}
    BY <2>1, <2>5 DEF Ahora, Lecturas
  <2>4. Camino(a)'
    BY <1>16, <2>1, <2>3 DEF Camino, G!Fases, G!PasosPago, G!Efecto
  <2> QED
    BY <1>0, <2>1, <2>2, <2>4, CaminosDe
<1>17. ASSUME NEW a \in G!Actores, G!LeerSub(a) PROVE Caminos'
  <2>1. a \in G!Actores /\ leido[a] \in Lecturas /\ Camino(a) /\ G!Ids \subseteq G!Ids'
    BY <1>0 DEF G!Actores, Formas, Caminos, PagosQuedan
  <2>2. Quietos(a)
    BY <1>17, LeerSubDeja DEF Ahora, Regresa, Sincroniza
  <2>3. Camino(a)'
    BY <1>17, <2>1, LeerSubDeja
    DEF Camino, Ahora, Regresa, Sincroniza, Lecturas, G!Fases, G!PasosPago, G!PasosSub, G!LeerSub
  <2> QED
    BY <1>0, <2>1, <2>2, <2>3, CaminosDe
<1>18. ASSUME NEW a \in G!Actores, G!GuardarPeriodo(a) PROVE Caminos'
  <2>1. a \in G!Actores /\ leido[a] \in Lecturas /\ Camino(a) /\ G!Ids \subseteq G!Ids'
    BY <1>0 DEF G!Actores, Formas, Caminos, PagosQuedan
  <2>2. Quietos(a)
    BY <1>18, GuardarPeriodoDeja DEF Ahora, Regresa, Sincroniza
  <2>5. \/ Ahora(a, "liberar", leido[a])
        \/ Ahora(a, "marcar", [leido[a] EXCEPT !.r = "period", !.sub = G!SinSub])
    BY <1>18, GuardarPeriodoDeja
  <2>3. /\ leido'[a].lista = leido[a].lista /\ leido'[a].fase = leido[a].fase /\ leido'[a].pago = leido[a].pago
        /\ gPc'[a] \in {"liberar", "marcar"}
    BY <2>1, <2>5 DEF Ahora, Lecturas
  <2>4. Camino(a)'
    BY <1>18, <2>1, <2>3 DEF Camino, G!Fases, G!PasosPago, G!GuardarPeriodo
  <2> QED
    BY <1>0, <2>1, <2>2, <2>4, CaminosDe
<1>19. ASSUME NEW a \in G!Actores, G!Marcar(a) PROVE Caminos'
  <2>1. a \in G!Actores /\ leido[a] \in Lecturas /\ Camino(a) /\ G!Ids \subseteq G!Ids'
    BY <1>0 DEF G!Actores, Formas, Caminos, PagosQuedan
  <2>2. Quietos(a)
    BY <1>19, MarcarDeja DEF Ahora, Regresa, Sincroniza
  <2>3. Camino(a)'
    BY <1>19, <2>1, MarcarDeja
    DEF Camino, Ahora, Regresa, Sincroniza, Lecturas, G!Fases, G!PasosPago, G!PasosSub, G!Marcar
  <2> QED
    BY <1>0, <2>1, <2>2, <2>3, CaminosDe
<1>20. ASSUME NEW a \in G!Actores, G!Cerrar(a) PROVE Caminos'
  <2>1. a \in G!Actores /\ leido[a] \in Lecturas /\ Camino(a) /\ G!Ids \subseteq G!Ids'
    BY <1>0 DEF G!Actores, Formas, Caminos, PagosQuedan
  <2>2. Quietos(a)
    BY <1>20, CerrarDeja DEF Ahora, Regresa, Sincroniza
  <2>3. Camino(a)'
    BY <1>20, <2>1, CerrarDeja
    DEF Camino, Ahora, Regresa, Sincroniza, Lecturas, G!Fases, G!PasosPago, G!PasosSub, G!Cerrar
  <2> QED
    BY <1>0, <2>1, <2>2, <2>3, CaminosDe
<1>21. ASSUME NEW a \in G!Actores, G!Liberar(a) PROVE Caminos'
  <2>1. a \in G!Actores /\ leido[a] \in Lecturas /\ Camino(a) /\ G!Ids \subseteq G!Ids'
    BY <1>0 DEF G!Actores, Formas, Caminos, PagosQuedan
  <2>2. Quietos(a)
    BY <1>21, LiberarDeja DEF Ahora, Regresa, Sincroniza
  <2>3. Camino(a)'
    BY <1>21, <2>1, LiberarDeja
    DEF Camino, Ahora, Regresa, Sincroniza, Lecturas, G!Fases, G!PasosPago, G!PasosSub, G!Liberar
  <2> QED
    BY <1>0, <2>1, <2>2, <2>3, CaminosDe
<1>22. ASSUME NEW a \in G!Actores, G!Declinar(a) PROVE Caminos'
  <2>1. a \in G!Actores /\ leido[a] \in Lecturas /\ Camino(a) /\ G!Ids \subseteq G!Ids'
    BY <1>0 DEF G!Actores, Formas, Caminos, PagosQuedan
  <2>2. Quietos(a)
    BY <1>22, DeclinarDeja DEF Ahora, Regresa, Sincroniza
  <2>3. Camino(a)'
    BY <1>22, <2>1, DeclinarDeja
    DEF Camino, Ahora, Regresa, Sincroniza, Lecturas, G!Fases, G!PasosPago, G!PasosSub, G!Declinar
  <2> QED
    BY <1>0, <2>1, <2>2, <2>3, CaminosDe
<1>23. ASSUME NEW a \in G!Actores, G!LeerMora(a) PROVE Caminos'
  <2>1. a \in G!Actores /\ leido[a] \in Lecturas /\ Camino(a) /\ G!Ids \subseteq G!Ids'
    BY <1>0 DEF G!Actores, Formas, Caminos, PagosQuedan
  <2>2. Quietos(a)
    BY <1>23, LeerMoraDeja DEF Ahora, Regresa, Sincroniza
  <2>5. \/ Regresa(a)
        \/ \E n \in Suscripciones : Ahora(a, "guardarSub", [leido[a] EXCEPT !.sub = sub, !.nuevo = n])
    BY <1>23, LeerMoraDeja
  <2>3. \/ Regresa(a)
        \/ gPc'[a] = "guardarSub" /\ leido'[a].lista = leido[a].lista /\ leido'[a].fase = leido[a].fase
    BY <2>1, <2>5 DEF Ahora, Lecturas
  <2>4. Camino(a)'
    BY <1>23, <2>1, <2>3 DEF Camino, Regresa, G!Fases, G!PasosPago, G!LeerMora
  <2> QED
    BY <1>0, <2>1, <2>2, <2>4, CaminosDe
<1>24. ASSUME NEW a \in G!Actores, G!Suspender(a) PROVE Caminos'
  <2>1. a \in G!Actores /\ leido[a] \in Lecturas /\ Camino(a) /\ G!Ids \subseteq G!Ids'
    BY <1>0 DEF G!Actores, Formas, Caminos, PagosQuedan
  <2>2. Quietos(a)
    BY <1>24, SuspenderDeja DEF Ahora, Regresa, Sincroniza
  <2>3. Camino(a)'
    BY <1>24, <2>1, SuspenderDeja
    DEF Camino, Ahora, Regresa, Sincroniza, Lecturas, G!Fases, G!PasosPago, G!PasosSub, G!Suspender
  <2> QED
    BY <1>0, <2>1, <2>2, <2>3, CaminosDe
<1>25. ASSUME NEW a \in G!Actores, G!GuardarSub(a) PROVE Caminos'
  <2>1. a \in G!Actores /\ leido[a] \in Lecturas /\ Camino(a) /\ G!Ids \subseteq G!Ids'
    BY <1>0 DEF G!Actores, Formas, Caminos, PagosQuedan
  <2>2. Quietos(a)
    BY <1>25, GuardarSubDeja DEF Ahora, Regresa, Sincroniza
  <2>3. Camino(a)'
    BY <1>25, <2>1, GuardarSubDeja
    DEF Camino, Ahora, Regresa, Sincroniza, Lecturas, G!Fases, G!PasosPago, G!PasosSub, G!GuardarSub
  <2> QED
    BY <1>0, <2>1, <2>2, <2>3, CaminosDe
<1>26. ASSUME NEW a \in G!Actores, G!Otra(a) PROVE Caminos'
  <2>1. a \in G!Actores /\ leido[a] \in Lecturas /\ Camino(a) /\ G!Ids \subseteq G!Ids'
    BY <1>0 DEF G!Actores, Formas, Caminos, PagosQuedan
  <2>2. Quietos(a)
    BY <1>26, OtraDeja DEF Ahora, Regresa, Sincroniza
  <2>5. Ahora(a, "libre", G!SinLeer)
    BY <1>26, OtraDeja
  <2>3. gPc'[a] = "libre" /\ leido'[a].lista = {}
    BY <2>1, SinLeerTipo, <2>5 DEF Ahora, Regresa, Lecturas
  <2>4. Camino(a)'
    BY <1>26, <2>1, <2>3 DEF Camino, G!Fases, G!PasosPago, G!Otra
  <2> QED
    BY <1>0, <2>1, <2>2, <2>4, CaminosDe
<1>27. ASSUME NEW a \in G!Actores, G!Corte(a) PROVE Caminos'
  <2>1. a \in G!Actores /\ leido[a] \in Lecturas /\ Camino(a) /\ G!Ids \subseteq G!Ids'
    BY <1>0 DEF G!Actores, Formas, Caminos, PagosQuedan
  <2>2. Quietos(a)
    BY <1>27, CorteDeja DEF Ahora, Regresa, Sincroniza
  <2>5. Ahora(a, "fin", G!SinLeer)
    BY <1>27, CorteDeja
  <2>3. gPc'[a] = "fin" /\ leido'[a].lista = {}
    BY <2>1, SinLeerTipo, <2>5 DEF Ahora, Regresa, Lecturas
  <2>4. Camino(a)'
    BY <1>27, <2>1, <2>3 DEF Camino, G!Fases, G!PasosPago, G!Corte
  <2> QED
    BY <1>0, <2>1, <2>2, <2>4, CaminosDe
<1>28. ASSUME NEW k \in G!Ids, G!Decide(k) PROVE Caminos'
  BY <1>28, <1>0 DEF Caminos, Camino, PagosQuedan, G!Decide
<1>29. ASSUME G!NuevoDia PROVE Caminos'
  BY <1>29, <1>0 DEF Caminos, Camino, PagosQuedan, G!NuevoDia
<1>30. CASE UNCHANGED G!vars
  BY <1>30
  DEF Caminos, Camino, G!Ids, G!vars
<1> QED
  BY <1>1, <1>2, <1>3, <1>4, <1>5, <1>6, <1>7, <1>8, <1>9, <1>10, <1>11, <1>12, <1>13, <1>14,
     <1>15, <1>16, <1>17, <1>18, <1>19, <1>20, <1>21, <1>22, <1>23, <1>24, <1>25, <1>26,
     <1>27, <1>28, <1>29, <1>30
  DEF G!Next, G!Cobra, G!Aplica, G!Barre


\* What the bank decided stays, only who created a charge sends it, and an approval is the
\* bank's.
BancoQueda ==
    /\ \A k \in G!Ids :
         /\ pagos[k].banco \in {"approved", "declined"} => pagos'[k].banco = pagos[k].banco
         /\ \A b \in G!Actores :
              gPc[b] = "transar" /\ gPc'[b] = "transar" /\ leido[b].pago = k =>
                pagos'[k].banco = pagos[k].banco
         /\ pagos'[k].estado = "approved" => pagos[k].banco = "approved"
    /\ \A k \in G!Ids' \ G!Ids : pagos'[k].estado = "pending" /\ pagos'[k].banco = "no"

\* A payment rewritten with the same answer of the bank, and approved only if it was.
LEMMA MismoBanco ==
    ASSUME Decidido, NEW k \in G!Ids, NEW p, Solo(k, p), p.banco = pagos[k].banco,
           p.estado = "approved" => pagos[k].banco = "approved"
    PROVE  BancoQueda
BY DEF Solo, BancoQueda, Decidido

LEMMA NadaCambia ==
    ASSUME Decidido, UNCHANGED pagos
    PROVE  BancoQueda
BY DEF BancoQueda, Decidido, G!Ids

\* What one actor knows of the bank, when another one moves.
LEMMA DecididoDe ==
    ASSUME Caminos, Decidido, PagosQuedan, BancoQueda, NEW a \in G!Actores, Quietos(a), Respuesta(a)',
           gPc'[a] = "transar" => leido'[a].pago \notin G!Ids
    PROVE  Decidido'
<1>1. ASSUME NEW b \in G!Actores \ {a} PROVE Respuesta(b)'
  <2>1. gPc'[b] = gPc[b] /\ leido'[b] = leido[b] /\ Respuesta(b) /\ Camino(b)
    BY DEF Quietos, Decidido, Caminos
  <2>2. gPc[b] \in {"transar", "anotar", "reservar"} => leido[b].pago \in G!Ids
    BY <2>1 DEF Camino, G!PasosPago
  <2>3. ASSUME gPc'[b] = "transar" PROVE pagos'[leido'[b].pago].banco = "no"
    <3>1. gPc[b] = "transar" /\ leido[b].pago \in G!Ids /\ pagos[leido[b].pago].banco = "no"
      BY <2>1, <2>2, <2>3 DEF Respuesta
    <3>2. pagos'[leido[b].pago].banco = pagos[leido[b].pago].banco
      BY <2>3, <3>1 DEF BancoQueda
    <3> QED
      BY <2>1, <3>1, <3>2
  <2>4. gPc'[b] = "anotar" /\ leido'[b].r \in {"approved", "declined"} =>
          pagos'[leido'[b].pago].banco = leido'[b].r
    BY <2>1, <2>2 DEF BancoQueda, Respuesta
  <2>5. gPc'[b] = "reservar" => pagos'[leido'[b].pago].banco = "approved"
    BY <2>1, <2>2 DEF BancoQueda, Respuesta
  <2>6. b \in gBarridos /\ leido'[b].fase = "retomar" =>
          \A k \in leido'[b].lista : pagos'[k].estado = "approved"
    BY <2>1 DEF PagosQuedan, Respuesta, Camino
  <2>7. gPc'[b] = "retomar" => leido'[b].fase = "retomar"
    BY <2>1 DEF Respuesta
  <2> QED
    BY <2>3, <2>4, <2>5, <2>6, <2>7 DEF Respuesta
<1>2. ASSUME NEW b \in G!Actores, NEW c \in G!Actores, gPc'[b] = "transar", gPc'[c] = "transar",
             leido'[c].pago = leido'[b].pago
      PROVE  b = c
  <2>1. \A d \in G!Actores \ {a} : /\ gPc'[d] = gPc[d] /\ leido'[d] = leido[d]
                                   /\ gPc[d] = "transar" => leido[d].pago \in G!Ids
    BY DEF Quietos, Caminos, Camino
  <2> QED
    BY <1>2, <2>1 DEF Decidido
<1>3. \A k \in G!Ids' : pagos'[k].estado = "approved" => pagos'[k].banco = "approved"
  BY DEF BancoQueda
<1> QED
  BY <1>1, <1>2, <1>3 DEF Decidido


LEMMA BancoPaso ==
    ASSUME G!Supuestos
    PROVE  Formas /\ Caminos /\ Marcas /\ Decidido /\ [G!Next]_(G!vars) => BancoQueda
<1> SUFFICES ASSUME Formas, Caminos, Marcas, Decidido, [G!Next]_(G!vars) PROVE BancoQueda
  OBVIOUS
<1>1. ASSUME NEW u \in Altas, G!Alta(u) PROVE BancoQueda
  BY <1>1, NadaCambia DEF G!Alta
<1>2. ASSUME NEW u \in Compras, G!Comprar(u) PROVE BancoQueda
  BY <1>2, NadaCambia DEF G!Comprar
<1>3. ASSUME NEW w \in Avisos, G!Aviso(w) PROVE BancoQueda
  <2>1. PICK k \in G!Ids : Solo(k, [pagos[k] EXCEPT !.tx = TRUE])
    BY <1>3, AvisoDeja
  <2>2. pagos[k] \in LosPagos
    BY DEF Formas, G!Ids
  <2> DEFINE p == [pagos[k] EXCEPT !.tx = TRUE]
  <2>3. p.banco = pagos[k].banco /\ p.estado = pagos[k].estado
    BY <2>2 DEF LosPagos
  <2> HIDE DEF p
  <2>4. Solo(k, p)
    BY <2>1 DEF p
  <2> QED
    BY <2>3, <2>4, MismoBanco DEF Decidido
<1>4. ASSUME NEW c \in Cancelaciones, G!Cancelar(c) PROVE BancoQueda
  BY <1>4, NadaCambia DEF G!Cancelar
<1>5. ASSUME NEW b \in gBarridos, G!Barrer(b) PROVE BancoQueda
  BY <1>5, NadaCambia DEF G!Barrer
<1>6. ASSUME NEW b \in gBarridos, G!Reconciliar(b) PROVE BancoQueda
  BY <1>6, NadaCambia DEF G!Reconciliar
<1>7. ASSUME NEW b \in gBarridos, G!Retomar(b) PROVE BancoQueda
  BY <1>7, NadaCambia DEF G!Retomar
<1>8. ASSUME NEW b \in gBarridos, G!CobrarVencida(b) PROVE BancoQueda
  BY <1>8, NadaCambia DEF G!CobrarVencida
<1>9. ASSUME NEW b \in gBarridos, G!ReservarCobro(b) PROVE BancoQueda
  BY <1>9, NadaCambia DEF G!ReservarCobro
<1>10. ASSUME NEW b \in gBarridos, G!CobrarMora(b) PROVE BancoQueda
  BY <1>10, NadaCambia DEF G!CobrarMora
<1>11. ASSUME NEW b \in gBarridos, G!Retirar(b) PROVE BancoQueda
  BY <1>11, NadaCambia DEF G!Retirar
<1>12. ASSUME NEW a \in G!Actores, G!CrearPago(a) PROVE BancoQueda
  BY <1>12, CrearPagoDeja, NadaCambia DEF BancoQueda, Decidido
<1>13. ASSUME NEW a \in G!Actores, G!Transar(a) PROVE BancoQueda
  <2> DEFINE k == leido[a].pago
  <2>1. /\ k \in G!Ids /\ pagos[k] \in LosPagos /\ gPc[a] = "transar" /\ pagos[k].banco = "no"
        /\ gPc'[a] # "transar"
    <3>1. gPc[a] = "transar" /\ gPc'[a] # "transar"
      BY <1>13, TransarDeja DEF G!Transar, Regresa, Ahora, G!Fases
    <3> QED
      BY <3>1 DEF Caminos, Camino, Formas, G!Ids, Decidido, Respuesta
  <2>2. PICK r \in Bancos : Solo(k, [pagos[k] EXCEPT !.banco = r])
    BY <1>13, Escribe
  <2> DEFINE p == [pagos[k] EXCEPT !.banco = r]
  <2>3. Solo(k, p) /\ p.estado = pagos[k].estado
    BY <2>1, <2>2 DEF LosPagos
  <2> HIDE DEF p
  <2>4. pagos[k].estado # "approved"
    BY <2>1 DEF Decidido
  <2>5. \A b \in G!Actores : gPc[b] = "transar" /\ gPc'[b] = "transar" => leido[b].pago # k
    BY <2>1 DEF Decidido
  <2> HIDE DEF k
  <2> QED
    BY <2>1, <2>3, <2>4, <2>5 DEF BancoQueda, Solo, Decidido
<1>14. ASSUME NEW a \in G!Actores, G!Anotar(a) PROVE BancoQueda
  <2> DEFINE k == leido[a].pago
             p == [pagos[k] EXCEPT !.tx = TRUE]
  <2>1. k \in G!Ids /\ pagos[k] \in LosPagos
    BY <1>14 DEF Caminos, Camino, Formas, G!Ids, G!PasosPago, G!Anotar
  <2>3. Solo(k, p)
    BY <1>14, Escribe
  <2>4. p.banco = pagos[k].banco /\ p.estado = pagos[k].estado
    BY <2>1 DEF LosPagos
  <2> HIDE DEF p, k
  <2>5. CASE Solo(k, p)
    BY <2>1, <2>4, <2>5, MismoBanco DEF Decidido
  <2> QED
    BY <2>3, <2>5, NadaCambia
<1>15. ASSUME NEW a \in G!Actores, G!Reservar(a) PROVE BancoQueda
  <2> DEFINE k == leido[a].pago
             p == [pagos[k] EXCEPT !.estado = "approved", !.dueno = a]
  <2>1. k \in G!Ids /\ pagos[k] \in LosPagos /\ pagos[k].banco = "approved"
    BY <1>15 DEF Caminos, Camino, Formas, G!Ids, G!PasosPago, G!Reservar, Decidido, Respuesta
  <2>3. UNCHANGED pagos \/ Solo(k, p)
    BY <1>15, Escribe
  <2>4. p.banco = pagos[k].banco /\ pagos[k].banco = "approved"
    BY <2>1 DEF LosPagos
  <2> HIDE DEF p, k
  <2>5. CASE Solo(k, p)
    BY <2>1, <2>4, <2>5, MismoBanco DEF Decidido
  <2> QED
    BY <2>3, <2>5, NadaCambia
<1>16. ASSUME NEW a \in G!Actores, G!Efecto(a) PROVE BancoQueda
  BY <1>16, NadaCambia DEF G!Efecto
<1>17. ASSUME NEW a \in G!Actores, G!LeerSub(a) PROVE BancoQueda
  BY <1>17, NadaCambia DEF G!LeerSub
<1>18. ASSUME NEW a \in G!Actores, G!GuardarPeriodo(a) PROVE BancoQueda
  BY <1>18, NadaCambia DEF G!GuardarPeriodo
<1>19. ASSUME NEW a \in G!Actores, G!Marcar(a) PROVE BancoQueda
  <2> DEFINE k == leido[a].pago
             p == [pagos[k] EXCEPT !.efectos = @ \cup {leido[a].r}]
  <2>1. k \in G!Ids /\ pagos[k] \in LosPagos
    BY <1>19 DEF Caminos, Camino, Formas, G!Ids, G!PasosPago, G!Marcar
  <2>2. leido[a].r \in Efectos
    BY <1>19, <2>1 DEF Marcas, Marca, G!Marcar, Efectos
  <2>3. Solo(k, p)
    BY <1>19, <2>2, Escribe
  <2>4. p.banco = pagos[k].banco /\ p.estado = pagos[k].estado
    BY <2>1 DEF LosPagos
  <2> HIDE DEF p, k
  <2>5. CASE Solo(k, p)
    BY <2>1, <2>4, <2>5, MismoBanco DEF Decidido
  <2> QED
    BY <2>3, <2>5, NadaCambia
<1>20. ASSUME NEW a \in G!Actores, G!Cerrar(a) PROVE BancoQueda
  <2> DEFINE k == leido[a].pago
             p == [pagos[k] EXCEPT !.aplicado = TRUE, !.dueno = Nadie]
  <2>1. k \in G!Ids /\ pagos[k] \in LosPagos
    BY <1>20 DEF Caminos, Camino, Formas, G!Ids, G!PasosPago, G!Cerrar
  <2>3. Solo(k, p)
    BY <1>20, Escribe
  <2>4. p.banco = pagos[k].banco /\ p.estado = pagos[k].estado
    BY <2>1 DEF LosPagos
  <2> HIDE DEF p, k
  <2>5. CASE Solo(k, p)
    BY <2>1, <2>4, <2>5, MismoBanco DEF Decidido
  <2> QED
    BY <2>3, <2>5, NadaCambia
<1>21. ASSUME NEW a \in G!Actores, G!Liberar(a) PROVE BancoQueda
  <2> DEFINE k == leido[a].pago
             p == [pagos[k] EXCEPT !.dueno = Nadie]
  <2>1. k \in G!Ids /\ pagos[k] \in LosPagos
    BY <1>21 DEF Caminos, Camino, Formas, G!Ids, G!PasosPago, G!Liberar
  <2>3. UNCHANGED pagos \/ Solo(k, p)
    BY <1>21, Escribe
  <2>4. p.banco = pagos[k].banco /\ p.estado = pagos[k].estado
    BY <2>1 DEF LosPagos
  <2> HIDE DEF p, k
  <2>5. CASE Solo(k, p)
    BY <2>1, <2>4, <2>5, MismoBanco DEF Decidido
  <2> QED
    BY <2>3, <2>5, NadaCambia
<1>22. ASSUME NEW a \in G!Actores, G!Declinar(a) PROVE BancoQueda
  <2> DEFINE k == leido[a].pago
             p == [pagos[k] EXCEPT !.estado = "declined"]
  <2>1. k \in G!Ids /\ pagos[k] \in LosPagos
    BY <1>22 DEF Caminos, Camino, Formas, G!Ids, G!PasosPago, G!Declinar
  <2>3. UNCHANGED pagos \/ Solo(k, p)
    BY <1>22, Escribe
  <2>4. p.banco = pagos[k].banco /\ p.estado = "declined"
    BY <2>1 DEF LosPagos
  <2> HIDE DEF p, k
  <2>5. CASE Solo(k, p)
    BY <2>1, <2>4, <2>5, MismoBanco DEF Decidido
  <2> QED
    BY <2>3, <2>5, NadaCambia
<1>23. ASSUME NEW a \in G!Actores, G!LeerMora(a) PROVE BancoQueda
  BY <1>23, NadaCambia DEF G!LeerMora
<1>24. ASSUME NEW a \in G!Actores, G!Suspender(a) PROVE BancoQueda
  BY <1>24, NadaCambia DEF G!Suspender
<1>25. ASSUME NEW a \in G!Actores, G!GuardarSub(a) PROVE BancoQueda
  BY <1>25, NadaCambia DEF G!GuardarSub
<1>26. ASSUME NEW a \in G!Actores, G!Otra(a) PROVE BancoQueda
  BY <1>26, NadaCambia DEF G!Otra
<1>27. ASSUME NEW a \in G!Actores, G!Corte(a) PROVE BancoQueda
  BY <1>27, NadaCambia DEF G!Corte
<1>28. ASSUME NEW k \in G!Ids, G!Decide(k) PROVE BancoQueda
  <2>1. pagos[k] \in LosPagos
    BY DEF Formas, G!Ids
  <2>2. PICK r \in {"approved", "declined"} : Solo(k, [pagos[k] EXCEPT !.banco = r])
    BY <1>28, EscribenOtros
  <2> DEFINE p == [pagos[k] EXCEPT !.banco = r]
  <2>3. Solo(k, p) /\ p.estado = pagos[k].estado
    BY <2>1, <2>2 DEF LosPagos
  <2> HIDE DEF p
  <2>4. pagos[k].banco = "pending"
    BY <1>28, EscribenOtros
  <2>5. pagos[k].estado # "approved"
    BY <2>4 DEF Decidido
  <2>6. \A b \in G!Actores : gPc[b] = "transar" => leido[b].pago # k
    BY <2>4 DEF Decidido, Respuesta
  <2> QED
    BY <2>3, <2>4, <2>5, <2>6 DEF BancoQueda, Solo, Decidido
<1>29. ASSUME G!NuevoDia PROVE BancoQueda
  BY <1>29, NadaCambia DEF G!NuevoDia
<1>30. CASE UNCHANGED G!vars
  BY <1>30, NadaCambia DEF G!vars
<1> QED
  BY <1>1, <1>2, <1>3, <1>4, <1>5, <1>6, <1>7, <1>8, <1>9, <1>10, <1>11, <1>12, <1>13, <1>14,
     <1>15, <1>16, <1>17, <1>18, <1>19, <1>20, <1>21, <1>22, <1>23, <1>24, <1>25, <1>26,
     <1>27, <1>28, <1>29, <1>30
  DEF G!Next, G!Cobra, G!Aplica, G!Barre


\* If no actor moves, what each knows still holds.
LEMMA TodosQuietos ==
    ASSUME Caminos, Decidido, PagosQuedan, BancoQueda, UNCHANGED <<gPc, leido>>
    PROVE  Decidido'
<1>1. CASE G!Actores = {}
  BY <1>1 DEF Decidido, BancoQueda
<1>2. ASSUME NEW a \in G!Actores PROVE Respuesta(a)'
  <2>1. /\ Respuesta(a) /\ Camino(a)
        /\ gPc[a] \in {"transar", "anotar", "reservar"} => leido[a].pago \in G!Ids
    BY DEF Decidido, Caminos, Camino, G!PasosPago
  <2> QED
    BY <2>1 DEF Respuesta, Camino, BancoQueda, PagosQuedan
<1> QED
  BY <1>2 DEF Decidido, BancoQueda

\* Who goes on with its sweep, or ends, knows of the bank what it knew.
LEMMA RegresaResponde ==
    ASSUME PagosQuedan, NEW a \in G!Actores, Regresa(a), Camino(a), Respuesta(a)
    PROVE  Respuesta(a)' /\ gPc'[a] # "transar"
<1>1. gPc'[a] \notin {"transar", "anotar", "reservar"}
  BY DEF Regresa, G!Fases
<1>2. gPc'[a] = "retomar" => leido'[a].fase = "retomar"
  BY DEF Regresa
<1>3. ASSUME a \in gBarridos, leido'[a].fase = "retomar", NEW k \in leido'[a].lista
      PROVE  pagos'[k].estado = "approved"
  <2>1. k \in leido[a].lista /\ k \in G!Ids /\ leido[a].fase = "retomar"
    BY <1>3 DEF Regresa, Camino
  <2> QED
    BY <1>3, <2>1 DEF Respuesta, PagosQuedan
<1> QED
  BY <1>1, <1>2, <1>3 DEF Respuesta

LEMMA DecididoPaso ==
    ASSUME G!Supuestos
    PROVE  Formas /\ Caminos /\ Marcas /\ Decidido /\ [G!Next]_(G!vars) => Decidido'
<1> SUFFICES ASSUME Formas, Caminos, Marcas, Decidido, [G!Next]_(G!vars) PROVE Decidido'
  OBVIOUS
<1>0. PagosQuedan /\ BancoQueda
  BY PagosPaso, BancoPaso
<1>1. ASSUME NEW u \in Altas, G!Alta(u) PROVE Decidido'
  <2>1. u \in G!Actores /\ leido[u] \in Lecturas /\ Camino(u) /\ Respuesta(u)
    BY DEF G!Actores, Formas, Caminos, Decidido
  <2>2. Ahora(u, "crear", [leido[u] EXCEPT !.r = "subscription"])
    BY <1>1, AltaDeja
  <2>3. Quietos(u)
    BY <2>2 DEF Ahora, Regresa, Sincroniza
  <2>4. Respuesta(u)' /\ gPc'[u] # "transar"
    BY <1>1, <1>0, <2>1, <2>2, SinLeerTipo
    DEF Respuesta, Camino, Ahora, Regresa, Sincroniza, Lecturas, G!Fases, PagosQuedan, BancoQueda, G!Alta
  <2> QED
    BY <1>0, <2>1, <2>3, <2>4, DecididoDe
<1>2. ASSUME NEW u \in Compras, G!Comprar(u) PROVE Decidido'
  <2>1. u \in G!Actores /\ leido[u] \in Lecturas /\ Camino(u) /\ Respuesta(u)
    BY DEF G!Actores, Formas, Caminos, Decidido
  <2>2. Ahora(u, "crear", [leido[u] EXCEPT !.r = "docPackage"])
    BY <1>2, ComprarDeja
  <2>3. Quietos(u)
    BY <2>2 DEF Ahora, Regresa, Sincroniza
  <2>4. Respuesta(u)' /\ gPc'[u] # "transar"
    BY <1>2, <1>0, <2>1, <2>2, SinLeerTipo
    DEF Respuesta, Camino, Ahora, Regresa, Sincroniza, Lecturas, G!Fases, PagosQuedan, BancoQueda, G!Comprar
  <2> QED
    BY <1>0, <2>1, <2>3, <2>4, DecididoDe
<1>3. ASSUME NEW w \in Avisos, G!Aviso(w) PROVE Decidido'
  <2>1. w \in G!Actores /\ leido[w] \in Lecturas /\ Camino(w) /\ Respuesta(w)
    BY DEF G!Actores, Formas, Caminos, Decidido
  <2>2. \E k \in G!Ids : /\ Sincroniza(w, k, pagos[k].banco)
                         /\ Solo(k, [pagos[k] EXCEPT !.tx = TRUE])
    BY <1>3, AvisoDeja
  <2>3. Quietos(w)
    BY <2>2 DEF Ahora, Regresa, Sincroniza
  <2>4. Respuesta(w)' /\ gPc'[w] # "transar"
    BY <1>3, <1>0, <2>1, <2>2, SinLeerTipo
    DEF Respuesta, Camino, Ahora, Regresa, Sincroniza, Lecturas, G!Fases, PagosQuedan, BancoQueda, G!Aviso
  <2> QED
    BY <1>0, <2>1, <2>3, <2>4, DecididoDe
<1>4. ASSUME NEW c \in Cancelaciones, G!Cancelar(c) PROVE Decidido'
  <2>1. c \in G!Actores /\ leido[c] \in Lecturas /\ Camino(c) /\ Respuesta(c)
    BY DEF G!Actores, Formas, Caminos, Decidido
  <2>2. \E p \in {"guardarSub", "suspender"}, n \in Suscripciones :
          Ahora(c, p, [leido[c] EXCEPT !.sub = sub, !.nuevo = n])
    BY <1>4, CancelarDeja
  <2>3. Quietos(c)
    BY <2>2 DEF Ahora, Regresa, Sincroniza
  <2>4. Respuesta(c)' /\ gPc'[c] # "transar"
    BY <1>4, <1>0, <2>1, <2>2, SinLeerTipo
    DEF Respuesta, Camino, Ahora, Regresa, Sincroniza, Lecturas, G!Fases, PagosQuedan, BancoQueda, G!Cancelar
  <2> QED
    BY <1>0, <2>1, <2>3, <2>4, DecididoDe
<1>5. ASSUME NEW b \in gBarridos, G!Barrer(b) PROVE Decidido'
  <2>1. b \in G!Actores /\ leido[b] \in Lecturas /\ Camino(b) /\ Respuesta(b)
    BY DEF G!Actores, Formas, Caminos, Decidido
  <2>2. Ahora(b, "reconciliar", [G!SinLeer EXCEPT !.ahora = dia, !.fase = "reconciliar", !.lista = {k \in G!Ids : pagos[k].estado = "pending" /\ pagos[k].tx}])
    BY <1>5, BarrerDeja
  <2>3. Quietos(b)
    BY <2>2 DEF Ahora, Regresa, Sincroniza
  <2>4. Respuesta(b)' /\ gPc'[b] # "transar"
    BY <1>5, <1>0, <2>1, <2>2, SinLeerTipo
    DEF Respuesta, Camino, Ahora, Regresa, Sincroniza, Lecturas, G!Fases, PagosQuedan, BancoQueda, G!Barrer
  <2> QED
    BY <1>0, <2>1, <2>3, <2>4, DecididoDe
<1>6. ASSUME NEW b \in gBarridos, G!Reconciliar(b) PROVE Decidido'
  <2>1. b \in G!Actores /\ leido[b] \in Lecturas /\ Camino(b) /\ Respuesta(b)
    BY DEF G!Actores, Formas, Caminos, Decidido
  <2>2. \/ \E k \in leido[b].lista : k \in G!Ids /\ Sincroniza(b, k, pagos[k].banco)
        \/ Regresa(b)
        \/ \E s \in SUBSET {k \in G!Ids : pagos[k].estado = "approved"} :
             Ahora(b, "retomar", [leido[b] EXCEPT !.fase = "retomar", !.lista = s])
    BY <1>6, ReconciliarDeja
  <2>3. Quietos(b)
    BY <2>2 DEF Ahora, Regresa, Sincroniza
  <2>4. Respuesta(b)' /\ gPc'[b] # "transar"
    <3>1. CASE \E k \in leido[b].lista : k \in G!Ids /\ Sincroniza(b, k, pagos[k].banco)
      <4>1. PICK k \in G!Ids : Sincroniza(b, k, pagos[k].banco)
        BY <3>1
      <4>2. pagos[k].banco = "approved" => pagos'[k].banco = "approved"
        BY <1>0 DEF BancoQueda
      <4> QED
        BY <1>0, <2>1, <4>1, <4>2 DEF Respuesta, Camino, Sincroniza, G!Fases, PagosQuedan
    <3>2. CASE Regresa(b)
      BY <1>0, <2>1, <3>2 DEF Respuesta, Camino, Regresa, G!Fases, PagosQuedan
    <3>3. CASE \E s \in SUBSET {k \in G!Ids : pagos[k].estado = "approved"} :
                 Ahora(b, "retomar", [leido[b] EXCEPT !.fase = "retomar", !.lista = s])
      <4>1. PICK s \in SUBSET {k \in G!Ids : pagos[k].estado = "approved"} :
              Ahora(b, "retomar", [leido[b] EXCEPT !.fase = "retomar", !.lista = s])
        BY <3>3
      <4>2. leido'[b].lista = s /\ leido'[b].fase = "retomar" /\ gPc'[b] = "retomar"
        BY <2>1, <4>1 DEF Ahora, Lecturas
      <4>3. \A k \in s : pagos'[k].estado = "approved"
        BY <1>0 DEF PagosQuedan
      <4> QED
        BY <4>2, <4>3 DEF Respuesta
    <3> QED
      BY <2>2, <3>1, <3>2, <3>3
  <2> QED
    BY <1>0, <2>1, <2>3, <2>4, DecididoDe
<1>7. ASSUME NEW b \in gBarridos, G!Retomar(b) PROVE Decidido'
  <2>1. b \in G!Actores /\ leido[b] \in Lecturas /\ Camino(b) /\ Respuesta(b)
    BY DEF G!Actores, Formas, Caminos, Decidido
  <2>2. \/ \E k \in leido[b].lista : Ahora(b, "reservar", [leido[b] EXCEPT !.pago = k])
        \/ Ahora(b, "cobrar", [leido[b] EXCEPT !.fase = "cobrar"])
    BY <1>7, RetomarDeja
  <2>3. Quietos(b)
    BY <2>2 DEF Ahora, Regresa, Sincroniza
  <2>4. Respuesta(b)' /\ gPc'[b] # "transar"
    <3>1. CASE \E k \in leido[b].lista : Ahora(b, "reservar", [leido[b] EXCEPT !.pago = k])
      <4>1. PICK k \in leido[b].lista : Ahora(b, "reservar", [leido[b] EXCEPT !.pago = k])
        BY <3>1
      <4>2. /\ gPc'[b] = "reservar" /\ leido'[b].pago = k
            /\ leido'[b].fase = leido[b].fase /\ leido'[b].lista = leido[b].lista
        BY <2>1, <4>1 DEF Ahora, Lecturas
      <4>3. k \in G!Ids /\ gPc[b] = "retomar"
        BY <1>7, <2>1 DEF Camino, G!Retomar
      <4>4. pagos[k].estado = "approved"
        BY <2>1, <4>3 DEF Respuesta
      <4>5. pagos'[k].banco = "approved"
        BY <1>0, <4>3, <4>4 DEF BancoQueda, Decidido
      <4> QED
        BY <1>0, <2>1, <4>2, <4>5 DEF Respuesta, Camino, PagosQuedan
    <3>2. CASE Ahora(b, "cobrar", [leido[b] EXCEPT !.fase = "cobrar"])
      BY <2>1, <3>2 DEF Respuesta, Ahora, Lecturas
    <3> QED
      BY <2>2, <3>1, <3>2
  <2> QED
    BY <1>0, <2>1, <2>3, <2>4, DecididoDe
<1>8. ASSUME NEW b \in gBarridos, G!CobrarVencida(b) PROVE Decidido'
  <2>1. b \in G!Actores /\ leido[b] \in Lecturas /\ Camino(b) /\ Respuesta(b)
    BY DEF G!Actores, Formas, Caminos, Decidido
  <2>2. (\E p \in {"reservarCobro", "mora"} : Ahora(b, p, [leido[b] EXCEPT !.sub = sub, !.fase = "cobrar"]))
    BY <1>8, CobrarVencidaDeja
  <2>3. Quietos(b)
    BY <2>2 DEF Ahora, Regresa, Sincroniza
  <2>4. Respuesta(b)' /\ gPc'[b] # "transar"
    BY <1>8, <1>0, <2>1, <2>2, SinLeerTipo
    DEF Respuesta, Camino, Ahora, Regresa, Sincroniza, Lecturas, G!Fases, PagosQuedan, BancoQueda, G!CobrarVencida
  <2> QED
    BY <1>0, <2>1, <2>3, <2>4, DecididoDe
<1>9. ASSUME NEW b \in gBarridos, G!ReservarCobro(b) PROVE Decidido'
  <2>1. b \in G!Actores /\ leido[b] \in Lecturas /\ Camino(b) /\ Respuesta(b)
    BY DEF G!Actores, Formas, Caminos, Decidido
  <2>2. \/ Regresa(b)
        \/ Ahora(b, "crear", [leido[b] EXCEPT !.r = "renewal", !.sub = [leido[b].sub EXCEPT !.intentoDia = dia]])
    BY <1>9, ReservarCobroDeja
  <2>3. Quietos(b)
    BY <2>2 DEF Ahora, Regresa, Sincroniza
  <2>4. Respuesta(b)' /\ gPc'[b] # "transar"
    <3>1. CASE Regresa(b)
      BY <1>0, <2>1, <3>1, RegresaResponde
    <3>2. CASE ~Regresa(b)
      <4>1. gPc'[b] = "crear" /\ leido'[b].lista = leido[b].lista /\ leido'[b].fase = leido[b].fase
        BY <2>1, <2>2, <3>2 DEF Ahora, Lecturas
      <4> QED
        BY <1>0, <2>1, <4>1 DEF Respuesta, Camino, PagosQuedan
    <3> QED
      BY <3>1, <3>2
  <2> QED
    BY <1>0, <2>1, <2>3, <2>4, DecididoDe
<1>10. ASSUME NEW b \in gBarridos, G!CobrarMora(b) PROVE Decidido'
  <2>1. b \in G!Actores /\ leido[b] \in Lecturas /\ Camino(b) /\ Respuesta(b)
    BY DEF G!Actores, Formas, Caminos, Decidido
  <2>2. \/ (\E p \in {"guardarSub", "suspender"} : Ahora(b, p, [leido[b] EXCEPT !.sub = sub, !.fase = "mora", !.nuevo = G!SinAcceso(G!Cancelada(sub))]))
        \/ Ahora(b, "reservarCobro", [leido[b] EXCEPT !.sub = sub, !.fase = "mora"])
        \/ Ahora(b, "retirar", [leido[b] EXCEPT !.fase = "mora"])
    BY <1>10, CobrarMoraDeja
  <2>3. Quietos(b)
    BY <2>2 DEF Ahora, Regresa, Sincroniza
  <2>4. Respuesta(b)' /\ gPc'[b] # "transar"
    BY <1>10, <1>0, <2>1, <2>2, SinLeerTipo
    DEF Respuesta, Camino, Ahora, Regresa, Sincroniza, Lecturas, G!Fases, PagosQuedan, BancoQueda, G!CobrarMora
  <2> QED
    BY <1>0, <2>1, <2>3, <2>4, DecididoDe
<1>11. ASSUME NEW b \in gBarridos, G!Retirar(b) PROVE Decidido'
  <2>1. b \in G!Actores /\ leido[b] \in Lecturas /\ Camino(b) /\ Respuesta(b)
    BY DEF G!Actores, Formas, Caminos, Decidido
  <2>2. \/ Ahora(b, "suspender", [leido[b] EXCEPT !.sub = sub, !.nuevo = G!SinAcceso(sub), !.fase = "fin"])
        \/ Ahora(b, "libre", G!SinLeer)
    BY <1>11, RetirarDeja
  <2>3. Quietos(b)
    BY <2>2 DEF Ahora, Regresa, Sincroniza
  <2>4. Respuesta(b)' /\ gPc'[b] # "transar"
    BY <1>11, <1>0, <2>1, <2>2, SinLeerTipo
    DEF Respuesta, Camino, Ahora, Regresa, Sincroniza, Lecturas, G!Fases, PagosQuedan, BancoQueda, G!Retirar
  <2> QED
    BY <1>0, <2>1, <2>3, <2>4, DecididoDe
<1>12. ASSUME NEW a \in G!Actores, G!CrearPago(a) PROVE Decidido'
  <2>1. a \in G!Actores /\ leido[a] \in Lecturas /\ Camino(a) /\ Respuesta(a)
    BY DEF G!Actores, Formas, Caminos, Decidido
  <2>2. \/ Regresa(a) /\ UNCHANGED pagos
        \/ /\ Ahora(a, "transar", [leido[a] EXCEPT !.pago = Len(pagos) + 1])
           /\ \E p \in LosPagos :
                /\ p.estado = "pending" /\ p.banco = "no" /\ ~p.aplicado /\ p.efectos = {}
                /\ pagos'[Len(pagos) + 1] = p
           /\ Len(pagos) + 1 \in G!Ids' /\ G!Ids' = G!Ids \cup {Len(pagos) + 1}
           /\ Len(pagos) + 1 \notin G!Ids /\ \A k \in G!Ids : pagos'[k] = pagos[k]
    BY <1>12, CrearPagoDeja
  <2>3. Quietos(a)
    BY <2>2 DEF Ahora, Regresa, Sincroniza
  <2>4. Respuesta(a)' /\ (gPc'[a] = "transar" => leido'[a].pago \notin G!Ids)
    <3>1. CASE Regresa(a)
      BY <1>0, <2>1, <3>1 DEF Respuesta, Camino, Regresa, G!Fases, PagosQuedan
    <3>2. CASE ~ Regresa(a)
      <4> DEFINE n == Len(pagos) + 1
      <4>1. Ahora(a, "transar", [leido[a] EXCEPT !.pago = n]) /\ pagos'[n].banco = "no" /\ n \notin G!Ids
        BY <2>2, <3>2
      <4> HIDE DEF n
      <4>2. /\ gPc'[a] = "transar" /\ leido'[a].pago = n
            /\ leido'[a].fase = leido[a].fase /\ leido'[a].lista = leido[a].lista
        BY <2>1, <4>1 DEF Ahora, Lecturas
      <4> QED
        BY <1>0, <2>1, <4>1, <4>2 DEF Respuesta, Camino, PagosQuedan
    <3> QED
      BY <3>1, <3>2
  <2> QED
    BY <1>0, <2>1, <2>3, <2>4, DecididoDe
<1>13. ASSUME NEW a \in G!Actores, G!Transar(a) PROVE Decidido'
  <2>1. a \in G!Actores /\ leido[a] \in Lecturas /\ Camino(a) /\ Respuesta(a)
    BY DEF G!Actores, Formas, Caminos, Decidido
  <2>2. \/ Regresa(a)
        \/ \E r \in {"pending", "approved", "declined"} :
             /\ Ahora(a, "anotar", [leido[a] EXCEPT !.r = r])
             /\ Solo(leido[a].pago, [pagos[leido[a].pago] EXCEPT !.banco = r])
    BY <1>13, TransarDeja
  <2>3. Quietos(a)
    BY <2>2 DEF Ahora, Regresa, Sincroniza
  <2>4. Respuesta(a)' /\ gPc'[a] # "transar"
    <3>1. CASE Regresa(a)
      BY <1>0, <2>1, <3>1 DEF Respuesta, Camino, Regresa, G!Fases, PagosQuedan
    <3>2. CASE ~ Regresa(a)
      <4>1. PICK r \in {"pending", "approved", "declined"} :
               /\ Ahora(a, "anotar", [leido[a] EXCEPT !.r = r])
               /\ Solo(leido[a].pago, [pagos[leido[a].pago] EXCEPT !.banco = r])
        BY <2>2, <3>2
      <4>2. /\ gPc'[a] = "anotar" /\ leido'[a].pago = leido[a].pago /\ leido'[a].r = r
            /\ leido'[a].fase = leido[a].fase /\ leido'[a].lista = leido[a].lista
        BY <2>1, <4>1 DEF Ahora, Lecturas
      <4>3. pagos'[leido[a].pago].banco = r
        <5>1. pagos[leido[a].pago] \in LosPagos
          BY <4>1 DEF Solo, Formas, G!Ids
        <5>2. [pagos[leido[a].pago] EXCEPT !.banco = r].banco = r
          BY <5>1 DEF LosPagos
        <5> QED
          BY <4>1, <5>2 DEF Solo
      <4> QED
        BY <1>0, <2>1, <4>2, <4>3 DEF Respuesta, Camino, PagosQuedan
    <3> QED
      BY <3>1, <3>2
  <2> QED
    BY <1>0, <2>1, <2>3, <2>4, DecididoDe
<1>14. ASSUME NEW a \in G!Actores, G!Anotar(a) PROVE Decidido'
  <2>1. a \in G!Actores /\ leido[a] \in Lecturas /\ Camino(a) /\ Respuesta(a)
    BY DEF G!Actores, Formas, Caminos, Decidido
  <2>2. Sincroniza(a, leido[a].pago, leido[a].r)
    BY <1>14, AnotarDeja
  <2>3. Quietos(a)
    BY <2>2 DEF Ahora, Regresa, Sincroniza
  <2>4. Respuesta(a)' /\ gPc'[a] # "transar"
    BY <1>14, <1>0, <2>1, <2>2, SinLeerTipo
    DEF Respuesta, Camino, Ahora, Regresa, Sincroniza, Lecturas, G!Fases, PagosQuedan, BancoQueda, G!Anotar
  <2> QED
    BY <1>0, <2>1, <2>3, <2>4, DecididoDe
<1>15. ASSUME NEW a \in G!Actores, G!Reservar(a) PROVE Decidido'
  <2>1. a \in G!Actores /\ leido[a] \in Lecturas /\ Camino(a) /\ Respuesta(a)
    BY DEF G!Actores, Formas, Caminos, Decidido
  <2>2. \/ Regresa(a)
        \/ Ahora(a, "efecto", [leido[a] EXCEPT !.hechos = pagos[leido[a].pago].efectos])
    BY <1>15, ReservarDeja
  <2>3. Quietos(a)
    BY <2>2 DEF Ahora, Regresa, Sincroniza
  <2>4. Respuesta(a)' /\ gPc'[a] # "transar"
    BY <1>15, <1>0, <2>1, <2>2, SinLeerTipo
    DEF Respuesta, Camino, Ahora, Regresa, Sincroniza, Lecturas, G!Fases, PagosQuedan, BancoQueda, G!Reservar
  <2> QED
    BY <1>0, <2>1, <2>3, <2>4, DecididoDe
<1>16. ASSUME NEW a \in G!Actores, G!Efecto(a) PROVE Decidido'
  <2>1. a \in G!Actores /\ leido[a] \in Lecturas /\ Camino(a) /\ Respuesta(a)
    BY DEF G!Actores, Formas, Caminos, Decidido
  <2>2. \/ (\E p \in {"cerrar", "leerSub", "liberar"} : Ahora(a, p, leido[a]))
        \/ Ahora(a, "marcarEfecto", [leido[a] EXCEPT !.r = IF pagos[leido[a].pago].tipo = "docPackage" THEN "docCredits" ELSE "plan"])
    BY <1>16, EfectoDeja
  <2>3. Quietos(a)
    BY <2>2 DEF Ahora, Regresa, Sincroniza
  <2>4. Respuesta(a)' /\ gPc'[a] # "transar"
    <3>1. /\ gPc'[a] \in {"cerrar", "leerSub", "liberar", "marcarEfecto"}
          /\ leido'[a].lista = leido[a].lista /\ leido'[a].fase = leido[a].fase
      BY <2>1, <2>2 DEF Ahora, Lecturas
    <3> QED
      BY <1>0, <2>1, <3>1 DEF Respuesta, Camino, PagosQuedan
  <2> QED
    BY <1>0, <2>1, <2>3, <2>4, DecididoDe
<1>17. ASSUME NEW a \in G!Actores, G!LeerSub(a) PROVE Decidido'
  <2>1. a \in G!Actores /\ leido[a] \in Lecturas /\ Camino(a) /\ Respuesta(a)
    BY DEF G!Actores, Formas, Caminos, Decidido
  <2>2. \/ Ahora(a, "cerrar", leido[a])
        \/ Ahora(a, "guardarPeriodo", [leido[a] EXCEPT !.sub = sub])
    BY <1>17, LeerSubDeja
  <2>3. Quietos(a)
    BY <2>2 DEF Ahora, Regresa, Sincroniza
  <2>4. Respuesta(a)' /\ gPc'[a] # "transar"
    BY <1>17, <1>0, <2>1, <2>2, SinLeerTipo
    DEF Respuesta, Camino, Ahora, Regresa, Sincroniza, Lecturas, G!Fases, PagosQuedan, BancoQueda, G!LeerSub
  <2> QED
    BY <1>0, <2>1, <2>3, <2>4, DecididoDe
<1>18. ASSUME NEW a \in G!Actores, G!GuardarPeriodo(a) PROVE Decidido'
  <2>1. a \in G!Actores /\ leido[a] \in Lecturas /\ Camino(a) /\ Respuesta(a)
    BY DEF G!Actores, Formas, Caminos, Decidido
  <2>2. \/ Ahora(a, "liberar", leido[a])
        \/ Ahora(a, "marcar", [leido[a] EXCEPT !.r = "period", !.sub = G!SinSub])
    BY <1>18, GuardarPeriodoDeja
  <2>3. Quietos(a)
    BY <2>2 DEF Ahora, Regresa, Sincroniza
  <2>4. Respuesta(a)' /\ gPc'[a] # "transar"
    BY <1>18, <1>0, <2>1, <2>2, SinLeerTipo
    DEF Respuesta, Camino, Ahora, Regresa, Sincroniza, Lecturas, G!Fases, PagosQuedan, BancoQueda, G!GuardarPeriodo
  <2> QED
    BY <1>0, <2>1, <2>3, <2>4, DecididoDe
<1>19. ASSUME NEW a \in G!Actores, G!Marcar(a) PROVE Decidido'
  <2>1. a \in G!Actores /\ leido[a] \in Lecturas /\ Camino(a) /\ Respuesta(a)
    BY DEF G!Actores, Formas, Caminos, Decidido
  <2>2. (\E p \in {"leerSub", "cerrar"} : Ahora(a, p, leido[a]))
    BY <1>19, MarcarDeja
  <2>3. Quietos(a)
    BY <2>2 DEF Ahora, Regresa, Sincroniza
  <2>4. Respuesta(a)' /\ gPc'[a] # "transar"
    BY <1>19, <1>0, <2>1, <2>2, SinLeerTipo
    DEF Respuesta, Camino, Ahora, Regresa, Sincroniza, Lecturas, G!Fases, PagosQuedan, BancoQueda, G!Marcar
  <2> QED
    BY <1>0, <2>1, <2>3, <2>4, DecididoDe
<1>20. ASSUME NEW a \in G!Actores, G!Cerrar(a) PROVE Decidido'
  <2>1. a \in G!Actores /\ leido[a] \in Lecturas /\ Camino(a) /\ Respuesta(a)
    BY DEF G!Actores, Formas, Caminos, Decidido
  <2>2. Regresa(a)
    BY <1>20, CerrarDeja
  <2>3. Quietos(a)
    BY <2>2 DEF Ahora, Regresa, Sincroniza
  <2>4. Respuesta(a)' /\ gPc'[a] # "transar"
    BY <1>0, <2>1, <2>2, RegresaResponde
  <2> QED
    BY <1>0, <2>1, <2>3, <2>4, DecididoDe
<1>21. ASSUME NEW a \in G!Actores, G!Liberar(a) PROVE Decidido'
  <2>1. a \in G!Actores /\ leido[a] \in Lecturas /\ Camino(a) /\ Respuesta(a)
    BY DEF G!Actores, Formas, Caminos, Decidido
  <2>2. Regresa(a)
    BY <1>21, LiberarDeja
  <2>3. Quietos(a)
    BY <2>2 DEF Ahora, Regresa, Sincroniza
  <2>4. Respuesta(a)' /\ gPc'[a] # "transar"
    BY <1>0, <2>1, <2>2, RegresaResponde
  <2> QED
    BY <1>0, <2>1, <2>3, <2>4, DecididoDe
<1>22. ASSUME NEW a \in G!Actores, G!Declinar(a) PROVE Decidido'
  <2>1. a \in G!Actores /\ leido[a] \in Lecturas /\ Camino(a) /\ Respuesta(a)
    BY DEF G!Actores, Formas, Caminos, Decidido
  <2>2. \/ Regresa(a)
        \/ Ahora(a, "leerMora", leido[a])
    BY <1>22, DeclinarDeja
  <2>3. Quietos(a)
    BY <2>2 DEF Ahora, Regresa, Sincroniza
  <2>4. Respuesta(a)' /\ gPc'[a] # "transar"
    BY <1>22, <1>0, <2>1, <2>2, SinLeerTipo
    DEF Respuesta, Camino, Ahora, Regresa, Sincroniza, Lecturas, G!Fases, PagosQuedan, BancoQueda, G!Declinar
  <2> QED
    BY <1>0, <2>1, <2>3, <2>4, DecididoDe
<1>23. ASSUME NEW a \in G!Actores, G!LeerMora(a) PROVE Decidido'
  <2>1. a \in G!Actores /\ leido[a] \in Lecturas /\ Camino(a) /\ Respuesta(a)
    BY DEF G!Actores, Formas, Caminos, Decidido
  <2>2. \/ Regresa(a)
        \/ \E n \in Suscripciones : Ahora(a, "guardarSub", [leido[a] EXCEPT !.sub = sub, !.nuevo = n])
    BY <1>23, LeerMoraDeja
  <2>3. Quietos(a)
    BY <2>2 DEF Ahora, Regresa, Sincroniza
  <2>4. Respuesta(a)' /\ gPc'[a] # "transar"
    <3>1. CASE Regresa(a)
      BY <1>0, <2>1, <3>1, RegresaResponde
    <3>2. CASE ~Regresa(a)
      <4>1. gPc'[a] = "guardarSub" /\ leido'[a].lista = leido[a].lista /\ leido'[a].fase = leido[a].fase
        BY <2>1, <2>2, <3>2 DEF Ahora, Lecturas
      <4> QED
        BY <1>0, <2>1, <4>1 DEF Respuesta, Camino, PagosQuedan
    <3> QED
      BY <3>1, <3>2
  <2> QED
    BY <1>0, <2>1, <2>3, <2>4, DecididoDe
<1>24. ASSUME NEW a \in G!Actores, G!Suspender(a) PROVE Decidido'
  <2>1. a \in G!Actores /\ leido[a] \in Lecturas /\ Camino(a) /\ Respuesta(a)
    BY DEF G!Actores, Formas, Caminos, Decidido
  <2>2. Ahora(a, "guardarSub", leido[a])
    BY <1>24, SuspenderDeja
  <2>3. Quietos(a)
    BY <2>2 DEF Ahora, Regresa, Sincroniza
  <2>4. Respuesta(a)' /\ gPc'[a] # "transar"
    BY <1>24, <1>0, <2>1, <2>2, SinLeerTipo
    DEF Respuesta, Camino, Ahora, Regresa, Sincroniza, Lecturas, G!Fases, PagosQuedan, BancoQueda, G!Suspender
  <2> QED
    BY <1>0, <2>1, <2>3, <2>4, DecididoDe
<1>25. ASSUME NEW a \in G!Actores, G!GuardarSub(a) PROVE Decidido'
  <2>1. a \in G!Actores /\ leido[a] \in Lecturas /\ Camino(a) /\ Respuesta(a)
    BY DEF G!Actores, Formas, Caminos, Decidido
  <2>2. Regresa(a)
    BY <1>25, GuardarSubDeja
  <2>3. Quietos(a)
    BY <2>2 DEF Ahora, Regresa, Sincroniza
  <2>4. Respuesta(a)' /\ gPc'[a] # "transar"
    BY <1>0, <2>1, <2>2, RegresaResponde
  <2> QED
    BY <1>0, <2>1, <2>3, <2>4, DecididoDe
<1>26. ASSUME NEW a \in G!Actores, G!Otra(a) PROVE Decidido'
  <2>1. a \in G!Actores /\ leido[a] \in Lecturas /\ Camino(a) /\ Respuesta(a)
    BY DEF G!Actores, Formas, Caminos, Decidido
  <2>2. Ahora(a, "libre", G!SinLeer)
    BY <1>26, OtraDeja
  <2>3. Quietos(a)
    BY <2>2 DEF Ahora, Regresa, Sincroniza
  <2>4. Respuesta(a)' /\ gPc'[a] # "transar"
    BY <1>26, <1>0, <2>1, <2>2, SinLeerTipo
    DEF Respuesta, Camino, Ahora, Regresa, Sincroniza, Lecturas, G!Fases, PagosQuedan, BancoQueda, G!Otra
  <2> QED
    BY <1>0, <2>1, <2>3, <2>4, DecididoDe
<1>27. ASSUME NEW a \in G!Actores, G!Corte(a) PROVE Decidido'
  <2>1. a \in G!Actores /\ leido[a] \in Lecturas /\ Camino(a) /\ Respuesta(a)
    BY DEF G!Actores, Formas, Caminos, Decidido
  <2>2. Ahora(a, "fin", G!SinLeer)
    BY <1>27, CorteDeja
  <2>3. Quietos(a)
    BY <2>2 DEF Ahora, Regresa, Sincroniza
  <2>4. Respuesta(a)' /\ gPc'[a] # "transar"
    BY <1>27, <1>0, <2>1, <2>2, SinLeerTipo
    DEF Respuesta, Camino, Ahora, Regresa, Sincroniza, Lecturas, G!Fases, PagosQuedan, BancoQueda, G!Corte
  <2> QED
    BY <1>0, <2>1, <2>3, <2>4, DecididoDe
<1>28. ASSUME NEW k \in G!Ids, G!Decide(k) PROVE Decidido'
  BY <1>28, <1>0, TodosQuietos DEF G!Decide
<1>29. ASSUME G!NuevoDia PROVE Decidido'
  BY <1>29, <1>0, TodosQuietos DEF G!NuevoDia
<1>30. CASE UNCHANGED G!vars
  BY <1>30, <1>0, TodosQuietos DEF G!vars
<1> QED
  BY <1>1, <1>2, <1>3, <1>4, <1>5, <1>6, <1>7, <1>8, <1>9, <1>10, <1>11, <1>12, <1>13, <1>14,
     <1>15, <1>16, <1>17, <1>18, <1>19, <1>20, <1>21, <1>22, <1>23, <1>24, <1>25, <1>26,
     <1>27, <1>28, <1>29, <1>30
  DEF G!Next, G!Cobra, G!Aplica, G!Barre



-----------------------------------------------------------------------------
(* The lease of a payment: whoever applies it is the only one who writes it. *)

\* What the others write leaves the payment that b applies as it was.
AjenosQuedan ==
    \A b \in G!Actores : gPc[b] \in G!Aplicando /\ gPc'[b] = gPc[b] =>
        LET k == leido[b].pago IN
        /\ pagos'[k].dueno = pagos[k].dueno /\ pagos'[k].aplicado = pagos[k].aplicado
        /\ pagos'[k].estado = pagos[k].estado /\ pagos'[k].efectos = pagos[k].efectos
        /\ pagos'[k].tipo = pagos[k].tipo

LEMMA SinTocar ==
    ASSUME UNCHANGED pagos
    PROVE  AjenosQuedan
BY DEF AjenosQuedan

\* It is not the payment that was written, or the write is of something else.
LEMMA OtroPago ==
    ASSUME Caminos, NEW k \in G!Ids, NEW p, Solo(k, p),
           \/ \A b \in G!Actores : gPc[b] \in G!Aplicando /\ gPc'[b] = gPc[b] => leido[b].pago # k
           \/ /\ p.dueno = pagos[k].dueno /\ p.aplicado = pagos[k].aplicado
              /\ p.estado = pagos[k].estado /\ p.efectos = pagos[k].efectos /\ p.tipo = pagos[k].tipo
    PROVE  AjenosQuedan
<1>1. \A b \in G!Actores : gPc[b] \in G!Aplicando => leido[b].pago \in G!Ids
  BY DEF Caminos, Camino, G!Aplicando
<1> QED
  BY <1>1 DEF Solo, AjenosQuedan

\* Two who apply one payment are one.
LEMMA UnSoloDueno ==
    ASSUME Arriendo, NEW a \in G!Actores, gPc[a] \in G!Aplicando, NEW b \in G!Actores,
           gPc[b] \in G!Aplicando, leido[b].pago = leido[a].pago
    PROVE  a = b
BY DEF Arriendo, Arrendado


LEMMA AjenosPaso ==
    ASSUME G!Supuestos
    PROVE  Formas /\ Caminos /\ Marcas /\ Arriendo /\ [G!Next]_(G!vars) => AjenosQuedan
<1> SUFFICES ASSUME Formas, Caminos, Marcas, Arriendo, [G!Next]_(G!vars) PROVE AjenosQuedan
  OBVIOUS
<1>1. ASSUME NEW u \in Altas, G!Alta(u) PROVE AjenosQuedan
  BY <1>1, SinTocar DEF G!Alta
<1>2. ASSUME NEW u \in Compras, G!Comprar(u) PROVE AjenosQuedan
  BY <1>2, SinTocar DEF G!Comprar
<1>3. ASSUME NEW w \in Avisos, G!Aviso(w) PROVE AjenosQuedan
  <2>1. PICK k \in G!Ids : Solo(k, [pagos[k] EXCEPT !.tx = TRUE])
    BY <1>3, AvisoDeja
  <2>2. pagos[k] \in LosPagos
    BY DEF Formas, G!Ids
  <2> DEFINE p == [pagos[k] EXCEPT !.tx = TRUE]
  <2>3. /\ p.dueno = pagos[k].dueno /\ p.aplicado = pagos[k].aplicado
        /\ p.estado = pagos[k].estado /\ p.efectos = pagos[k].efectos /\ p.tipo = pagos[k].tipo
    BY <2>2 DEF LosPagos
  <2>4. Solo(k, p)
    BY <2>1
  <2> HIDE DEF p
  <2> QED
    BY <2>3, <2>4, OtroPago
<1>4. ASSUME NEW c \in Cancelaciones, G!Cancelar(c) PROVE AjenosQuedan
  BY <1>4, SinTocar DEF G!Cancelar
<1>5. ASSUME NEW b \in gBarridos, G!Barrer(b) PROVE AjenosQuedan
  BY <1>5, SinTocar DEF G!Barrer
<1>6. ASSUME NEW b \in gBarridos, G!Reconciliar(b) PROVE AjenosQuedan
  BY <1>6, SinTocar DEF G!Reconciliar
<1>7. ASSUME NEW b \in gBarridos, G!Retomar(b) PROVE AjenosQuedan
  BY <1>7, SinTocar DEF G!Retomar
<1>8. ASSUME NEW b \in gBarridos, G!CobrarVencida(b) PROVE AjenosQuedan
  BY <1>8, SinTocar DEF G!CobrarVencida
<1>9. ASSUME NEW b \in gBarridos, G!ReservarCobro(b) PROVE AjenosQuedan
  BY <1>9, SinTocar DEF G!ReservarCobro
<1>10. ASSUME NEW b \in gBarridos, G!CobrarMora(b) PROVE AjenosQuedan
  BY <1>10, SinTocar DEF G!CobrarMora
<1>11. ASSUME NEW b \in gBarridos, G!Retirar(b) PROVE AjenosQuedan
  BY <1>11, SinTocar DEF G!Retirar
<1>12. ASSUME NEW a \in G!Actores, G!CrearPago(a) PROVE AjenosQuedan
  <2>1. UNCHANGED pagos \/ \A k \in G!Ids : pagos'[k] = pagos[k]
    BY <1>12, CrearPagoDeja
  <2>2. \A b \in G!Actores : gPc[b] \in G!Aplicando => leido[b].pago \in G!Ids
    BY DEF Caminos, Camino, G!Aplicando
  <2> QED
    BY <2>1, <2>2 DEF AjenosQuedan
<1>13. ASSUME NEW a \in G!Actores, G!Transar(a) PROVE AjenosQuedan
  <2> DEFINE k == leido[a].pago
  <2>1. k \in G!Ids /\ pagos[k] \in LosPagos
    BY <1>13 DEF Caminos, Camino, Formas, G!Ids, G!Transar
  <2>2. PICK r \in Bancos : Solo(k, [pagos[k] EXCEPT !.banco = r])
    BY <1>13, Escribe
  <2> DEFINE p == [pagos[k] EXCEPT !.banco = r]
  <2>3. /\ p.dueno = pagos[k].dueno /\ p.aplicado = pagos[k].aplicado
        /\ p.estado = pagos[k].estado /\ p.efectos = pagos[k].efectos /\ p.tipo = pagos[k].tipo
    BY <2>1 DEF LosPagos
  <2>4. Solo(k, p)
    BY <2>2
  <2> HIDE DEF p, k
  <2> QED
    BY <2>1, <2>3, <2>4, OtroPago
<1>14. ASSUME NEW a \in G!Actores, G!Anotar(a) PROVE AjenosQuedan
  <2> DEFINE k == leido[a].pago
             p == [pagos[k] EXCEPT !.tx = TRUE]
  <2>1. k \in G!Ids /\ pagos[k] \in LosPagos
    BY <1>14 DEF Caminos, Camino, Formas, G!Ids, G!PasosPago, G!Anotar
  <2>3. Solo(k, p)
    BY <1>14, Escribe
  <2>4. /\ p.dueno = pagos[k].dueno /\ p.aplicado = pagos[k].aplicado
        /\ p.estado = pagos[k].estado /\ p.efectos = pagos[k].efectos /\ p.tipo = pagos[k].tipo
    BY <2>1 DEF LosPagos
  <2> HIDE DEF p, k
  <2> QED
    BY <2>1, <2>3, <2>4, OtroPago
<1>15. ASSUME NEW a \in G!Actores, G!Reservar(a) PROVE AjenosQuedan
  <2> DEFINE k == leido[a].pago
             p == [pagos[k] EXCEPT !.estado = "approved", !.dueno = a]
  <2>1. k \in G!Ids /\ pagos[k] \in LosPagos
    BY <1>15 DEF Caminos, Camino, Formas, G!Ids, G!PasosPago, G!Reservar
  <2>3. UNCHANGED pagos \/ Solo(k, p)
    BY <1>15, Escribe
  <2>4. ASSUME NEW b \in G!Actores, gPc[b] \in G!Aplicando, gPc'[b] = gPc[b], leido[b].pago = k
        PROVE  UNCHANGED pagos
    <3>1. Arrendado(b)
      BY DEF Arriendo
    <3>2. pagos[k].dueno = b /\ b # Nadie
      BY <2>4, <3>1 DEF Arrendado, G!Supuestos
    <3>3. ~ G!Caduca(k)
      BY <2>4, <3>2 DEF G!Caduca
    <3> QED
      BY <1>15, <3>3 DEF G!Reservar
  <2> HIDE DEF p, k
  <2>7. CASE UNCHANGED pagos
    BY <2>7, SinTocar
  <2> QED
    BY <2>1, <2>3, <2>4, <2>7, OtroPago
<1>16. ASSUME NEW a \in G!Actores, G!Efecto(a) PROVE AjenosQuedan
  BY <1>16, SinTocar DEF G!Efecto
<1>17. ASSUME NEW a \in G!Actores, G!LeerSub(a) PROVE AjenosQuedan
  BY <1>17, SinTocar DEF G!LeerSub
<1>18. ASSUME NEW a \in G!Actores, G!GuardarPeriodo(a) PROVE AjenosQuedan
  BY <1>18, SinTocar DEF G!GuardarPeriodo
<1>19. ASSUME NEW a \in G!Actores, G!Marcar(a) PROVE AjenosQuedan
  <2> DEFINE k == leido[a].pago
             p == [pagos[k] EXCEPT !.efectos = @ \cup {leido[a].r}]
  <2>1. k \in G!Ids /\ pagos[k] \in LosPagos
    BY <1>19 DEF Caminos, Camino, Formas, G!Ids, G!PasosPago, G!Marcar
  <2>2. leido[a].r \in Efectos
    BY <1>19, <2>1 DEF Marcas, Marca, G!Marcar, Efectos
  <2>3. Solo(k, p)
    BY <1>19, <2>2, Escribe
  <2>4. ASSUME NEW b \in G!Actores, gPc[b] \in G!Aplicando, gPc'[b] = gPc[b], leido[b].pago = k
        PROVE  FALSE
    <3>1. Arrendado(b)
      BY DEF Arriendo
    <3>2. gPc[a] \in {"marcarEfecto", "marcar"}
      BY <1>19 DEF G!Marcar
    <3>3. gPc'[a] # gPc[a]
      BY <1>19, <3>2, MarcarDeja, <2>1 DEF Ahora, Regresa, G!Fases
    <3>4. a = b
      BY <2>4, <3>2, UnSoloDueno DEF G!Aplicando, G!PasosPago
    <3> QED
      BY <2>4, <3>3, <3>4
  <2> HIDE DEF p, k
  <2> QED
    BY <2>1, <2>3, <2>4, OtroPago
<1>20. ASSUME NEW a \in G!Actores, G!Cerrar(a) PROVE AjenosQuedan
  <2> DEFINE k == leido[a].pago
             p == [pagos[k] EXCEPT !.aplicado = TRUE, !.dueno = Nadie]
  <2>1. k \in G!Ids /\ pagos[k] \in LosPagos
    BY <1>20 DEF Caminos, Camino, Formas, G!Ids, G!PasosPago, G!Cerrar
  <2>3. Solo(k, p)
    BY <1>20, Escribe
  <2>4. ASSUME NEW b \in G!Actores, gPc[b] \in G!Aplicando, gPc'[b] = gPc[b], leido[b].pago = k
        PROVE  FALSE
    <3>1. Arrendado(b)
      BY DEF Arriendo
    <3>2. gPc[a] = "cerrar"
      BY <1>20 DEF G!Cerrar
    <3>3. gPc'[a] # gPc[a]
      BY <1>20, <3>2, CerrarDeja DEF Ahora, Regresa, G!Fases
    <3>4. a = b
      BY <2>4, <3>2, UnSoloDueno DEF G!Aplicando, G!PasosPago
    <3> QED
      BY <2>4, <3>3, <3>4
  <2> HIDE DEF p, k
  <2> QED
    BY <2>1, <2>3, <2>4, OtroPago
<1>21. ASSUME NEW a \in G!Actores, G!Liberar(a) PROVE AjenosQuedan
  <2> DEFINE k == leido[a].pago
             p == [pagos[k] EXCEPT !.dueno = Nadie]
  <2>1. k \in G!Ids /\ pagos[k] \in LosPagos
    BY <1>21 DEF Caminos, Camino, Formas, G!Ids, G!PasosPago, G!Liberar
  <2>3. UNCHANGED pagos \/ Solo(k, p)
    BY <1>21, Escribe
  <2>4. ASSUME NEW b \in G!Actores, gPc[b] \in G!Aplicando, gPc'[b] = gPc[b], leido[b].pago = k
        PROVE  UNCHANGED pagos
    <3>1. Arrendado(b)
      BY DEF Arriendo
    <3>2. pagos[k].dueno = b
      BY <2>4, <3>1 DEF Arrendado
    <3>3. gPc[a] = "liberar" /\ gPc'[a] # "liberar"
      BY <1>21, LiberarDeja DEF Regresa, G!Fases, G!Liberar
    <3>4. b # a
      BY <2>4, <3>3
    <3> QED
      BY <1>21, <3>2, <3>4 DEF G!Liberar
  <2> HIDE DEF p, k
  <2>7. CASE UNCHANGED pagos
    BY <2>7, SinTocar
  <2> QED
    BY <2>1, <2>3, <2>4, <2>7, OtroPago
<1>22. ASSUME NEW a \in G!Actores, G!Declinar(a) PROVE AjenosQuedan
  <2> DEFINE k == leido[a].pago
             p == [pagos[k] EXCEPT !.estado = "declined"]
  <2>1. k \in G!Ids /\ pagos[k] \in LosPagos
    BY <1>22 DEF Caminos, Camino, Formas, G!Ids, G!PasosPago, G!Declinar
  <2>3. UNCHANGED pagos \/ Solo(k, p)
    BY <1>22, Escribe
  <2>4. ASSUME NEW b \in G!Actores, gPc[b] \in G!Aplicando, gPc'[b] = gPc[b], leido[b].pago = k
        PROVE  UNCHANGED pagos
    <3>1. Arrendado(b)
      BY DEF Arriendo
    <3>2. pagos[k].estado = "approved"
      BY <2>4, <3>1 DEF Arrendado
    <3> QED
      BY <1>22, <3>2 DEF G!Declinar
  <2> HIDE DEF p, k
  <2>7. CASE UNCHANGED pagos
    BY <2>7, SinTocar
  <2> QED
    BY <2>1, <2>3, <2>4, <2>7, OtroPago
<1>23. ASSUME NEW a \in G!Actores, G!LeerMora(a) PROVE AjenosQuedan
  BY <1>23, SinTocar DEF G!LeerMora
<1>24. ASSUME NEW a \in G!Actores, G!Suspender(a) PROVE AjenosQuedan
  BY <1>24, SinTocar DEF G!Suspender
<1>25. ASSUME NEW a \in G!Actores, G!GuardarSub(a) PROVE AjenosQuedan
  BY <1>25, SinTocar DEF G!GuardarSub
<1>26. ASSUME NEW a \in G!Actores, G!Otra(a) PROVE AjenosQuedan
  BY <1>26, SinTocar DEF G!Otra
<1>27. ASSUME NEW a \in G!Actores, G!Corte(a) PROVE AjenosQuedan
  BY <1>27, SinTocar DEF G!Corte
<1>28. ASSUME NEW k \in G!Ids, G!Decide(k) PROVE AjenosQuedan
  <2>1. pagos[k] \in LosPagos
    BY DEF Formas, G!Ids
  <2>2. PICK r \in {"approved", "declined"} : Solo(k, [pagos[k] EXCEPT !.banco = r])
    BY <1>28, EscribenOtros
  <2> DEFINE p == [pagos[k] EXCEPT !.banco = r]
  <2>3. /\ p.dueno = pagos[k].dueno /\ p.aplicado = pagos[k].aplicado
        /\ p.estado = pagos[k].estado /\ p.efectos = pagos[k].efectos /\ p.tipo = pagos[k].tipo
    BY <2>1 DEF LosPagos
  <2>4. Solo(k, p)
    BY <2>2
  <2> HIDE DEF p
  <2> QED
    BY <2>3, <2>4, OtroPago
<1>29. ASSUME G!NuevoDia PROVE AjenosQuedan
  BY <1>29, SinTocar DEF G!NuevoDia
<1>30. CASE UNCHANGED G!vars
  BY <1>30, SinTocar DEF G!vars
<1> QED
  BY <1>1, <1>2, <1>3, <1>4, <1>5, <1>6, <1>7, <1>8, <1>9, <1>10, <1>11, <1>12, <1>13, <1>14,
     <1>15, <1>16, <1>17, <1>18, <1>19, <1>20, <1>21, <1>22, <1>23, <1>24, <1>25, <1>26,
     <1>27, <1>28, <1>29, <1>30
  DEF G!Next, G!Cobra, G!Aplica, G!Barre


LEMMA ArriendoDe ==
    ASSUME Arriendo, AjenosQuedan, NEW a \in G!Actores, Quietos(a), Arrendado(a)'
    PROVE  Arriendo'
<1>1. ASSUME NEW b \in G!Actores \ {a} PROVE Arrendado(b)'
  BY DEF Quietos, AjenosQuedan, Arriendo, Arrendado
<1> QED
  BY <1>1 DEF Arriendo


\* Who moves: one that applies an approval, or one that does not from then on; a period
\* is left without its mark only by a process that is lost.
Quien ==
    \/ UNCHANGED <<gPc, leido>>
    \/ \E a \in G!Actores :
         /\ Quietos(a)
         /\ \/ G!Reservar(a) \/ G!Efecto(a) \/ G!LeerSub(a) \/ G!GuardarPeriodo(a) \/ G!Marcar(a)
            \/ gPc'[a] \notin G!Aplicando /\ (gPc[a] = "marcar" => "marcar" \in gCortan)

LEMMA QuienPaso ==
    ASSUME G!Supuestos
    PROVE  Formas /\ Caminos /\ [G!Next]_(G!vars) => Quien
<1> SUFFICES ASSUME Formas, Caminos, [G!Next]_(G!vars) PROVE Quien
  OBVIOUS
<1>1. ASSUME NEW u \in Altas, G!Alta(u) PROVE Quien
  <2>1. u \in G!Actores
    BY DEF G!Actores
  <2>2. Quietos(u) /\ gPc'[u] \notin G!Aplicando
    BY <1>1, <2>1, AltaDeja DEF Ahora, Regresa, Sincroniza, G!Aplicando, G!PasosPago, G!Fases
  <2>3. gPc[u] = "marcar" => "marcar" \in gCortan
    BY <1>1 DEF G!Alta, G!Entra
  <2> QED
    BY <2>1, <2>2, <2>3 DEF Quien
<1>2. ASSUME NEW u \in Compras, G!Comprar(u) PROVE Quien
  <2>1. u \in G!Actores
    BY DEF G!Actores
  <2>2. Quietos(u) /\ gPc'[u] \notin G!Aplicando
    BY <1>2, <2>1, ComprarDeja DEF Ahora, Regresa, Sincroniza, G!Aplicando, G!PasosPago, G!Fases
  <2>3. gPc[u] = "marcar" => "marcar" \in gCortan
    BY <1>2 DEF G!Comprar, G!Entra
  <2> QED
    BY <2>1, <2>2, <2>3 DEF Quien
<1>3. ASSUME NEW w \in Avisos, G!Aviso(w) PROVE Quien
  <2>1. w \in G!Actores
    BY DEF G!Actores
  <2>2. Quietos(w) /\ gPc'[w] \notin G!Aplicando
    BY <1>3, <2>1, AvisoDeja DEF Ahora, Regresa, Sincroniza, G!Aplicando, G!PasosPago, G!Fases
  <2>3. gPc[w] = "marcar" => "marcar" \in gCortan
    BY <1>3 DEF G!Aviso, G!Entra
  <2> QED
    BY <2>1, <2>2, <2>3 DEF Quien
<1>4. ASSUME NEW c \in Cancelaciones, G!Cancelar(c) PROVE Quien
  <2>1. c \in G!Actores
    BY DEF G!Actores
  <2>2. Quietos(c) /\ gPc'[c] \notin G!Aplicando
    BY <1>4, <2>1, CancelarDeja DEF Ahora, Regresa, Sincroniza, G!Aplicando, G!PasosPago, G!Fases
  <2>3. gPc[c] = "marcar" => "marcar" \in gCortan
    BY <1>4 DEF G!Cancelar
  <2> QED
    BY <2>1, <2>2, <2>3 DEF Quien
<1>5. ASSUME NEW b \in gBarridos, G!Barrer(b) PROVE Quien
  <2>1. b \in G!Actores
    BY DEF G!Actores
  <2>2. Quietos(b) /\ gPc'[b] \notin G!Aplicando
    BY <1>5, <2>1, BarrerDeja DEF Ahora, Regresa, Sincroniza, G!Aplicando, G!PasosPago, G!Fases
  <2>3. gPc[b] = "marcar" => "marcar" \in gCortan
    BY <1>5 DEF G!Barrer, G!Entra
  <2> QED
    BY <2>1, <2>2, <2>3 DEF Quien
<1>6. ASSUME NEW b \in gBarridos, G!Reconciliar(b) PROVE Quien
  <2>1. b \in G!Actores
    BY DEF G!Actores
  <2>2. Quietos(b) /\ gPc'[b] \notin G!Aplicando
    BY <1>6, <2>1, ReconciliarDeja DEF Ahora, Regresa, Sincroniza, G!Aplicando, G!PasosPago, G!Fases
  <2>3. gPc[b] = "marcar" => "marcar" \in gCortan
    BY <1>6 DEF G!Reconciliar
  <2> QED
    BY <2>1, <2>2, <2>3 DEF Quien
<1>7. ASSUME NEW b \in gBarridos, G!Retomar(b) PROVE Quien
  <2>1. b \in G!Actores
    BY DEF G!Actores
  <2>2. Quietos(b) /\ gPc'[b] \notin G!Aplicando
    BY <1>7, <2>1, RetomarDeja DEF Ahora, Regresa, Sincroniza, G!Aplicando, G!PasosPago, G!Fases
  <2>3. gPc[b] = "marcar" => "marcar" \in gCortan
    BY <1>7 DEF G!Retomar
  <2> QED
    BY <2>1, <2>2, <2>3 DEF Quien
<1>8. ASSUME NEW b \in gBarridos, G!CobrarVencida(b) PROVE Quien
  <2>1. b \in G!Actores
    BY DEF G!Actores
  <2>2. Quietos(b) /\ gPc'[b] \notin G!Aplicando
    BY <1>8, <2>1, CobrarVencidaDeja DEF Ahora, Regresa, Sincroniza, G!Aplicando, G!PasosPago, G!Fases
  <2>3. gPc[b] = "marcar" => "marcar" \in gCortan
    BY <1>8 DEF G!CobrarVencida
  <2> QED
    BY <2>1, <2>2, <2>3 DEF Quien
<1>9. ASSUME NEW b \in gBarridos, G!ReservarCobro(b) PROVE Quien
  <2>1. b \in G!Actores
    BY DEF G!Actores
  <2>2. Quietos(b) /\ gPc'[b] \notin G!Aplicando
    BY <1>9, <2>1, ReservarCobroDeja DEF Ahora, Regresa, Sincroniza, G!Aplicando, G!PasosPago, G!Fases
  <2>3. gPc[b] = "marcar" => "marcar" \in gCortan
    BY <1>9 DEF G!ReservarCobro
  <2> QED
    BY <2>1, <2>2, <2>3 DEF Quien
<1>10. ASSUME NEW b \in gBarridos, G!CobrarMora(b) PROVE Quien
  <2>1. b \in G!Actores
    BY DEF G!Actores
  <2>2. Quietos(b) /\ gPc'[b] \notin G!Aplicando
    BY <1>10, <2>1, CobrarMoraDeja DEF Ahora, Regresa, Sincroniza, G!Aplicando, G!PasosPago, G!Fases
  <2>3. gPc[b] = "marcar" => "marcar" \in gCortan
    BY <1>10 DEF G!CobrarMora
  <2> QED
    BY <2>1, <2>2, <2>3 DEF Quien
<1>11. ASSUME NEW b \in gBarridos, G!Retirar(b) PROVE Quien
  <2>1. b \in G!Actores
    BY DEF G!Actores
  <2>2. Quietos(b) /\ gPc'[b] \notin G!Aplicando
    BY <1>11, <2>1, RetirarDeja DEF Ahora, Regresa, Sincroniza, G!Aplicando, G!PasosPago, G!Fases
  <2>3. gPc[b] = "marcar" => "marcar" \in gCortan
    BY <1>11 DEF G!Retirar
  <2> QED
    BY <2>1, <2>2, <2>3 DEF Quien
<1>12. ASSUME NEW a \in G!Actores, G!CrearPago(a) PROVE Quien
  <2>1. a \in G!Actores
    BY DEF G!Actores
  <2>2. Quietos(a) /\ gPc'[a] \notin G!Aplicando
    BY <1>12, <2>1, CrearPagoDeja DEF Ahora, Regresa, Sincroniza, G!Aplicando, G!PasosPago, G!Fases
  <2>3. gPc[a] = "marcar" => "marcar" \in gCortan
    BY <1>12 DEF G!CrearPago
  <2> QED
    BY <2>1, <2>2, <2>3 DEF Quien
<1>13. ASSUME NEW a \in G!Actores, G!Transar(a) PROVE Quien
  <2>1. a \in G!Actores
    BY DEF G!Actores
  <2>2. Quietos(a) /\ gPc'[a] \notin G!Aplicando
    BY <1>13, <2>1, TransarDeja DEF Ahora, Regresa, Sincroniza, G!Aplicando, G!PasosPago, G!Fases
  <2>3. gPc[a] = "marcar" => "marcar" \in gCortan
    BY <1>13 DEF G!Transar
  <2> QED
    BY <2>1, <2>2, <2>3 DEF Quien
<1>14. ASSUME NEW a \in G!Actores, G!Anotar(a) PROVE Quien
  <2>1. a \in G!Actores
    BY DEF G!Actores
  <2>2. Quietos(a) /\ gPc'[a] \notin G!Aplicando
    BY <1>14, <2>1, AnotarDeja DEF Ahora, Regresa, Sincroniza, G!Aplicando, G!PasosPago, G!Fases
  <2>3. gPc[a] = "marcar" => "marcar" \in gCortan
    BY <1>14 DEF G!Anotar
  <2> QED
    BY <2>1, <2>2, <2>3 DEF Quien
<1>15. ASSUME NEW a \in G!Actores, G!Reservar(a) PROVE Quien
  BY <1>15, ReservarDeja DEF Ahora, Regresa, Quien
<1>16. ASSUME NEW a \in G!Actores, G!Efecto(a) PROVE Quien
  BY <1>16, EfectoDeja DEF Ahora, Regresa, Quien
<1>17. ASSUME NEW a \in G!Actores, G!LeerSub(a) PROVE Quien
  BY <1>17, LeerSubDeja DEF Ahora, Regresa, Quien
<1>18. ASSUME NEW a \in G!Actores, G!GuardarPeriodo(a) PROVE Quien
  BY <1>18, GuardarPeriodoDeja DEF Ahora, Regresa, Quien
<1>19. ASSUME NEW a \in G!Actores, G!Marcar(a) PROVE Quien
  BY <1>19, MarcarDeja DEF Ahora, Regresa, Quien
<1>20. ASSUME NEW a \in G!Actores, G!Cerrar(a) PROVE Quien
  <2>1. a \in G!Actores
    BY DEF G!Actores
  <2>2. Quietos(a) /\ gPc'[a] \notin G!Aplicando
    BY <1>20, <2>1, CerrarDeja DEF Ahora, Regresa, Sincroniza, G!Aplicando, G!PasosPago, G!Fases
  <2>3. gPc[a] = "marcar" => "marcar" \in gCortan
    BY <1>20 DEF G!Cerrar
  <2> QED
    BY <2>1, <2>2, <2>3 DEF Quien
<1>21. ASSUME NEW a \in G!Actores, G!Liberar(a) PROVE Quien
  <2>1. a \in G!Actores
    BY DEF G!Actores
  <2>2. Quietos(a) /\ gPc'[a] \notin G!Aplicando
    BY <1>21, <2>1, LiberarDeja DEF Ahora, Regresa, Sincroniza, G!Aplicando, G!PasosPago, G!Fases
  <2>3. gPc[a] = "marcar" => "marcar" \in gCortan
    BY <1>21 DEF G!Liberar
  <2> QED
    BY <2>1, <2>2, <2>3 DEF Quien
<1>22. ASSUME NEW a \in G!Actores, G!Declinar(a) PROVE Quien
  <2>1. a \in G!Actores
    BY DEF G!Actores
  <2>2. Quietos(a) /\ gPc'[a] \notin G!Aplicando
    BY <1>22, <2>1, DeclinarDeja DEF Ahora, Regresa, Sincroniza, G!Aplicando, G!PasosPago, G!Fases
  <2>3. gPc[a] = "marcar" => "marcar" \in gCortan
    BY <1>22 DEF G!Declinar
  <2> QED
    BY <2>1, <2>2, <2>3 DEF Quien
<1>23. ASSUME NEW a \in G!Actores, G!LeerMora(a) PROVE Quien
  <2>1. a \in G!Actores
    BY DEF G!Actores
  <2>2. Quietos(a) /\ gPc'[a] \notin G!Aplicando
    BY <1>23, <2>1, LeerMoraDeja DEF Ahora, Regresa, Sincroniza, G!Aplicando, G!PasosPago, G!Fases
  <2>3. gPc[a] = "marcar" => "marcar" \in gCortan
    BY <1>23 DEF G!LeerMora
  <2> QED
    BY <2>1, <2>2, <2>3 DEF Quien
<1>24. ASSUME NEW a \in G!Actores, G!Suspender(a) PROVE Quien
  <2>1. a \in G!Actores
    BY DEF G!Actores
  <2>2. Quietos(a) /\ gPc'[a] \notin G!Aplicando
    BY <1>24, <2>1, SuspenderDeja DEF Ahora, Regresa, Sincroniza, G!Aplicando, G!PasosPago, G!Fases
  <2>3. gPc[a] = "marcar" => "marcar" \in gCortan
    BY <1>24 DEF G!Suspender
  <2> QED
    BY <2>1, <2>2, <2>3 DEF Quien
<1>25. ASSUME NEW a \in G!Actores, G!GuardarSub(a) PROVE Quien
  <2>1. a \in G!Actores
    BY DEF G!Actores
  <2>2. Quietos(a) /\ gPc'[a] \notin G!Aplicando
    BY <1>25, <2>1, GuardarSubDeja DEF Ahora, Regresa, Sincroniza, G!Aplicando, G!PasosPago, G!Fases
  <2>3. gPc[a] = "marcar" => "marcar" \in gCortan
    BY <1>25 DEF G!GuardarSub
  <2> QED
    BY <2>1, <2>2, <2>3 DEF Quien
<1>26. ASSUME NEW a \in G!Actores, G!Otra(a) PROVE Quien
  <2>1. a \in G!Actores
    BY DEF G!Actores
  <2>2. Quietos(a) /\ gPc'[a] \notin G!Aplicando
    BY <1>26, <2>1, OtraDeja DEF Ahora, Regresa, Sincroniza, G!Aplicando, G!PasosPago, G!Fases
  <2>3. gPc[a] = "marcar" => "marcar" \in gCortan
    BY <1>26 DEF G!Otra
  <2> QED
    BY <2>1, <2>2, <2>3 DEF Quien
<1>27. ASSUME NEW a \in G!Actores, G!Corte(a) PROVE Quien
  <2>1. a \in G!Actores
    BY DEF G!Actores
  <2>2. Quietos(a) /\ gPc'[a] \notin G!Aplicando
    BY <1>27, <2>1, CorteDeja DEF Ahora, Regresa, Sincroniza, G!Aplicando, G!PasosPago, G!Fases
  <2>3. gPc[a] = "marcar" => "marcar" \in gCortan
    BY <1>27 DEF G!Corte
  <2> QED
    BY <2>1, <2>2, <2>3 DEF Quien
<1>28. ASSUME NEW k \in G!Ids, G!Decide(k) PROVE Quien
  BY <1>28 DEF G!Decide, Quien
<1>29. ASSUME G!NuevoDia PROVE Quien
  BY <1>29 DEF G!NuevoDia, Quien
<1>30. CASE UNCHANGED G!vars
  BY <1>30 DEF G!vars, Quien
<1> QED
  BY <1>1, <1>2, <1>3, <1>4, <1>5, <1>6, <1>7, <1>8, <1>9, <1>10, <1>11, <1>12, <1>13, <1>14,
     <1>15, <1>16, <1>17, <1>18, <1>19, <1>20, <1>21, <1>22, <1>23, <1>24, <1>25, <1>26,
     <1>27, <1>28, <1>29, <1>30
  DEF G!Next, G!Cobra, G!Aplica, G!Barre


LEMMA ArriendoPaso ==
    ASSUME G!Supuestos
    PROVE  Formas /\ Caminos /\ Marcas /\ Arriendo /\ [G!Next]_(G!vars) => Arriendo'
<1> SUFFICES ASSUME Formas, Caminos, Marcas, Arriendo, [G!Next]_(G!vars) PROVE Arriendo'
  OBVIOUS
<1>0. AjenosQuedan
  BY AjenosPaso
<1>1. CASE UNCHANGED <<gPc, leido>>
  BY <1>0, <1>1 DEF AjenosQuedan, Arriendo, Arrendado
<1>2. ASSUME NEW a \in G!Actores, Quietos(a), gPc'[a] \notin G!Aplicando PROVE Arriendo'
  BY <1>0, <1>2, ArriendoDe DEF Arrendado
<1>3. ASSUME NEW a \in G!Actores, Quietos(a), G!Efecto(a) \/ G!LeerSub(a) \/ G!GuardarPeriodo(a)
      PROVE  Arriendo'
  <2>1. gPc[a] \in G!Aplicando /\ UNCHANGED pagos /\ leido[a] \in Lecturas /\ Arrendado(a)
    BY <1>3 DEF G!Efecto, G!LeerSub, G!GuardarPeriodo, G!Aplicando, G!PasosPago, Formas, Arriendo
  <2>2. leido'[a].pago = leido[a].pago
    <3>1. ASSUME G!Efecto(a) PROVE leido'[a].pago = leido[a].pago
      <4>1. \/ (\E p \in {"cerrar", "leerSub", "liberar"} : Ahora(a, p, leido[a]))
            \/ Ahora(a, "marcarEfecto", [leido[a] EXCEPT !.r = IF pagos[leido[a].pago].tipo = "docPackage" THEN "docCredits" ELSE "plan"])
        BY <3>1, EfectoDeja
      <4> QED
        BY <2>1, <4>1 DEF Ahora, Lecturas
    <3>2. ASSUME G!LeerSub(a) PROVE leido'[a].pago = leido[a].pago
      <4>1. \/ Ahora(a, "cerrar", leido[a])
            \/ Ahora(a, "guardarPeriodo", [leido[a] EXCEPT !.sub = sub])
        BY <3>2, LeerSubDeja
      <4> QED
        BY <2>1, <4>1 DEF Ahora, Lecturas
    <3>3. ASSUME G!GuardarPeriodo(a) PROVE leido'[a].pago = leido[a].pago
      <4>1. \/ Ahora(a, "liberar", leido[a])
            \/ Ahora(a, "marcar", [leido[a] EXCEPT !.r = "period", !.sub = G!SinSub])
        BY <3>3, GuardarPeriodoDeja
      <4> QED
        BY <2>1, <4>1 DEF Ahora, Lecturas
    <3> QED
      BY <1>3, <3>1, <3>2, <3>3
  <2>3. Arrendado(a)'
    BY <2>1, <2>2 DEF Arrendado
  <2> QED
    BY <1>0, <1>3, <2>3, ArriendoDe
<1>4. ASSUME NEW a \in G!Actores, Quietos(a), G!Marcar(a) PROVE Arriendo'
  <2> DEFINE k == leido[a].pago
             p == [pagos[k] EXCEPT !.efectos = @ \cup {leido[a].r}]
  <2>1. k \in G!Ids /\ pagos[k] \in LosPagos /\ gPc[a] \in G!Aplicando /\ Arrendado(a)
    BY <1>4 DEF Caminos, Camino, Formas, G!Ids, G!PasosPago, G!Aplicando, G!Marcar, Arriendo
  <2>2. leido[a].r \in Efectos
    BY <1>4, <2>1 DEF Marcas, Marca, G!Marcar, Efectos
  <2>3. Solo(k, p) /\ p.dueno = pagos[k].dueno /\ p.aplicado = pagos[k].aplicado /\ p.estado = pagos[k].estado
    BY <1>4, <2>1, <2>2, Escribe DEF LosPagos
  <2>4. leido'[a].pago = k
    BY <1>4, MarcarDeja DEF Ahora
  <2> HIDE DEF p
  <2>5. Arrendado(a)'
    BY <2>1, <2>3, <2>4 DEF Arrendado, Solo
  <2> QED
    BY <1>0, <1>4, <2>5, ArriendoDe
<1>5. ASSUME NEW a \in G!Actores, Quietos(a), G!Reservar(a) PROVE Arriendo'
  <2>1. CASE Regresa(a)
    <3>1. gPc'[a] \notin G!Aplicando
      BY <2>1 DEF Regresa, G!Fases, G!Aplicando, G!PasosPago
    <3> QED
      BY <1>2, <1>5, <3>1
  <2>2. CASE ~ Regresa(a)
    <3> DEFINE k == leido[a].pago
               p == [pagos[k] EXCEPT !.estado = "approved", !.dueno = a]
    <3>1. k \in G!Ids /\ pagos[k] \in LosPagos /\ leido[a] \in Lecturas /\ gPc[a] \notin {"libre", "fin"}
      BY <1>5 DEF Caminos, Camino, Formas, G!Ids, G!PasosPago, G!Reservar
    <3>2. ~ G!Vuelve(a)
      BY <2>2, <3>1, VuelveHace
    <3>3. ~ pagos[k].aplicado /\ pagos' = [pagos EXCEPT ![k].estado = "approved", ![k].dueno = a]
      BY <1>5, <3>2 DEF G!Reservar
    <3>4. p.dueno = a /\ ~ p.aplicado /\ p.estado = "approved"
      BY <3>1, <3>3 DEF LosPagos
    <3>5. leido'[a].pago = k
      <4>1. \/ Regresa(a)
            \/ Ahora(a, "efecto", [leido[a] EXCEPT !.hechos = pagos[leido[a].pago].efectos])
        BY <1>5, ReservarDeja
      <4> QED
        BY <2>2, <3>1, <4>1 DEF Ahora, Lecturas
    <3>6. pagos'[k] = p
      BY <3>1, <3>3 DEF Formas, G!Ids
    <3> HIDE DEF p
    <3>7. Arrendado(a)'
      BY <3>4, <3>5, <3>6 DEF Arrendado
    <3> QED
      BY <1>0, <1>5, <3>7, ArriendoDe
  <2> QED
    BY <2>1, <2>2
<1> QED
  BY <1>1, <1>2, <1>3, <1>4, <1>5, QuienPaso DEF Quien


-----------------------------------------------------------------------------
(* The marks of the effects *)

\* The packages the company counts are never fewer, and who is about to mark a period
\* finds it as it left it.
CreceLoCobrado ==
    /\ empresa.acreditados \subseteq empresa'.acreditados
    /\ \A b \in G!Actores : gPc[b] = "marcar" /\ gPc'[b] = gPc[b] =>
         avances'[leido[b].pago] = avances[leido[b].pago]

LEMMA EnRango ==
    ASSUME G!Supuestos, Formas, NEW k \in G!Ids
    PROVE  k \in 1..MaxPagos
<1>1. k \in 1..Len(pagos) /\ Len(pagos) \in Nat
  BY DEF G!Ids, Formas
<1> QED
  BY <1>1 DEF Formas, G!Supuestos

LEMMA CrecePaso ==
    ASSUME G!Supuestos, Formas, Caminos, Arriendo, [G!Next]_(G!vars)
    PROVE  CreceLoCobrado
<1>1. empresa.acreditados \subseteq empresa'.acreditados
  <2>1. ASSUME NEW a \in G!Actores, G!Efecto(a) PROVE empresa.acreditados \subseteq empresa'.acreditados
    <3>1. \/ UNCHANGED empresa
          \/ empresa' = [empresa EXCEPT !.creditos = @ + 1, !.acreditados = @ \cup {leido[a].pago}]
          \/ empresa' = [empresa EXCEPT !.estado = "active"]
      BY <2>1 DEF G!Efecto, G!Acreditar
    <3> QED
      BY <3>1 DEF Formas
  <2>2. ASSUME NEW a \in G!Actores, G!Suspender(a) PROVE empresa'.acreditados = empresa.acreditados
    BY <2>2 DEF G!Suspender, Formas
  <2>3. \/ UNCHANGED empresa
        \/ \E a \in G!Actores : G!Efecto(a) \/ G!Suspender(a)
    BY QuienesCambian
  <2> QED
    BY <2>1, <2>2, <2>3
<1>2. ASSUME NEW b \in G!Actores, gPc[b] = "marcar", gPc'[b] = gPc[b]
      PROVE  avances'[leido[b].pago] = avances[leido[b].pago]
  <2>1. ASSUME NEW a \in G!Actores, G!GuardarPeriodo(a)
        PROVE  avances'[leido[b].pago] = avances[leido[b].pago]
    <3>1. leido[a].pago # leido[b].pago
      <4>1. gPc[a] = "guardarPeriodo"
        BY <2>1 DEF G!GuardarPeriodo
      <4> QED
        BY <1>2, <4>1, UnSoloDueno DEF G!Aplicando, G!PasosPago
    <3>2. UNCHANGED avances \/ avances' = [avances EXCEPT ![leido[a].pago] = @ + 1]
      BY <2>1 DEF G!GuardarPeriodo
    <3>3. leido[b].pago \in 1..MaxPagos
      BY <1>2, EnRango DEF Caminos, Camino, G!PasosPago
    <3> QED
      BY <3>1, <3>2, <3>3 DEF Formas
  <2>2. UNCHANGED avances \/ \E a \in G!Actores : G!GuardarPeriodo(a)
    BY QuienesCambian
  <2> QED
    BY <2>1, <2>2
<1> QED
  BY <1>1, <1>2 DEF CreceLoCobrado

LEMMA MarcaQuieta ==
    ASSUME AjenosQuedan, CreceLoCobrado, NEW b \in G!Actores, Marca(b),
           gPc'[b] = gPc[b], leido'[b] = leido[b]
    PROVE  Marca(b)'
<1>1. CASE gPc[b] \in G!Aplicando
  <2>1. /\ pagos'[leido[b].pago].efectos = pagos[leido[b].pago].efectos
        /\ pagos'[leido[b].pago].tipo = pagos[leido[b].pago].tipo
    BY <1>1 DEF AjenosQuedan
  <2>2. /\ gPc[b] = "marcar" => avances'[leido[b].pago] = avances[leido[b].pago]
        /\ empresa.acreditados \subseteq empresa'.acreditados
    BY DEF CreceLoCobrado
  <2> QED
    BY <2>1, <2>2 DEF Marca
<1>2. CASE gPc[b] \notin G!Aplicando
  BY <1>2 DEF Marca, G!Aplicando, G!PasosPago
<1> QED
  BY <1>1, <1>2

LEMMA MarcasDe ==
    ASSUME Marcas, AjenosQuedan, CreceLoCobrado, NEW a \in G!Actores, Quietos(a), Marca(a)'
    PROVE  Marcas'
<1>1. ASSUME NEW b \in G!Actores \ {a} PROVE Marca(b)'
  BY MarcaQuieta DEF Quietos, Marcas
<1> QED
  BY <1>1 DEF Marcas

\* Who is about to open the period of a payment finds that nobody has.
LEMMA SinAvance ==
    ASSUME G!Supuestos, Formas, Caminos, Arriendo, Marcas, Periodos, NEW a \in G!Actores,
           gPc[a] = "guardarPeriodo"
    PROVE  avances[leido[a].pago] = 0
<1> DEFINE k == leido[a].pago
<1>1. k \in G!Ids /\ k \in 1..MaxPagos
  BY EnRango DEF Caminos, Camino, G!PasosPago
<1>2. "period" \notin pagos[k].efectos
  BY DEF Marcas, Marca
<1>3. ~ \E b \in G!Actores : gPc[b] = "marcar" /\ leido[b].pago = k
  BY UnSoloDueno DEF G!Aplicando, G!PasosPago
<1>4. avances[k] # 1 /\ avances[k] <= 1
  BY <1>1, <1>2, <1>3 DEF Periodos, Periodo
<1> QED
  BY <1>1, <1>4 DEF Formas

LEMMA MarcasPaso ==
    ASSUME G!Supuestos
    PROVE  Formas /\ Caminos /\ Arriendo /\ Marcas /\ PeriodosSi /\ [G!Next]_(G!vars) => Marcas'
<1> SUFFICES ASSUME Formas, Caminos, Arriendo, Marcas, PeriodosSi, [G!Next]_(G!vars) PROVE Marcas'
  OBVIOUS
<1>0. AjenosQuedan /\ CreceLoCobrado
  BY AjenosPaso, CrecePaso
<1>1. CASE UNCHANGED <<gPc, leido>>
  BY <1>0, <1>1, MarcaQuieta DEF Marcas
<1>2. ASSUME NEW a \in G!Actores, Quietos(a), gPc'[a] \notin G!Aplicando PROVE Marcas'
  <2>1. Marca(a)'
    BY <1>2 DEF Marca, G!Aplicando, G!PasosPago
  <2> QED
    BY <1>0, <1>2, <2>1, MarcasDe
<1>3. ASSUME NEW a \in G!Actores, G!Reservar(a) PROVE Marcas'
  <2>1. a \in G!Actores /\ leido[a] \in Lecturas /\ Marca(a)
    BY DEF G!Actores, Formas, Marcas
  <2>2. \/ Regresa(a)
        \/ Ahora(a, "efecto", [leido[a] EXCEPT !.hechos = pagos[leido[a].pago].efectos])
    BY <1>3, ReservarDeja
  <2>3. Quietos(a)
    BY <2>2 DEF Ahora, Regresa, Sincroniza
  <2>9. Marca(a)'
    <3>1. CASE Regresa(a)
      BY <3>1 DEF Regresa, Marca, G!Fases
    <3>2. CASE ~ Regresa(a)
      <4> DEFINE k == leido[a].pago
                 p == [pagos[k] EXCEPT !.estado = "approved", !.dueno = a]
      <4>1. k \in G!Ids /\ pagos[k] \in LosPagos
        BY <1>3 DEF Caminos, Camino, Formas, G!Ids, G!PasosPago, G!Reservar
      <4>2. UNCHANGED pagos \/ Solo(k, p)
        BY <1>3, Escribe
      <4>3. p.efectos = pagos[k].efectos
        BY <4>1 DEF LosPagos
      <4> HIDE DEF p
      <4>4. pagos'[k].efectos = pagos[k].efectos
        BY <4>2, <4>3 DEF Solo
      <4>5. gPc'[a] = "efecto" /\ leido'[a].pago = k /\ leido'[a].hechos = pagos[k].efectos
        BY <2>1, <2>2, <3>2 DEF Ahora, Lecturas
      <4> QED
        BY <4>4, <4>5 DEF Marca
    <3> QED
      BY <3>1, <3>2
  <2> QED
    BY <1>0, <2>1, <2>3, <2>9, MarcasDe
<1>4. ASSUME NEW a \in G!Actores, G!Efecto(a) PROVE Marcas'
  <2>1. a \in G!Actores /\ leido[a] \in Lecturas /\ Marca(a)
    BY DEF G!Actores, Formas, Marcas
  <2>2. \/ (\E p \in {"cerrar", "leerSub", "liberar"} : Ahora(a, p, leido[a]))
        \/ Ahora(a, "marcarEfecto", [leido[a] EXCEPT !.r = IF pagos[leido[a].pago].tipo = "docPackage" THEN "docCredits" ELSE "plan"])
    BY <1>4, EfectoDeja
  <2>3. Quietos(a)
    BY <2>2 DEF Ahora, Regresa, Sincroniza
  <2> DEFINE k == leido[a].pago
             efecto == IF pagos[k].tipo = "docPackage" THEN "docCredits" ELSE "plan"
  <2>4. gPc[a] = "efecto" /\ UNCHANGED pagos /\ leido[a].hechos = pagos[k].efectos
    BY <1>4, <2>1 DEF G!Efecto, Marca
  <2>5. \/ /\ gPc'[a] = (IF efecto = "docCredits" THEN "cerrar" ELSE "leerSub")
           /\ efecto \in leido[a].hechos /\ leido'[a] = leido[a]
        \/ /\ gPc'[a] = "marcarEfecto" /\ leido'[a] = [leido[a] EXCEPT !.r = efecto]
           /\ efecto = "docCredits" => empresa' = G!Acreditar(k)
        \/ gPc'[a] = "liberar"
    BY <1>4, <2>1 DEF G!Efecto, G!Va, Formas
  <2>9. Marca(a)'
    <3>1. CASE /\ gPc'[a] = (IF efecto = "docCredits" THEN "cerrar" ELSE "leerSub")
               /\ efecto \in leido[a].hechos /\ leido'[a] = leido[a]
      BY <2>4, <3>1 DEF Marca
    <3>2. CASE /\ gPc'[a] = "marcarEfecto" /\ leido'[a] = [leido[a] EXCEPT !.r = efecto]
               /\ efecto = "docCredits" => empresa' = G!Acreditar(k)
      <4>1. leido'[a].pago = k /\ leido'[a].r = efecto /\ leido'[a].hechos = pagos[k].efectos
        BY <2>1, <2>4, <3>2 DEF Lecturas
      <4>2. efecto = "docCredits" => k \in empresa'.acreditados
        <5>1. efecto = "docCredits" =>
                \/ empresa' = empresa /\ k \in empresa.acreditados
                \/ empresa' = [empresa EXCEPT !.creditos = @ + 1, !.acreditados = @ \cup {k}]
          BY <3>2 DEF G!Acreditar
        <5> HIDE DEF k, efecto
        <5> QED
          BY <5>1 DEF Formas
      <4> QED
        BY <2>4, <3>2, <4>1, <4>2 DEF Marca
    <3>3. CASE gPc'[a] = "liberar"
      BY <3>3 DEF Marca
    <3> QED
      BY <2>5, <3>1, <3>2, <3>3
  <2> QED
    BY <1>0, <2>1, <2>3, <2>9, MarcasDe
<1>5. ASSUME NEW a \in G!Actores, G!LeerSub(a) PROVE Marcas'
  <2>1. a \in G!Actores /\ leido[a] \in Lecturas /\ Marca(a)
    BY DEF G!Actores, Formas, Marcas
  <2>2. \/ Ahora(a, "cerrar", leido[a])
        \/ Ahora(a, "guardarPeriodo", [leido[a] EXCEPT !.sub = sub])
    BY <1>5, LeerSubDeja
  <2>3. Quietos(a)
    BY <2>2 DEF Ahora, Regresa, Sincroniza
  <2>4. gPc[a] = "leerSub" /\ UNCHANGED pagos
    BY <1>5 DEF G!LeerSub
  <2>5. leido'[a].pago = leido[a].pago
    BY <2>1, <2>2 DEF Ahora, Lecturas
  <2>6. IF "period" \in leido[a].hechos THEN gPc'[a] = "cerrar" ELSE gPc'[a] = "guardarPeriodo"
    BY <1>5, <2>1 DEF G!LeerSub, G!Va, Formas
  <2>9. Marca(a)'
    BY <2>1, <2>4, <2>5, <2>6 DEF Marca
  <2> QED
    BY <1>0, <2>1, <2>3, <2>9, MarcasDe
<1>6. ASSUME NEW a \in G!Actores, G!GuardarPeriodo(a) PROVE Marcas'
  <2>1. a \in G!Actores /\ leido[a] \in Lecturas /\ Marca(a)
    BY DEF G!Actores, Formas, Marcas
  <2>2. \/ Ahora(a, "liberar", leido[a])
        \/ Ahora(a, "marcar", [leido[a] EXCEPT !.r = "period", !.sub = G!SinSub])
    BY <1>6, GuardarPeriodoDeja
  <2>3. Quietos(a)
    BY <2>2 DEF Ahora, Regresa, Sincroniza
  <2> DEFINE k == leido[a].pago
  <2>4. gPc[a] = "guardarPeriodo" /\ UNCHANGED pagos /\ k \in G!Ids /\ k \in 1..MaxPagos
    BY <1>6, EnRango DEF G!GuardarPeriodo, Caminos, Camino, G!PasosPago
  <2>5. "marcar" \notin gCortan => avances[k] = 0
    BY <1>6, <2>1, <2>4, SinAvance DEF PeriodosSi
  <2>6. \/ gPc'[a] = "liberar"
        \/ /\ gPc'[a] = "marcar" /\ leido'[a].r = "period" /\ leido'[a].pago = k
           /\ avances' = [avances EXCEPT ![k] = @ + 1]
    BY <1>6, <2>1, <2>2 DEF G!GuardarPeriodo, G!Va, Ahora, Lecturas, Formas
  <2>7. gPc'[a] = "marcar" /\ "marcar" \notin gCortan => avances'[k] = 1
    <3>1. avances \in [1..MaxPagos -> Nat]
      BY DEF Formas
    <3> HIDE DEF k
    <3> QED
      BY <2>4, <2>5, <2>6, <3>1
  <2>9. Marca(a)'
    BY <2>1, <2>4, <2>6, <2>7 DEF Marca
  <2> QED
    BY <1>0, <2>1, <2>3, <2>9, MarcasDe
<1>7. ASSUME NEW a \in G!Actores, G!Marcar(a) PROVE Marcas'
  <2>1. a \in G!Actores /\ leido[a] \in Lecturas /\ Marca(a)
    BY DEF G!Actores, Formas, Marcas
  <2>2. (\E p \in {"leerSub", "cerrar"} : Ahora(a, p, leido[a]))
    BY <1>7, MarcarDeja
  <2>3. Quietos(a)
    BY <2>2 DEF Ahora, Regresa, Sincroniza
  <2> DEFINE k == leido[a].pago
             p == [pagos[k] EXCEPT !.efectos = @ \cup {leido[a].r}]
  <2>4. /\ k \in G!Ids /\ pagos[k] \in LosPagos /\ gPc[a] \in {"marcarEfecto", "marcar"}
        /\ leido[a].r \in Efectos
    BY <1>7, <2>1 DEF Caminos, Camino, Formas, G!Ids, G!PasosPago, G!Marcar, Marca, Efectos
  <2>5. Solo(k, p)
    BY <1>7, <2>4, Escribe
  <2>6. p.tipo = pagos[k].tipo /\ p.efectos = pagos[k].efectos \cup {leido[a].r}
    BY <2>4 DEF LosPagos
  <2>7. leido'[a] = leido[a] /\ gPc'[a] = IF leido[a].r = "plan" THEN "leerSub" ELSE "cerrar"
    BY <1>7, <2>1 DEF G!Marcar, G!Va, Formas
  <2> HIDE DEF p
  <2>8. pagos'[k].tipo = pagos[k].tipo /\ pagos'[k].efectos = pagos[k].efectos \cup {leido[a].r}
    BY <2>5, <2>6 DEF Solo
  <2>9. Marca(a)'
    BY <2>1, <2>4, <2>7, <2>8 DEF Marca
  <2> QED
    BY <1>0, <2>1, <2>3, <2>9, MarcasDe
<1> QED
  BY <1>1, <1>2, <1>3, <1>4, <1>5, <1>6, <1>7, QuienPaso DEF Quien


-----------------------------------------------------------------------------
(* The periods and the credits *)

\* No payment appears, and what was done of each stays.
EfectosQuedan ==
    /\ G!Ids' = G!Ids
    /\ \A k \in G!Ids : /\ pagos'[k].efectos = pagos[k].efectos /\ pagos'[k].aplicado = pagos[k].aplicado
                        /\ pagos'[k].tipo = pagos[k].tipo

LEMMA SoloEfectos ==
    ASSUME NEW k \in G!Ids, NEW p, Solo(k, p), p.efectos = pagos[k].efectos,
           p.aplicado = pagos[k].aplicado, p.tipo = pagos[k].tipo
    PROVE  EfectosQuedan
BY DEF Solo, EfectosQuedan

LEMMA MismosEfectos ==
    ASSUME UNCHANGED pagos
    PROVE  EfectosQuedan
BY DEF EfectosQuedan, G!Ids

LEMMA EfectosPaso ==
    ASSUME G!Supuestos
    PROVE  Formas /\ Caminos /\ [G!Next]_(G!vars) => EfectosQuedan \/ \E x \in G!Actores : G!CrearPago(x) \/ G!Marcar(x) \/ G!Cerrar(x)
<1> SUFFICES ASSUME Formas, Caminos, [G!Next]_(G!vars) PROVE EfectosQuedan \/ \E x \in G!Actores : G!CrearPago(x) \/ G!Marcar(x) \/ G!Cerrar(x)
  OBVIOUS
<1>1. ASSUME NEW u \in Altas, G!Alta(u) PROVE EfectosQuedan \/ \E x \in G!Actores : G!CrearPago(x) \/ G!Marcar(x) \/ G!Cerrar(x)
  BY <1>1, MismosEfectos DEF G!Alta
<1>2. ASSUME NEW u \in Compras, G!Comprar(u) PROVE EfectosQuedan \/ \E x \in G!Actores : G!CrearPago(x) \/ G!Marcar(x) \/ G!Cerrar(x)
  BY <1>2, MismosEfectos DEF G!Comprar
<1>3. ASSUME NEW w \in Avisos, G!Aviso(w) PROVE EfectosQuedan \/ \E x \in G!Actores : G!CrearPago(x) \/ G!Marcar(x) \/ G!Cerrar(x)
  <2>1. PICK k \in G!Ids : Solo(k, [pagos[k] EXCEPT !.tx = TRUE])
    BY <1>3, AvisoDeja
  <2>2. pagos[k] \in LosPagos
    BY DEF Formas, G!Ids
  <2> DEFINE p == [pagos[k] EXCEPT !.tx = TRUE]
  <2>3. Solo(k, p) /\ p.efectos = pagos[k].efectos /\ p.aplicado = pagos[k].aplicado /\ p.tipo = pagos[k].tipo
    BY <2>1, <2>2 DEF LosPagos
  <2> HIDE DEF p
  <2> QED
    BY <2>3, SoloEfectos
<1>4. ASSUME NEW c \in Cancelaciones, G!Cancelar(c) PROVE EfectosQuedan \/ \E x \in G!Actores : G!CrearPago(x) \/ G!Marcar(x) \/ G!Cerrar(x)
  BY <1>4, MismosEfectos DEF G!Cancelar
<1>5. ASSUME NEW b \in gBarridos, G!Barrer(b) PROVE EfectosQuedan \/ \E x \in G!Actores : G!CrearPago(x) \/ G!Marcar(x) \/ G!Cerrar(x)
  BY <1>5, MismosEfectos DEF G!Barrer
<1>6. ASSUME NEW b \in gBarridos, G!Reconciliar(b) PROVE EfectosQuedan \/ \E x \in G!Actores : G!CrearPago(x) \/ G!Marcar(x) \/ G!Cerrar(x)
  BY <1>6, MismosEfectos DEF G!Reconciliar
<1>7. ASSUME NEW b \in gBarridos, G!Retomar(b) PROVE EfectosQuedan \/ \E x \in G!Actores : G!CrearPago(x) \/ G!Marcar(x) \/ G!Cerrar(x)
  BY <1>7, MismosEfectos DEF G!Retomar
<1>8. ASSUME NEW b \in gBarridos, G!CobrarVencida(b) PROVE EfectosQuedan \/ \E x \in G!Actores : G!CrearPago(x) \/ G!Marcar(x) \/ G!Cerrar(x)
  BY <1>8, MismosEfectos DEF G!CobrarVencida
<1>9. ASSUME NEW b \in gBarridos, G!ReservarCobro(b) PROVE EfectosQuedan \/ \E x \in G!Actores : G!CrearPago(x) \/ G!Marcar(x) \/ G!Cerrar(x)
  BY <1>9, MismosEfectos DEF G!ReservarCobro
<1>10. ASSUME NEW b \in gBarridos, G!CobrarMora(b) PROVE EfectosQuedan \/ \E x \in G!Actores : G!CrearPago(x) \/ G!Marcar(x) \/ G!Cerrar(x)
  BY <1>10, MismosEfectos DEF G!CobrarMora
<1>11. ASSUME NEW b \in gBarridos, G!Retirar(b) PROVE EfectosQuedan \/ \E x \in G!Actores : G!CrearPago(x) \/ G!Marcar(x) \/ G!Cerrar(x)
  BY <1>11, MismosEfectos DEF G!Retirar
<1>12. ASSUME NEW a \in G!Actores, G!CrearPago(a) PROVE EfectosQuedan \/ \E x \in G!Actores : G!CrearPago(x) \/ G!Marcar(x) \/ G!Cerrar(x)
  BY <1>12
<1>13. ASSUME NEW a \in G!Actores, G!Transar(a) PROVE EfectosQuedan \/ \E x \in G!Actores : G!CrearPago(x) \/ G!Marcar(x) \/ G!Cerrar(x)
  <2> DEFINE k == leido[a].pago
  <2>1. k \in G!Ids /\ pagos[k] \in LosPagos
    BY <1>13 DEF Caminos, Camino, Formas, G!Ids, G!Transar
  <2>2. PICK r \in Bancos : Solo(k, [pagos[k] EXCEPT !.banco = r])
    BY <1>13, Escribe
  <2> DEFINE p == [pagos[k] EXCEPT !.banco = r]
  <2>3. Solo(k, p) /\ p.efectos = pagos[k].efectos /\ p.aplicado = pagos[k].aplicado /\ p.tipo = pagos[k].tipo
    BY <2>1, <2>2 DEF LosPagos
  <2> HIDE DEF p, k
  <2> QED
    BY <2>1, <2>3, SoloEfectos
<1>14. ASSUME NEW a \in G!Actores, G!Anotar(a) PROVE EfectosQuedan \/ \E x \in G!Actores : G!CrearPago(x) \/ G!Marcar(x) \/ G!Cerrar(x)
  <2> DEFINE k == leido[a].pago
             p == [pagos[k] EXCEPT !.tx = TRUE]
  <2>1. k \in G!Ids /\ pagos[k] \in LosPagos
    BY <1>14 DEF Caminos, Camino, Formas, G!Ids, G!PasosPago, G!Anotar
  <2>2. Solo(k, p)
    BY <1>14, Escribe
  <2>3. p.efectos = pagos[k].efectos /\ p.aplicado = pagos[k].aplicado /\ p.tipo = pagos[k].tipo
    BY <2>1 DEF LosPagos
  <2> HIDE DEF p, k
  <2> QED
    BY <2>1, <2>2, <2>3, SoloEfectos, MismosEfectos
<1>15. ASSUME NEW a \in G!Actores, G!Reservar(a) PROVE EfectosQuedan \/ \E x \in G!Actores : G!CrearPago(x) \/ G!Marcar(x) \/ G!Cerrar(x)
  <2> DEFINE k == leido[a].pago
             p == [pagos[k] EXCEPT !.estado = "approved", !.dueno = a]
  <2>1. k \in G!Ids /\ pagos[k] \in LosPagos
    BY <1>15 DEF Caminos, Camino, Formas, G!Ids, G!PasosPago, G!Reservar
  <2>2. UNCHANGED pagos \/ Solo(k, p)
    BY <1>15, Escribe
  <2>3. p.efectos = pagos[k].efectos /\ p.aplicado = pagos[k].aplicado /\ p.tipo = pagos[k].tipo
    BY <2>1 DEF LosPagos
  <2> HIDE DEF p, k
  <2> QED
    BY <2>1, <2>2, <2>3, SoloEfectos, MismosEfectos
<1>16. ASSUME NEW a \in G!Actores, G!Efecto(a) PROVE EfectosQuedan \/ \E x \in G!Actores : G!CrearPago(x) \/ G!Marcar(x) \/ G!Cerrar(x)
  BY <1>16, MismosEfectos DEF G!Efecto
<1>17. ASSUME NEW a \in G!Actores, G!LeerSub(a) PROVE EfectosQuedan \/ \E x \in G!Actores : G!CrearPago(x) \/ G!Marcar(x) \/ G!Cerrar(x)
  BY <1>17, MismosEfectos DEF G!LeerSub
<1>18. ASSUME NEW a \in G!Actores, G!GuardarPeriodo(a) PROVE EfectosQuedan \/ \E x \in G!Actores : G!CrearPago(x) \/ G!Marcar(x) \/ G!Cerrar(x)
  BY <1>18, MismosEfectos DEF G!GuardarPeriodo
<1>19. ASSUME NEW a \in G!Actores, G!Marcar(a) PROVE EfectosQuedan \/ \E x \in G!Actores : G!CrearPago(x) \/ G!Marcar(x) \/ G!Cerrar(x)
  BY <1>19
<1>20. ASSUME NEW a \in G!Actores, G!Cerrar(a) PROVE EfectosQuedan \/ \E x \in G!Actores : G!CrearPago(x) \/ G!Marcar(x) \/ G!Cerrar(x)
  BY <1>20
<1>21. ASSUME NEW a \in G!Actores, G!Liberar(a) PROVE EfectosQuedan \/ \E x \in G!Actores : G!CrearPago(x) \/ G!Marcar(x) \/ G!Cerrar(x)
  <2> DEFINE k == leido[a].pago
             p == [pagos[k] EXCEPT !.dueno = Nadie]
  <2>1. k \in G!Ids /\ pagos[k] \in LosPagos
    BY <1>21 DEF Caminos, Camino, Formas, G!Ids, G!PasosPago, G!Liberar
  <2>2. UNCHANGED pagos \/ Solo(k, p)
    BY <1>21, Escribe
  <2>3. p.efectos = pagos[k].efectos /\ p.aplicado = pagos[k].aplicado /\ p.tipo = pagos[k].tipo
    BY <2>1 DEF LosPagos
  <2> HIDE DEF p, k
  <2> QED
    BY <2>1, <2>2, <2>3, SoloEfectos, MismosEfectos
<1>22. ASSUME NEW a \in G!Actores, G!Declinar(a) PROVE EfectosQuedan \/ \E x \in G!Actores : G!CrearPago(x) \/ G!Marcar(x) \/ G!Cerrar(x)
  <2> DEFINE k == leido[a].pago
             p == [pagos[k] EXCEPT !.estado = "declined"]
  <2>1. k \in G!Ids /\ pagos[k] \in LosPagos
    BY <1>22 DEF Caminos, Camino, Formas, G!Ids, G!PasosPago, G!Declinar
  <2>2. UNCHANGED pagos \/ Solo(k, p)
    BY <1>22, Escribe
  <2>3. p.efectos = pagos[k].efectos /\ p.aplicado = pagos[k].aplicado /\ p.tipo = pagos[k].tipo
    BY <2>1 DEF LosPagos
  <2> HIDE DEF p, k
  <2> QED
    BY <2>1, <2>2, <2>3, SoloEfectos, MismosEfectos
<1>23. ASSUME NEW a \in G!Actores, G!LeerMora(a) PROVE EfectosQuedan \/ \E x \in G!Actores : G!CrearPago(x) \/ G!Marcar(x) \/ G!Cerrar(x)
  BY <1>23, MismosEfectos DEF G!LeerMora
<1>24. ASSUME NEW a \in G!Actores, G!Suspender(a) PROVE EfectosQuedan \/ \E x \in G!Actores : G!CrearPago(x) \/ G!Marcar(x) \/ G!Cerrar(x)
  BY <1>24, MismosEfectos DEF G!Suspender
<1>25. ASSUME NEW a \in G!Actores, G!GuardarSub(a) PROVE EfectosQuedan \/ \E x \in G!Actores : G!CrearPago(x) \/ G!Marcar(x) \/ G!Cerrar(x)
  BY <1>25, MismosEfectos DEF G!GuardarSub
<1>26. ASSUME NEW a \in G!Actores, G!Otra(a) PROVE EfectosQuedan \/ \E x \in G!Actores : G!CrearPago(x) \/ G!Marcar(x) \/ G!Cerrar(x)
  BY <1>26, MismosEfectos DEF G!Otra
<1>27. ASSUME NEW a \in G!Actores, G!Corte(a) PROVE EfectosQuedan \/ \E x \in G!Actores : G!CrearPago(x) \/ G!Marcar(x) \/ G!Cerrar(x)
  BY <1>27, MismosEfectos DEF G!Corte
<1>28. ASSUME NEW k \in G!Ids, G!Decide(k) PROVE EfectosQuedan \/ \E x \in G!Actores : G!CrearPago(x) \/ G!Marcar(x) \/ G!Cerrar(x)
  <2>1. PICK r \in {"approved", "declined"} : Solo(k, [pagos[k] EXCEPT !.banco = r])
    BY <1>28, EscribenOtros
  <2>2. pagos[k] \in LosPagos
    BY DEF Formas, G!Ids
  <2> DEFINE p == [pagos[k] EXCEPT !.banco = r]
  <2>3. Solo(k, p) /\ p.efectos = pagos[k].efectos /\ p.aplicado = pagos[k].aplicado /\ p.tipo = pagos[k].tipo
    BY <2>1, <2>2 DEF LosPagos
  <2> HIDE DEF p
  <2> QED
    BY <2>3, SoloEfectos
<1>29. ASSUME G!NuevoDia PROVE EfectosQuedan \/ \E x \in G!Actores : G!CrearPago(x) \/ G!Marcar(x) \/ G!Cerrar(x)
  BY <1>29, MismosEfectos DEF G!NuevoDia
<1>30. CASE UNCHANGED G!vars
  BY <1>30, MismosEfectos DEF G!vars
<1> QED
  BY <1>1, <1>2, <1>3, <1>4, <1>5, <1>6, <1>7, <1>8, <1>9, <1>10, <1>11, <1>12, <1>13, <1>14,
     <1>15, <1>16, <1>17, <1>18, <1>19, <1>20, <1>21, <1>22, <1>23, <1>24, <1>25, <1>26,
     <1>27, <1>28, <1>29, <1>30
  DEF G!Next, G!Cobra, G!Aplica, G!Barre


\* Who is about to mark a period is still about to.
TestigosQuedan ==
    \A b \in G!Actores : gPc[b] = "marcar" => gPc'[b] = "marcar" /\ leido'[b].pago = leido[b].pago

LEMMA TestigosPaso ==
    ASSUME G!Supuestos, "marcar" \notin gCortan
    PROVE  Formas /\ Caminos /\ [G!Next]_(G!vars) => TestigosQuedan \/ \E x \in G!Actores : G!Marcar(x)
<1> SUFFICES ASSUME Formas, Caminos, [G!Next]_(G!vars)
             PROVE  TestigosQuedan \/ \E x \in G!Actores : G!Marcar(x)
  OBVIOUS
<1>1. CASE UNCHANGED <<gPc, leido>>
  BY <1>1 DEF TestigosQuedan
<1>2. ASSUME NEW a \in G!Actores, Quietos(a), gPc[a] # "marcar" PROVE TestigosQuedan
  BY <1>2 DEF Quietos, TestigosQuedan
<1>3. ASSUME NEW a \in G!Actores,
             G!Reservar(a) \/ G!Efecto(a) \/ G!LeerSub(a) \/ G!GuardarPeriodo(a)
      PROVE  gPc[a] # "marcar"
  BY <1>3 DEF G!Reservar, G!Efecto, G!LeerSub, G!GuardarPeriodo
<1> QED
  BY <1>1, <1>2, <1>3, QuienPaso DEF Quien

\* What is left of a payment without its period.
LEMMA PeriodoQuieto ==
    ASSUME NEW k \in G!Ids, Periodo(k), TestigosQuedan, avances'[k] = avances[k],
           pagos'[k].efectos = pagos[k].efectos, pagos'[k].aplicado = pagos[k].aplicado,
           pagos'[k].tipo = pagos[k].tipo
    PROVE  Periodo(k)'
<1>1. (\E a \in G!Actores : gPc[a] = "marcar" /\ leido[a].pago = k) =>
        \E a \in G!Actores : gPc'[a] = "marcar" /\ leido'[a].pago = k
  BY DEF TestigosQuedan
<1> QED
  BY <1>1 DEF Periodo

LEMMA PeriodosPaso ==
    ASSUME G!Supuestos, "marcar" \notin gCortan
    PROVE  Formas /\ Caminos /\ Arriendo /\ Marcas /\ Periodos /\ [G!Next]_(G!vars) => Periodos'
<1> SUFFICES ASSUME Formas, Caminos, Arriendo, Marcas, Periodos, [G!Next]_(G!vars) PROVE Periodos'
  OBVIOUS
<1>1. ASSUME NEW a \in G!Actores, G!Marcar(a) PROVE Periodos'
  <2>0. PICK k \in G!Ids : k = leido[a].pago
    BY <1>1 DEF Caminos, Camino, G!PasosPago, G!Marcar
  <2> DEFINE p == [pagos[k] EXCEPT !.efectos = @ \cup {leido[a].r}]
  <2>1. /\ k \in G!Ids /\ pagos[k] \in LosPagos /\ gPc[a] \in {"marcarEfecto", "marcar"}
        /\ leido[a].r \in Efectos /\ Marca(a)
    BY <1>1 DEF Formas, G!Ids, G!Marcar, Marcas, Marca, Efectos
  <2>2. Solo(k, p)
    BY <1>1, <2>0, <2>1, Escribe
  <2>3. p.tipo = pagos[k].tipo /\ p.aplicado = pagos[k].aplicado /\ p.efectos = pagos[k].efectos \cup {leido[a].r}
    BY <2>1 DEF LosPagos
  <2>4. Quietos(a) /\ UNCHANGED avances
    BY <1>1, MarcarDeja DEF Ahora, G!Marcar
  <2> HIDE DEF p
  <2>5. ASSUME NEW j \in G!Ids \ {k} PROVE Periodo(j)'
    <3>1. pagos'[j] = pagos[j] /\ avances'[j] = avances[j] /\ Periodo(j)
      BY <2>2, <2>4 DEF Solo, Periodos
    <3>2. (\E b \in G!Actores : gPc[b] = "marcar" /\ leido[b].pago = j) =>
            \E b \in G!Actores : gPc'[b] = "marcar" /\ leido'[b].pago = j
      BY <2>0, <2>4 DEF Quietos
    <3> QED
      BY <3>1, <3>2 DEF Periodo
  <2>6. Periodo(k)'
    <3>1. /\ pagos'[k].tipo = pagos[k].tipo /\ pagos'[k].aplicado = pagos[k].aplicado
          /\ pagos'[k].efectos = pagos[k].efectos \cup {leido[a].r}
          /\ avances'[k] = avances[k] /\ Periodo(k)
      BY <2>1, <2>2, <2>3, <2>4 DEF Solo, Periodos
    <3>2. CASE gPc[a] = "marcar"
      BY <2>0, <2>1, <3>1, <3>2 DEF Periodo, Marca
    <3>3. CASE gPc[a] = "marcarEfecto"
      <4>1. leido[a].r # "period"
        BY <2>0, <2>1, <3>3 DEF Marca
      <4>2. (\E b \in G!Actores : gPc[b] = "marcar" /\ leido[b].pago = k) =>
              \E b \in G!Actores : gPc'[b] = "marcar" /\ leido'[b].pago = k
        BY <2>4, <3>3 DEF Quietos
      <4> QED
        BY <3>1, <4>1, <4>2 DEF Periodo
    <3> QED
      BY <2>1, <3>2, <3>3
  <2>7. G!Ids' = G!Ids
    BY <2>2 DEF Solo
  <2> QED
    BY <2>4, <2>5, <2>6, <2>7 DEF Periodos
<1>2. CASE TestigosQuedan
  <2>1. ASSUME NEW a \in G!Actores, G!CrearPago(a) PROVE Periodos'
    <3>1. UNCHANGED avances
      BY <2>1 DEF G!CrearPago
    <3>2. CASE UNCHANGED pagos
      <4>1. ASSUME NEW k \in G!Ids PROVE Periodo(k)'
        BY <1>2, <3>1, <3>2, PeriodoQuieto DEF Periodos
      <4> QED
        BY <3>1, <3>2, <4>1 DEF Periodos, G!Ids
    <3>3. CASE ~ UNCHANGED pagos
      <4>0. PICK n : n = Len(pagos) + 1
        OBVIOUS
      <4>1. /\ ~ pagos'[n].aplicado /\ pagos'[n].efectos = {}
            /\ n \in G!Ids' /\ G!Ids' = G!Ids \cup {n} /\ n \notin G!Ids /\ \A k \in G!Ids : pagos'[k] = pagos[k]
        BY <2>1, <3>3, <4>0, CrearPagoDeja
      <4>2. n \in 1..MaxPagos
        <5>1. Len(pagos) \in Nat /\ Len(pagos) < MaxPagos /\ MaxPagos \in Nat
          BY <2>1, <3>3 DEF Formas, G!CrearPago, G!Supuestos
        <5> QED
          BY <4>0, <5>1
      <4>3. avances'[n] = 0
        BY <3>1, <4>1, <4>2 DEF Periodos
      <4>4. Periodo(n)'
        BY <4>1, <4>3 DEF Periodo
      <4>5. ASSUME NEW k \in G!Ids PROVE Periodo(k)'
        BY <1>2, <3>1, <4>1, PeriodoQuieto DEF Periodos
      <4> QED
        BY <3>1, <4>1, <4>4, <4>5 DEF Periodos
    <3> QED
      BY <3>2, <3>3
  <2>2. ASSUME NEW a \in G!Actores, G!Cerrar(a) PROVE Periodos'
    <3>0. PICK k \in G!Ids : k = leido[a].pago
      BY <2>2 DEF Caminos, Camino, G!PasosPago, G!Cerrar
    <3> DEFINE p == [pagos[k] EXCEPT !.aplicado = TRUE, !.dueno = Nadie]
    <3>1. pagos[k] \in LosPagos /\ gPc[a] = "cerrar" /\ Marca(a) /\ UNCHANGED avances
      BY <2>2 DEF Formas, G!Ids, G!Cerrar, Marcas
    <3>2. Solo(k, p)
      BY <2>2, <3>0, Escribe
    <3>3. p.efectos = pagos[k].efectos /\ p.tipo = pagos[k].tipo
      BY <3>1 DEF LosPagos
    <3> HIDE DEF p
    <3>4. (\E b \in G!Actores : gPc[b] = "marcar" /\ leido[b].pago = k) =>
            \E b \in G!Actores : gPc'[b] = "marcar" /\ leido'[b].pago = k
      BY <1>2 DEF TestigosQuedan
    <3>5. Periodo(k)'
      <4>1. pagos'[k].efectos = pagos[k].efectos /\ pagos'[k].tipo = pagos[k].tipo /\ Periodo(k)
        BY <3>1, <3>2, <3>3 DEF Solo, Periodos
      <4>2. pagos[k].tipo # "docPackage" => "period" \in pagos[k].efectos
        BY <3>0, <3>1 DEF Marca
      <4> QED
        BY <3>1, <3>4, <4>1, <4>2 DEF Periodo
    <3>6. ASSUME NEW j \in G!Ids \ {k} PROVE Periodo(j)'
      BY <1>2, <3>1, <3>2, PeriodoQuieto DEF Solo, Periodos
    <3>7. G!Ids' = G!Ids
      BY <3>2 DEF Solo
    <3> QED
      BY <3>1, <3>5, <3>6, <3>7 DEF Periodos
  <2>3. ASSUME EfectosQuedan, UNCHANGED avances PROVE Periodos'
    <3>1. ASSUME NEW k \in G!Ids PROVE Periodo(k)'
      BY <1>2, <2>3, PeriodoQuieto DEF Periodos, EfectosQuedan
    <3> QED
      BY <2>3, <3>1 DEF Periodos, EfectosQuedan
  <2>4. ASSUME NEW a \in G!Actores, G!GuardarPeriodo(a) PROVE Periodos'
    <3>1. EfectosQuedan
      BY <2>4, MismosEfectos DEF G!GuardarPeriodo
    <3>2. CASE UNCHANGED avances
      BY <2>3, <3>1, <3>2
    <3>3. CASE ~ UNCHANGED avances
      <4>0. PICK k \in G!Ids : k = leido[a].pago
        BY <2>4 DEF Caminos, Camino, G!PasosPago, G!GuardarPeriodo
      <4>1. gPc[a] = "guardarPeriodo" /\ k \in 1..MaxPagos /\ avances[k] = 0
        BY <2>4, <4>0, EnRango, SinAvance DEF G!GuardarPeriodo, Caminos, Camino, G!PasosPago
      <4>2. gPc'[a] = "marcar" /\ leido'[a].pago = k
        <5>1. gPc'[a] = "marcar"
          BY <2>4, <3>3 DEF G!GuardarPeriodo, G!Va, Formas
        <5>2. leido'[a].pago = leido[a].pago
          <6>1. leido[a] \in Lecturas
            BY DEF Formas
          <6>2. \/ Ahora(a, "liberar", leido[a])
                \/ Ahora(a, "marcar", [leido[a] EXCEPT !.r = "period", !.sub = G!SinSub])
            BY <2>4, GuardarPeriodoDeja
          <6> QED
            BY <6>1, <6>2 DEF Ahora, Lecturas
        <5> QED
          BY <4>0, <5>1, <5>2
      <4>3. avances' = [avances EXCEPT ![k] = @ + 1]
        BY <2>4, <3>3, <4>0 DEF G!GuardarPeriodo
      <4>4. avances \in [1..MaxPagos -> Nat]
        BY DEF Formas
      <4>5. avances'[k] = 1 /\ \A j \in 1..MaxPagos : j # k => avances'[j] = avances[j]
        BY <4>1, <4>3, <4>4
      <4>6. Periodo(k)'
        BY <3>1, <4>1, <4>2, <4>5 DEF Periodo, Periodos, EfectosQuedan
      <4>7. ASSUME NEW j \in G!Ids \ {k} PROVE Periodo(j)'
        <5>1. j \in 1..MaxPagos
          BY EnRango
        <5> QED
          BY <1>2, <3>1, <4>5, <5>1, PeriodoQuieto DEF Periodos, EfectosQuedan
      <4> QED
        BY <3>1, <4>1, <4>5, <4>6, <4>7 DEF Periodos, EfectosQuedan
    <3> QED
      BY <3>2, <3>3
  <2>5. UNCHANGED avances \/ \E a \in G!Actores : G!GuardarPeriodo(a)
    BY QuienesCambian
  <2> QED
    BY <1>1, <2>1, <2>2, <2>3, <2>4, <2>5, EfectosPaso
<1> QED
  BY <1>1, <1>2, TestigosPaso

\* With no payment created, marked, closed or credited, the credits are right.
LEMMA CreditosIguales ==
    ASSUME Creditos, Caminos, PagosQuedan, G!Ids' = G!Ids,
           empresa'.creditos = empresa.creditos, empresa'.acreditados = empresa.acreditados,
           \A k \in G!Ids : /\ "docCredits" \in pagos'[k].efectos => k \in empresa.acreditados
                            /\ pagos'[k].aplicado /\ pagos[k].tipo = "docPackage" => k \in empresa.acreditados
    PROVE  Creditos'
BY DEF Creditos, PagosQuedan, Caminos

LEMMA CreditosPaso ==
    ASSUME G!Supuestos
    PROVE  Formas /\ Caminos /\ Arriendo /\ Marcas /\ Creditos /\ [G!Next]_(G!vars) => Creditos'
<1> SUFFICES ASSUME Formas, Caminos, Arriendo, Marcas, Creditos, [G!Next]_(G!vars) PROVE Creditos'
  OBVIOUS
<1>1. PagosQuedan
  BY PagosPaso
<1>2. ASSUME NEW a \in G!Actores, G!Marcar(a) PROVE Creditos'
  <2>0. PICK k \in G!Ids : k = leido[a].pago
    BY <1>2 DEF Caminos, Camino, G!PasosPago, G!Marcar
  <2> DEFINE p == [pagos[k] EXCEPT !.efectos = @ \cup {leido[a].r}]
  <2>1. pagos[k] \in LosPagos /\ leido[a].r \in Efectos
    BY <1>2 DEF Formas, G!Ids, G!Marcar, Marcas, Marca, Efectos
  <2>2. Solo(k, p)
    BY <1>2, <2>0, <2>1, Escribe
  <2>3. p.aplicado = pagos[k].aplicado /\ p.efectos = pagos[k].efectos \cup {leido[a].r}
    BY <2>1 DEF LosPagos
  <2> HIDE DEF p
  <2>4. leido[a].r = "docCredits" => k \in empresa.acreditados
    BY <1>2, <2>0 DEF G!Marcar, Marcas, Marca
  <2>5. UNCHANGED empresa
    BY <1>2 DEF G!Marcar
  <2>6. G!Ids' = G!Ids /\ \A j \in G!Ids \ {k} : pagos'[j] = pagos[j]
    BY <2>2 DEF Solo
  <2>7. /\ "docCredits" \in pagos'[k].efectos => k \in empresa.acreditados
        /\ pagos'[k].aplicado /\ pagos[k].tipo = "docPackage" => k \in empresa.acreditados
    BY <2>2, <2>3, <2>4 DEF Solo, Creditos
  <2>8. \A j \in G!Ids \ {k} : /\ "docCredits" \in pagos'[j].efectos => j \in empresa.acreditados
                               /\ pagos'[j].aplicado /\ pagos[j].tipo = "docPackage" => j \in empresa.acreditados
    BY <2>6 DEF Creditos
  <2>9. \A j \in G!Ids : /\ "docCredits" \in pagos'[j].efectos => j \in empresa.acreditados
                         /\ pagos'[j].aplicado /\ pagos[j].tipo = "docPackage" => j \in empresa.acreditados
    BY <2>7, <2>8
  <2>10. empresa'.creditos = empresa.creditos /\ empresa'.acreditados = empresa.acreditados
    BY <2>5
  <2> QED
    BY <1>1, <2>6, <2>9, <2>10 DEF Creditos, PagosQuedan, Caminos
<1>3. ASSUME NEW a \in G!Actores, G!Cerrar(a) PROVE Creditos'
  <2>0. PICK k \in G!Ids : k = leido[a].pago
    BY <1>3 DEF Caminos, Camino, G!PasosPago, G!Cerrar
  <2> DEFINE p == [pagos[k] EXCEPT !.aplicado = TRUE, !.dueno = Nadie]
  <2>1. pagos[k] \in LosPagos
    BY DEF Formas, G!Ids
  <2>2. Solo(k, p)
    BY <1>3, <2>0, Escribe
  <2>3. p.efectos = pagos[k].efectos
    BY <2>1 DEF LosPagos
  <2> HIDE DEF p
  <2>4. pagos[k].tipo = "docPackage" => k \in empresa.acreditados
    BY <1>3, <2>0 DEF G!Cerrar, Marcas, Marca, Creditos
  <2>5. UNCHANGED empresa
    BY <1>3 DEF G!Cerrar
  <2>6. G!Ids' = G!Ids /\ \A j \in G!Ids \ {k} : pagos'[j] = pagos[j]
    BY <2>2 DEF Solo
  <2>7. /\ "docCredits" \in pagos'[k].efectos => k \in empresa.acreditados
        /\ pagos'[k].aplicado /\ pagos[k].tipo = "docPackage" => k \in empresa.acreditados
    BY <2>2, <2>3, <2>4 DEF Solo, Creditos
  <2>8. \A j \in G!Ids \ {k} : /\ "docCredits" \in pagos'[j].efectos => j \in empresa.acreditados
                               /\ pagos'[j].aplicado /\ pagos[j].tipo = "docPackage" => j \in empresa.acreditados
    BY <2>6 DEF Creditos
  <2>9. \A j \in G!Ids : /\ "docCredits" \in pagos'[j].efectos => j \in empresa.acreditados
                         /\ pagos'[j].aplicado /\ pagos[j].tipo = "docPackage" => j \in empresa.acreditados
    BY <2>7, <2>8
  <2>10. empresa'.creditos = empresa.creditos /\ empresa'.acreditados = empresa.acreditados
    BY <2>5
  <2> QED
    BY <1>1, <2>6, <2>9, <2>10 DEF Creditos, PagosQuedan, Caminos
<1>4. ASSUME NEW a \in G!Actores, G!CrearPago(a) PROVE Creditos'
  <2>1. UNCHANGED empresa
    BY <1>4 DEF G!CrearPago
  <2>2. CASE UNCHANGED pagos
    BY <2>1, <2>2 DEF Creditos, G!Ids
  <2>3. CASE ~ UNCHANGED pagos
    <3>0. PICK n : n = Len(pagos) + 1
      OBVIOUS
    <3>1. /\ ~ pagos'[n].aplicado /\ pagos'[n].efectos = {} /\ G!Ids' = G!Ids \cup {n}
          /\ \A k \in G!Ids : pagos'[k] = pagos[k]
      BY <1>4, <2>3, <3>0, CrearPagoDeja
    <3>2. empresa.acreditados \subseteq G!Ids
      BY DEF Caminos
    <3> QED
      BY <2>1, <3>1, <3>2 DEF Creditos
  <2> QED
    BY <2>2, <2>3
<1>5. ASSUME NEW a \in G!Actores, G!Efecto(a) PROVE Creditos'
  <2>0. PICK k \in G!Ids : k = leido[a].pago
    BY <1>5 DEF Caminos, Camino, G!PasosPago, G!Efecto
  <2>1. UNCHANGED pagos /\ pagos[k].estado = "approved"
    BY <1>5, <2>0 DEF G!Efecto, Arriendo, Arrendado, G!Aplicando, G!PasosPago
  <2>2. \/ empresa'.creditos = empresa.creditos /\ empresa'.acreditados = empresa.acreditados
        \/ /\ pagos[k].tipo = "docPackage" /\ k \notin empresa.acreditados
           /\ empresa'.creditos = empresa.creditos + 1
           /\ empresa'.acreditados = empresa.acreditados \cup {k}
    <3>1. \/ UNCHANGED empresa
          \/ empresa' = [empresa EXCEPT !.estado = "active"]
          \/ /\ pagos[k].tipo = "docPackage" /\ k \notin empresa.acreditados
             /\ empresa' = [empresa EXCEPT !.creditos = @ + 1, !.acreditados = @ \cup {k}]
      BY <1>5, <2>0 DEF G!Efecto, G!Acreditar
    <3> QED
      BY <3>1 DEF Formas
  <2>3. CASE empresa'.creditos = empresa.creditos /\ empresa'.acreditados = empresa.acreditados
    BY <2>1, <2>3 DEF Creditos, G!Ids
  <2>4. CASE /\ pagos[k].tipo = "docPackage" /\ k \notin empresa.acreditados
             /\ empresa'.creditos = empresa.creditos + 1
             /\ empresa'.acreditados = empresa.acreditados \cup {k}
    <3>1. IsFiniteSet(empresa.acreditados)
      <4>1. Len(pagos) \in Nat /\ empresa.acreditados \in SUBSET (1..Len(pagos))
        BY DEF Caminos, G!Ids, Formas
      <4>2. IsFiniteSet(1..Len(pagos))
        BY <4>1, FS_Interval
      <4> QED
        BY <4>1, <4>2, FS_Subset
    <3>2. Cardinality(empresa.acreditados \cup {k}) = Cardinality(empresa.acreditados) + 1
      BY <2>4, <3>1, FS_AddElement
    <3> QED
      BY <2>1, <2>4, <3>2 DEF Creditos, G!Ids
  <2> QED
    BY <2>2, <2>3, <2>4
<1>6. ASSUME NEW a \in G!Actores, G!Suspender(a) PROVE Creditos'
  <2>1. UNCHANGED pagos /\ empresa'.creditos = empresa.creditos /\ empresa'.acreditados = empresa.acreditados
    BY <1>6 DEF G!Suspender, Formas
  <2> QED
    BY <2>1 DEF Creditos, G!Ids
<1>7. CASE EfectosQuedan /\ UNCHANGED empresa
  <2>1. \A k \in G!Ids : /\ "docCredits" \in pagos'[k].efectos => k \in empresa.acreditados
                         /\ pagos'[k].aplicado /\ pagos[k].tipo = "docPackage" => k \in empresa.acreditados
    BY <1>7 DEF EfectosQuedan, Creditos
  <2> QED
    BY <1>1, <1>7, <2>1, CreditosIguales DEF EfectosQuedan
<1>8. \/ UNCHANGED empresa
      \/ \E a \in G!Actores : G!Efecto(a) \/ G!Suspender(a)
  BY QuienesCambian
<1> QED
  BY <1>2, <1>3, <1>4, <1>5, <1>6, <1>7, <1>8, EfectosPaso

-----------------------------------------------------------------------------
(* The theorems *)

LEMMA IniciaG == ASSUME G!Supuestos, G!Init PROVE IndG
<1>1. pagos = <<>> /\ G!Ids = {} /\ Len(pagos) = 0
  BY DEF G!Init, G!Ids
<1>2. Formas
  <2>1. avances \in [1..MaxPagos -> Nat] /\ dia \in 1..MaxDia /\ gFallas \in 0..gMaxFallas /\ gCortes \in 0..gMaxCortes
    BY DEF G!Init, G!Supuestos
  <2>2. gPc \in [G!Actores -> PasosG] /\ leido \in [G!Actores -> Lecturas] /\ sub \in Suscripciones
    BY SinLeerTipo DEF G!Init, PasosG
  <2>3. empresa \in [estado : {"trial", "active", "suspended"}, creditos : Nat,
                     acreditados : SUBSET Nat, motivo : {"nada", "plazo", "mora", "vieja"}]
    BY DEF G!Init
  <2>4. pagos \in Seq(LosPagos) /\ Len(pagos) <= MaxPagos
    BY <1>1 DEF G!Supuestos
  <2> QED
    BY <2>1, <2>2, <2>3, <2>4 DEF Formas
<1>3. \A a \in G!Actores : /\ gPc[a] = "libre" /\ leido[a].lista = {}
                           /\ leido[a].fase = "nada"
  BY DEF G!Init, G!SinLeer
<1>4. Caminos
  <2>1. empresa.acreditados = {}
    BY DEF G!Init
  <2> QED
    BY <1>3, <2>1 DEF Caminos, Camino, G!PasosPago, G!Fases
<1>5. Decidido /\ Arriendo /\ Marcas
  BY <1>1, <1>3 DEF Decidido, Respuesta, Arriendo, Arrendado, Marcas, Marca, G!Aplicando, G!PasosPago
<1>6. Periodos
  BY <1>1 DEF G!Init, Periodos
<1>7. Creditos
  <2>1. empresa.acreditados = {} /\ empresa.creditos = 0
    BY DEF G!Init
  <2> QED
    BY <1>1, <2>1, FS_EmptySet DEF Creditos
<1> QED
  BY <1>2, <1>4, <1>5, <1>6, <1>7 DEF IndG, PeriodosSi

LEMMA SigueG ==
    ASSUME G!Supuestos
    PROVE  IndG /\ [G!Next]_(G!vars) => IndG'
BY FormasPaso, CaminosPaso, DecididoPaso, ArriendoPaso, MarcasPaso, PeriodosPaso, CreditosPaso
DEF IndG, PeriodosSi

LEMMA IndGVale ==
    ASSUME G!Supuestos
    PROVE  G!Spec => []IndG
BY IniciaG, SigueG, PTL DEF G!Spec

\* What a subscription, its company, its payments and those who work on them may be.
THEOREM SuscripcionTipos ==
    ASSUME G!Supuestos
    PROVE  G!Spec => []G!TypeOK
<1>1. IndG => G!TypeOK
  <2> SUFFICES ASSUME IndG PROVE G!TypeOK
    OBVIOUS
  <2>1. \A k \in G!Ids : pagos[k] \in LosPagos
    BY DEF IndG, Formas, G!Ids
  <2>2. \A k \in G!Ids :
         /\ pagos[k].tipo \in {"subscription", "renewal", "docPackage"}
         /\ pagos[k].estado \in {"pending", "approved", "declined"}
         /\ pagos[k].banco \in {"no", "pending", "approved", "declined"}
         /\ pagos[k].dueno \in G!Actores \cup {Nadie}
         /\ pagos[k].efectos \subseteq {"plan", "period", "docCredits"}
    BY <2>1 DEF LosPagos, Bancos, Efectos
  <2>3. gPc \in [G!Actores -> {"libre", "fin"} \cup G!Fases \cup G!PasosCobro \cup G!PasosPago \cup G!PasosSub]
    BY DEF IndG, Formas, PasosG
  <2>4. /\ sub.estado \in {"no", "pending", "active", "past_due", "canceled"}
        /\ sub.hasta \in Nat /\ sub.proximo \in Nat /\ sub.fallidos \in Nat
    BY DEF IndG, Formas, Suscripciones
  <2>5. /\ empresa.estado \in {"trial", "active", "suspended"}
        /\ empresa.motivo \in {"nada", "plazo", "mora", "vieja"}
        /\ empresa.creditos \in Nat /\ empresa.acreditados \subseteq G!Ids
    BY DEF IndG, Formas, Caminos
  <2> QED
    BY <2>2, <2>3, <2>4, <2>5 DEF G!TypeOK, IndG, Formas
<1> QED
  BY <1>1, IndGVale, PTL

\* Whoever delivers, polls, sweeps or resumes an approval, and whatever fails or is lost
\* but between a period and its mark: each payment is applied once.
THEOREM CobroSeAplicaUnaVez ==
    ASSUME G!Supuestos, "marcar" \notin gCortan
    PROVE  G!Spec => []G!AplicadoUnaVez
<1>1. IndG => G!AplicadoUnaVez
  <2> SUFFICES ASSUME IndG PROVE G!AplicadoUnaVez
    OBVIOUS
  <2>1. \A k \in G!Ids :
          /\ avances[k] <= 1
          /\ pagos[k].estado = "approved" => pagos[k].banco = "approved"
          /\ pagos[k].aplicado /\ pagos[k].tipo # "docPackage" => avances[k] = 1
    BY DEF IndG, PeriodosSi, Periodos, Periodo, Decidido
  <2> DEFINE docs == {k \in G!Ids : pagos[k].tipo = "docPackage" /\ pagos[k].estado = "approved"}
  <2>2. ASSUME \A k \in docs : pagos[k].aplicado PROVE empresa.creditos = Cardinality(docs)
    <3>1. docs \subseteq empresa.acreditados
      BY <2>2 DEF IndG, Creditos
    <3>2. empresa.acreditados \subseteq docs
      BY DEF IndG, Creditos, Caminos
    <3>3. docs = empresa.acreditados
      BY <3>1, <3>2
    <3> QED
      BY <3>3 DEF IndG, Creditos
  <2> QED
    <3>1. G!Cardinality(docs) = Cardinality(docs)
      BY DEF G!Cardinality, Cardinality
    <3> QED
      BY <2>1, <2>2, <3>1 DEF G!AplicadoUnaVez
<1> QED
  BY <1>1, IndGVale, PTL

=============================================================================
