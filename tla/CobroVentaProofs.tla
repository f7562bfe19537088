-------------------------- MODULE CobroVentaProofs --------------------------
(***************************************************************************)
(* For any number of charges, keys and voids.                              *)
(*                                                                         *)
(* Of the key: if no request outlives the age of its lock, the lock        *)
(* excludes; however slow they are, a key has one sale; and without        *)
(* balances in favour every answer of a key is the same sale.              *)
(*                                                                         *)
(* Of what a charge takes before its sale exists: its units always have a  *)
(* request, a sale or a void behind them, and the series of numbers has no *)
(* gap, each under hypotheses about failures without which the code does   *)
(* not have the property (README, sections 7 and 9); under those           *)
(* of the units, the steps implement the atomic promise of CobroPromesa.   *)
(* And, with no hypothesis, no charge is left without its sale, nor an     *)
(* entry without its charge.                                               *)
(***************************************************************************)
EXTENDS CobroVenta, Sumas, TLAPS

USE CobroAssumption

LEMMA CandadosBien ==
    /\ Libre \in Candado
    /\ \A p \in Peticiones : [dueno |-> p, viejo |-> FALSE] \in Candado
    /\ \A c \in Candado : [c EXCEPT !.viejo = TRUE] \in Candado
BY DEF Libre, Candado

LEMMA TipoInicial == Init => TypeOK
<1>1. (CHOOSE p \in Peticiones : TRUE) \in Peticiones
  OBVIOUS
<1> QED
  BY <1>1, CandadosBien DEF Init, TypeOK

LEMMA TiposPaso == TypeOK /\ [Next]_vars => TypeOK'
<1> SUFFICES ASSUME TypeOK, [Next]_vars PROVE TypeOK'
  OBVIOUS
<1> USE DEF Actores, PasosLlave, PasosCrear, PasosVoid
<1>1. ASSUME NEW p \in Peticiones, Pedir(p) PROVE TypeOK'
  BY <1>1 DEF TypeOK, Pedir, Va
<1>2. ASSUME NEW p \in Peticiones, Previa(p) PROVE TypeOK'
  BY <1>2 DEF TypeOK, Previa, Va, PorLlave
<1>3. ASSUME NEW p \in Peticiones, TomarCandado(p) PROVE TypeOK'
  <2>1. candado' \in [Llaves -> Candado]
    BY <1>3, CandadosBien DEF TypeOK, TomarCandado
  <2>2. pc' \in [Actores -> {"libre", "fin"} \cup PasosLlave \cup PasosCrear \cup PasosVoid]
    BY <1>3 DEF TypeOK, TomarCandado, Va
  <2> QED
    BY <1>3, <2>1, <2>2 DEF TypeOK, TomarCandado
<1>4. ASSUME NEW p \in Peticiones, Robar(p) PROVE TypeOK'
  <2>1. candado' \in [Llaves -> Candado]
    BY <1>4, CandadosBien DEF TypeOK, Robar
  <2>2. pc' \in [Actores -> {"libre", "fin"} \cup PasosLlave \cup PasosCrear \cup PasosVoid]
    BY <1>4 DEF TypeOK, Robar, Va
  <2> QED
    BY <1>4, <2>1, <2>2 DEF TypeOK, Robar
<1>5. ASSUME NEW p \in Peticiones, Ganadora(p) PROVE TypeOK'
  BY <1>5 DEF TypeOK, Ganadora, Va, PorLlave
<1>6. ASSUME NEW p \in Peticiones, Revisar(p) PROVE TypeOK'
  BY <1>6 DEF TypeOK, Revisar, Va, PorLlave, Responde
<1>7. ASSUME NEW p \in Peticiones, Validar(p) PROVE TypeOK'
  BY <1>7 DEF TypeOK, Validar, Va, Responde, Falla, Bien
<1>8. ASSUME NEW p \in Peticiones, Vender(p) PROVE TypeOK'
  BY <1>8 DEF TypeOK, Vender, Va, Responde, Falla, Bien, Salen
<1>9. ASSUME NEW p \in Peticiones, Numerar(p) PROVE TypeOK'
  BY <1>9 DEF TypeOK, Numerar, Va, Falla, Bien
<1>10. ASSUME NEW p \in Peticiones, Persistir(p) PROVE TypeOK'
  BY <1>10 DEF TypeOK, Persistir, Va, Falla, Bien, TrasPersistir
<1>11. ASSUME NEW p \in Peticiones, Consumir(p) PROVE TypeOK'
  BY <1>11 DEF TypeOK, Consumir, Va, Falla, Bien
<1>12. ASSUME NEW p \in Peticiones, Deshacer(p) PROVE TypeOK'
  <2>1. respuesta' \in [Peticiones -> {"ninguna", "error", "en_proceso"} \cup Peticiones]
    BY <1>12 DEF TypeOK, Deshacer, Responde, PorLlave
  <2>2. pc' \in [Actores -> {"libre", "fin"} \cup PasosLlave \cup PasosCrear \cup PasosVoid]
    BY <1>12 DEF TypeOK, Deshacer, Va, Responde
  <2> QED
    BY <1>12, <2>1, <2>2 DEF TypeOK, Deshacer, Falla, Bien
<1>13. ASSUME NEW p \in Peticiones, CrearCxc(p) PROVE TypeOK'
  <2>1. respuesta' \in [Peticiones -> {"ninguna", "error", "en_proceso"} \cup Peticiones]
    BY <1>13 DEF TypeOK, CrearCxc, Responde, PorLlave
  <2>2. pc' \in [Actores -> {"libre", "fin"} \cup PasosLlave \cup PasosCrear \cup PasosVoid]
    BY <1>13 DEF TypeOK, CrearCxc, Va, Responde
  <2> QED
    BY <1>13, <2>1, <2>2 DEF TypeOK, CrearCxc, Falla, Bien
<1>14. ASSUME NEW p \in Peticiones, Asentar(p) PROVE TypeOK'
  BY <1>14 DEF TypeOK, Asentar, Va, Responde, Falla, Bien
<1>15. ASSUME NEW p \in Peticiones, Compensar(p) PROVE TypeOK'
  BY <1>15 DEF TypeOK, Compensar, Va, Responde, Falla, Bien, Vuelven
<1>16. ASSUME NEW p \in Peticiones, CompensarDup(p) PROVE TypeOK'
  BY <1>16 DEF TypeOK, CompensarDup, Va, Falla, Bien, Vuelven
<1>17. ASSUME NEW p \in Peticiones, BuscarGanadora(p) PROVE TypeOK'
  <2>1. respuesta' \in [Peticiones -> {"ninguna", "error", "en_proceso"} \cup Peticiones]
    BY <1>17 DEF TypeOK, BuscarGanadora, Responde, PorLlave
  <2>2. pc' \in [Actores -> {"libre", "fin"} \cup PasosLlave \cup PasosCrear \cup PasosVoid]
    BY <1>17 DEF TypeOK, BuscarGanadora, Va, Responde
  <2> QED
    BY <1>17, <2>1, <2>2 DEF TypeOK, BuscarGanadora, Falla, Bien
<1>18. ASSUME NEW p \in Peticiones, SoltarLlave(p) PROVE TypeOK'
  <2>1. candado' \in [Llaves -> Candado]
    BY <1>18, CandadosBien DEF TypeOK, SoltarLlave
  <2>2. pc' \in [Actores -> {"libre", "fin"} \cup PasosLlave \cup PasosCrear \cup PasosVoid]
    BY <1>18 DEF TypeOK, SoltarLlave, Va
  <2> QED
    BY <1>18, <2>1, <2>2 DEF TypeOK, SoltarLlave, Falla, Bien
<1>19. ASSUME NEW v \in Anuladores, ElegirVenta(v) PROVE TypeOK'
  BY <1>19 DEF TypeOK, ElegirVenta, Va
<1>20. ASSUME NEW v \in Anuladores, TomarVenta(v) PROVE TypeOK'
  BY <1>20 DEF TypeOK, TomarVenta, Va
<1>21. ASSUME NEW v \in Anuladores, CancelarCredito(v) PROVE TypeOK'
  BY <1>21 DEF TypeOK, CancelarCredito, Va, Falla, Bien
<1>22. ASSUME NEW v \in Anuladores, ReponerVenta(v) PROVE TypeOK'
  BY <1>22, SMTT(30) DEF TypeOK, ReponerVenta, Va, Vuelven, Falla, Bien
<1>23. ASSUME NEW v \in Anuladores, ReversarLibro(v) PROVE TypeOK'
  BY <1>23 DEF TypeOK, ReversarLibro, Va
<1>24. ASSUME NEW v \in Anuladores, RevertirSaldo(v) PROVE TypeOK'
  BY <1>24 DEF TypeOK, RevertirSaldo, Va
<1>25. ASSUME NEW k \in Llaves, Envejece(k) PROVE TypeOK'
  <2>1. [candado[k] EXCEPT !.viejo = TRUE] \in Candado
    BY CandadosBien DEF TypeOK
  <2> QED
    BY <1>25, <2>1 DEF TypeOK, Envejece
<1>26. ASSUME NEW p \in Actores, Corte(p) PROVE TypeOK'
  BY <1>26 DEF TypeOK, Corte, Va
<1>27. ASSUME UNCHANGED vars PROVE TypeOK'
  BY <1>27 DEF TypeOK, vars
<1>28. ASSUME NEW v \in Anuladores, RestaurarCredito(v) PROVE TypeOK'
  BY <1>28 DEF TypeOK, RestaurarCredito, Va
<1>29. ASSUME NEW v \in Anuladores, DeshacerFlip(v) PROVE TypeOK'
  BY <1>29 DEF TypeOK, DeshacerFlip, Va
<1> QED
  BY <1>1, <1>2, <1>3, <1>4, <1>5, <1>6, <1>7, <1>8, <1>9, <1>10, <1>11, <1>12, <1>13,
     <1>14, <1>15, <1>16, <1>17, <1>18, <1>19, <1>20, <1>21, <1>22, <1>23, <1>24, <1>25,
     <1>26, <1>27, <1>28, <1>29
   DEF Next, Sigue, Anula

\* The checkout keeps its types, for any requests, keys and voids.
THEOREM TiposSiempre == Spec => []TypeOK
<1> QED
  BY TipoInicial, TiposPaso, PTL DEF Spec

-----------------------------------------------------------------------------
(* The lock.  Who works with a key owns its lock, and only the lock of a     *)
(* request that is over gets old.                                            *)
ConDueno ==
    /\ \A p \in Peticiones :
         pc[p] \in PasosLlave \cup {"revisar", "soltar"} => ConLlave(p)
    /\ \A p \in Peticiones :
         pc[p] \in PasosCrear /\ ConLlave(p) => candado[LlaveDe[p]].dueno = p
    /\ \A k \in Llaves :
         candado[k].viejo => candado[k].dueno \in Peticiones /\ pc[candado[k].dueno] = "fin"

LEMMA LlaveBien == \A p \in Peticiones : ConLlave(p) => LlaveDe[p] \in Llaves
BY DEF ConLlave

\* A step that leaves the lock alone.
LEMMA SinTocarCandado ==
    ASSUME TypeOK, ConDueno, candado' = candado, NEW p \in Peticiones, NEW paso, Va(p, paso),
           pc[p] # "fin",
           paso \in PasosLlave \cup {"revisar", "soltar"} => ConLlave(p),
           paso \in PasosCrear /\ ConLlave(p) => pc[p] \in PasosCrear
    PROVE  ConDueno'
<1>1. pc' = [pc EXCEPT ![p] = paso] /\ p \in Actores
  BY DEF Va, Actores
<1>2. \A q \in Actores : pc'[q] = IF q = p THEN paso ELSE pc[q]
  BY <1>1 DEF TypeOK
<1>3. Peticiones \subseteq Actores
  BY DEF Actores
<1> QED
  BY <1>2, <1>3 DEF ConDueno, ConLlave

\* A step of a void.
LEMMA SinPeticion ==
    ASSUME TypeOK, ConDueno, candado' = candado, NEW v \in Anuladores, NEW paso, Va(v, paso)
    PROVE  ConDueno'
<1>1. \A q \in Peticiones : pc'[q] = pc[q]
  BY DEF Va, TypeOK, Actores
<1> QED
  BY <1>1 DEF ConDueno, ConLlave

\* The lock is taken with nobody of the key past it.
LEMMA TomadaLaLlave ==
    ASSUME TypeOK, ConDueno, NEW p \in Peticiones, ConLlave(p), LlaveDe[p] \in Llaves,
           candado' = [candado EXCEPT ![LlaveDe[p]] = [dueno |-> p, viejo |-> FALSE]],
           Va(p, "revisar"), pc[p] # "fin",
           \A q \in Peticiones : MismaLlave(p, q) => pc[q] \notin PasosCrear
    PROVE  ConDueno'
<1>1. \A q \in Peticiones : pc'[q] = IF q = p THEN "revisar" ELSE pc[q]
  BY DEF Va, TypeOK, Actores
<1>2. /\ candado'[LlaveDe[p]] = [dueno |-> p, viejo |-> FALSE]
      /\ \A c \in Llaves : c # LlaveDe[p] => candado'[c] = candado[c]
  BY DEF TypeOK
<1> QED
  BY <1>1, <1>2, LlaveBien DEF ConDueno, ConLlave, MismaLlave

LEMMA DuenoPaso ==
    ASSUME ~Lentas, TypeOK, ConDueno, [Next]_vars
    PROVE  ConDueno'
<1>1. ASSUME NEW p \in Peticiones, Pedir(p) PROVE ConDueno'
  BY <1>1, SinTocarCandado DEF Pedir, PasosLlave, PasosCrear
<1>2. ASSUME NEW p \in Peticiones, Previa(p) PROVE ConDueno'
  BY <1>2, SinTocarCandado DEF Previa, PasosLlave, PasosCrear, ConDueno
<1>3. ASSUME NEW p \in Peticiones, TomarCandado(p) PROVE ConDueno'
  <2>1. ConLlave(p) /\ LlaveDe[p] \in Llaves
    BY <1>3, LlaveBien DEF TomarCandado, ConDueno, PasosLlave
  <2>2. CASE candado' = candado /\ pc[p] # "fin" /\ \E paso \in PasosLlave : Va(p, paso)
    BY <2>1, <2>2, SinTocarCandado DEF PasosLlave, PasosCrear
  <2>3. CASE /\ candado' = [candado EXCEPT ![LlaveDe[p]] = [dueno |-> p, viejo |-> FALSE]]
             /\ Va(p, "revisar") /\ pc[p] # "fin"
             /\ \A q \in Peticiones : MismaLlave(p, q) => pc[q] \notin PasosCrear
    BY <2>1, <2>3, TomadaLaLlave
  <2> QED
    BY <1>3, <2>1, <2>2, <2>3 DEF TomarCandado, ConDueno, PasosLlave, PasosCrear,
       MismaLlave, ConLlave
<1>4. ASSUME NEW p \in Peticiones, Robar(p) PROVE ConDueno'
  <2>1. ConLlave(p) /\ LlaveDe[p] \in Llaves
    BY <1>4, LlaveBien DEF Robar, ConDueno, PasosLlave
  <2>2. CASE candado' = candado /\ pc[p] # "fin" /\ \E paso \in PasosLlave : Va(p, paso)
    BY <2>1, <2>2, SinTocarCandado DEF PasosLlave, PasosCrear
  <2>3. CASE /\ candado' = [candado EXCEPT ![LlaveDe[p]] = [dueno |-> p, viejo |-> FALSE]]
             /\ Va(p, "revisar") /\ pc[p] # "fin"
             /\ \A q \in Peticiones : MismaLlave(p, q) => pc[q] \notin PasosCrear
    BY <2>1, <2>3, TomadaLaLlave
  <2> QED
    BY <1>4, <2>1, <2>2, <2>3 DEF Robar, ConDueno, PasosLlave, PasosCrear, MismaLlave, ConLlave
<1>5. ASSUME NEW p \in Peticiones, Ganadora(p) PROVE ConDueno'
  BY <1>5, SinTocarCandado DEF Ganadora, PasosLlave, PasosCrear, ConDueno
<1>6. ASSUME NEW p \in Peticiones, Revisar(p) PROVE ConDueno'
  BY <1>6, SinTocarCandado DEF Revisar, PasosLlave, PasosCrear, Responde, ConDueno
<1>7. ASSUME NEW p \in Peticiones, Validar(p) PROVE ConDueno'
  BY <1>7, SinTocarCandado DEF Validar, PasosLlave, PasosCrear, Responde
<1>8. ASSUME NEW p \in Peticiones, Vender(p) PROVE ConDueno'
  BY <1>8, SinTocarCandado DEF Vender, PasosLlave, PasosCrear, Responde
<1>9. ASSUME NEW p \in Peticiones, Numerar(p) PROVE ConDueno'
  BY <1>9, SinTocarCandado DEF Numerar, PasosLlave, PasosCrear
<1>10. ASSUME NEW p \in Peticiones, Persistir(p) PROVE ConDueno'
  BY <1>10, SinTocarCandado DEF Persistir, PasosLlave, PasosCrear, TrasPersistir
<1>11. ASSUME NEW p \in Peticiones, Consumir(p) PROVE ConDueno'
  BY <1>11, SinTocarCandado DEF Consumir, PasosLlave, PasosCrear
<1>12. ASSUME NEW p \in Peticiones, Deshacer(p) PROVE ConDueno'
  BY <1>12, SinTocarCandado DEF Deshacer, PasosLlave, PasosCrear, Responde
<1>13. ASSUME NEW p \in Peticiones, CrearCxc(p) PROVE ConDueno'
  BY <1>13, SinTocarCandado DEF CrearCxc, PasosLlave, PasosCrear, Responde
<1>14. ASSUME NEW p \in Peticiones, Asentar(p) PROVE ConDueno'
  BY <1>14, SinTocarCandado DEF Asentar, PasosLlave, PasosCrear, Responde
<1>15. ASSUME NEW p \in Peticiones, Compensar(p) PROVE ConDueno'
  BY <1>15, SinTocarCandado DEF Compensar, PasosLlave, PasosCrear, Responde
<1>16. ASSUME NEW p \in Peticiones, CompensarDup(p) PROVE ConDueno'
  BY <1>16, SinTocarCandado DEF CompensarDup, PasosLlave, PasosCrear
<1>17. ASSUME NEW p \in Peticiones, BuscarGanadora(p) PROVE ConDueno'
  BY <1>17, SinTocarCandado DEF BuscarGanadora, PasosLlave, PasosCrear, Responde
<1>18. ASSUME NEW p \in Peticiones, SoltarLlave(p) PROVE ConDueno'
  <2>1. ConLlave(p) /\ LlaveDe[p] \in Llaves
    BY <1>18, LlaveBien DEF SoltarLlave, ConDueno
  <2>2. CASE candado' = candado
    BY <1>18, <2>2, SinTocarCandado DEF SoltarLlave, PasosLlave, PasosCrear
  <2>3. CASE candado' = [candado EXCEPT ![LlaveDe[p]] = Libre]
    <3>1. \A q \in Peticiones : pc'[q] = IF q = p THEN "fin" ELSE pc[q]
      BY <1>18 DEF SoltarLlave, Va, TypeOK, Actores
    <3>2. \A q \in Peticiones : q # p /\ MismaLlave(p, q) => pc[q] \notin PasosCrear
      BY <1>18 DEF SoltarLlave, ConDueno, PasosCrear, MismaLlave, ConLlave
    <3>3. candado'[LlaveDe[p]] = Libre
          /\ \A c \in Llaves : c # LlaveDe[p] => candado'[c] = candado[c]
      BY <2>1, <2>3 DEF TypeOK
    <3> QED
      BY <1>18, <2>1, <3>1, <3>2, <3>3
      DEF SoltarLlave, ConDueno, PasosLlave, PasosCrear, MismaLlave, ConLlave, Libre
  <2> QED
    BY <1>18, <2>2, <2>3 DEF SoltarLlave
<1>19. ASSUME NEW v \in Anuladores, ElegirVenta(v) PROVE ConDueno'
  BY <1>19, SinPeticion DEF ElegirVenta
<1>20. ASSUME NEW v \in Anuladores, TomarVenta(v) PROVE ConDueno'
  BY <1>20, SinPeticion DEF TomarVenta
<1>21. ASSUME NEW v \in Anuladores, CancelarCredito(v) PROVE ConDueno'
  BY <1>21, SinPeticion DEF CancelarCredito
<1>22. ASSUME NEW v \in Anuladores, ReponerVenta(v) PROVE ConDueno'
  BY <1>22, SinPeticion DEF ReponerVenta
<1>23. ASSUME NEW v \in Anuladores, ReversarLibro(v) PROVE ConDueno'
  BY <1>23, SinPeticion DEF ReversarLibro
<1>24. ASSUME NEW v \in Anuladores, RevertirSaldo(v) PROVE ConDueno'
  BY <1>24, SinPeticion DEF RevertirSaldo
<1>25. ASSUME NEW c \in Llaves, Envejece(c) PROVE ConDueno'
  <2>1. \A d \in Llaves : candado'[d].dueno = candado[d].dueno
                          /\ (d # c => candado'[d].viejo = candado[d].viejo)
    <3>1. candado' = [candado EXCEPT ![c] = [candado[c] EXCEPT !.viejo = TRUE]]
      BY <1>25 DEF Envejece
    <3>2. [candado[c] EXCEPT !.viejo = TRUE].dueno = candado[c].dueno
      BY DEF TypeOK, Candado
    <3> QED
      BY <3>1, <3>2 DEF TypeOK
  <2>2. candado[c].dueno \in Peticiones /\ pc[candado[c].dueno] = "fin" /\ pc' = pc
    BY <1>25 DEF Envejece, TypeOK, Candado
  <2>3. \A d \in Llaves :
           candado'[d].viejo => candado'[d].dueno \in Peticiones /\ pc'[candado'[d].dueno] = "fin"
    BY <2>1, <2>2 DEF ConDueno
  <2>4. \A q \in Peticiones : pc'[q] \in PasosCrear /\ ConLlave(q) => candado'[LlaveDe[q]].dueno = q
    BY <2>1, <2>2, LlaveBien DEF ConDueno, ConLlave
  <2>5. \A q \in Peticiones : pc'[q] \in PasosLlave \cup {"revisar", "soltar"} => ConLlave(q)
    BY <2>2 DEF ConDueno, ConLlave
  <2> QED
    BY <2>3, <2>4, <2>5 DEF ConDueno, ConLlave
<1>26. ASSUME NEW p \in Actores, Corte(p) PROVE ConDueno'
  <2>1. \A q \in Peticiones : pc'[q] = IF q = p THEN "fin" ELSE pc[q]
    BY <1>26 DEF Corte, Va, TypeOK, Actores
  <2>2. candado' = candado
    BY <1>26 DEF Corte
  <2> QED
    BY <2>1, <2>2 DEF ConDueno, ConLlave, PasosLlave, PasosCrear
<1>27. ASSUME UNCHANGED vars PROVE ConDueno'
  BY <1>27 DEF ConDueno, ConLlave, vars
<1>28. ASSUME NEW v \in Anuladores, RestaurarCredito(v) PROVE ConDueno'
  BY <1>28, SinPeticion DEF RestaurarCredito
<1>29. ASSUME NEW v \in Anuladores, DeshacerFlip(v) PROVE ConDueno'
  BY <1>29, SinPeticion DEF DeshacerFlip
<1> QED
  BY <1>1, <1>2, <1>3, <1>4, <1>5, <1>6, <1>7, <1>8, <1>9, <1>10, <1>11, <1>12, <1>13,
     <1>14, <1>15, <1>16, <1>17, <1>18, <1>19, <1>20, <1>21, <1>22, <1>23, <1>24, <1>25,
     <1>26, <1>27, <1>28, <1>29
   DEF Next, Sigue, Anula

LEMMA DuenoInicial == Init => ConDueno
BY DEF Init, ConDueno, ConLlave, PasosLlave, PasosCrear, Libre, Actores

\* If no request outlives the age at which its lock is taken over, two requests
\* of one key are never past the lock together, with processes lost anywhere.
THEOREM LlaveSiempreExcluye ==
    ASSUME ~Lentas
    PROVE  Spec => []LlaveExcluye
<1>1. ConDueno => LlaveExcluye
  BY DEF ConDueno, LlaveExcluye, MismaLlave, ConLlave
<1>2. Init => TypeOK /\ ConDueno
  BY TipoInicial, DuenoInicial
<1>3. (TypeOK /\ ConDueno) /\ [Next]_vars => (TypeOK /\ ConDueno)'
  BY TiposPaso, DuenoPaso
<1> QED
  BY <1>1, <1>2, <1>3, PTL DEF Spec

-----------------------------------------------------------------------------
(* Where a request is, and whether its sale is there.                        *)
SinVenta == {"libre", "revisar", "validar", "vender", "numerar", "persistir",
             "compensar", "compensarDup", "buscarGanadora"} \cup PasosLlave
ConVenta == {"consumir", "deshacer", "cxc", "asentar"}
Etapas ==
    \A p \in Peticiones :
        /\ pc[p] \in SinVenta => venta[p] = "no"
        /\ pc[p] \in ConVenta => venta[p] # "no"
        /\ pc[p] \in {"consumir", "deshacer"} => Medio[p] = "saldo"

\* A step of a request that leaves the sales alone.
LEMMA EtapaSiguiente ==
    ASSUME TypeOK, Etapas, venta' = venta, NEW p \in Peticiones, NEW paso, Va(p, paso),
           paso \in SinVenta => pc[p] \in SinVenta,
           paso \in ConVenta => pc[p] \in ConVenta,
           paso \in {"consumir", "deshacer"} => pc[p] = "consumir"
    PROVE  Etapas'
<1>1. \A q \in Peticiones : pc'[q] = IF q = p THEN paso ELSE pc[q]
  BY DEF Va, TypeOK, Actores
<1> QED
  BY <1>1 DEF Etapas

LEMMA EtapasPaso == TypeOK /\ Etapas /\ [Next]_vars => Etapas'
<1> SUFFICES ASSUME TypeOK, Etapas, [Next]_vars PROVE Etapas'
  OBVIOUS
<1>1. ASSUME NEW p \in Peticiones, Pedir(p) PROVE Etapas'
  BY <1>1, EtapaSiguiente DEF Pedir, SinVenta, ConVenta, PasosLlave
<1>2. ASSUME NEW p \in Peticiones, Previa(p) PROVE Etapas'
  BY <1>2, EtapaSiguiente DEF Previa, SinVenta, ConVenta, PasosLlave
<1>3. ASSUME NEW p \in Peticiones, TomarCandado(p) PROVE Etapas'
  BY <1>3, EtapaSiguiente DEF TomarCandado, SinVenta, ConVenta, PasosLlave
<1>4. ASSUME NEW p \in Peticiones, Robar(p) PROVE Etapas'
  BY <1>4, EtapaSiguiente DEF Robar, SinVenta, ConVenta, PasosLlave
<1>5. ASSUME NEW p \in Peticiones, Ganadora(p) PROVE Etapas'
  BY <1>5, EtapaSiguiente DEF Ganadora, SinVenta, ConVenta, PasosLlave
<1>6. ASSUME NEW p \in Peticiones, Revisar(p) PROVE Etapas'
  BY <1>6, EtapaSiguiente DEF Revisar, Responde, SinVenta, ConVenta, PasosLlave
<1>7. ASSUME NEW p \in Peticiones, Validar(p) PROVE Etapas'
  BY <1>7, EtapaSiguiente DEF Validar, Responde, SinVenta, ConVenta, PasosLlave
<1>8. ASSUME NEW p \in Peticiones, Vender(p) PROVE Etapas'
  BY <1>8, EtapaSiguiente DEF Vender, Responde, SinVenta, ConVenta, PasosLlave
<1>9. ASSUME NEW p \in Peticiones, Numerar(p) PROVE Etapas'
  BY <1>9, EtapaSiguiente DEF Numerar, SinVenta, ConVenta, PasosLlave
<1>10. ASSUME NEW p \in Peticiones, Persistir(p) PROVE Etapas'
  <2>1. CASE venta' = venta /\ \E paso \in {"compensar", "compensarDup"} : Va(p, paso)
    BY <1>10, <2>1, EtapaSiguiente DEF Persistir, SinVenta, ConVenta
  <2>2. CASE venta' = [venta EXCEPT ![p] = "completa"] /\ Va(p, TrasPersistir(p))
    <3>1. \A q \in Peticiones :
          /\ pc'[q] = (IF q = p THEN TrasPersistir(p) ELSE pc[q])
          /\ venta'[q] = (IF q = p THEN "completa" ELSE venta[q])
      BY <2>2 DEF Va, TypeOK, Actores
    <3>2. /\ TrasPersistir(p) \in {"consumir", "cxc", "asentar"}
          /\ TrasPersistir(p) = "consumir" => Medio[p] = "saldo"
      BY DEF TrasPersistir
    <3> QED
      BY <3>1, <3>2 DEF Etapas, SinVenta, ConVenta, PasosLlave
  <2> QED
    BY <1>10, <2>1, <2>2 DEF Persistir
<1>11. ASSUME NEW p \in Peticiones, Consumir(p) PROVE Etapas'
  BY <1>11, EtapaSiguiente DEF Consumir, SinVenta, ConVenta, PasosLlave
<1>12. ASSUME NEW p \in Peticiones, Deshacer(p) PROVE Etapas'
  <2>1. CASE venta' = venta /\ Responde(p, "error")
    BY <2>1, EtapaSiguiente DEF Responde, SinVenta, ConVenta, PasosLlave
  <2>2. CASE venta' = [venta EXCEPT ![p] = "no"] /\ Va(p, "compensar")
    <3>1. \A q \in Peticiones :
          /\ pc'[q] = (IF q = p THEN "compensar" ELSE pc[q])
          /\ venta'[q] = (IF q = p THEN "no" ELSE venta[q])
      BY <2>2 DEF Va, TypeOK, Actores
    <3> QED
      BY <3>1 DEF Etapas, ConVenta
  <2> QED
    BY <1>12, <2>1, <2>2 DEF Deshacer
<1>13. ASSUME NEW p \in Peticiones, CrearCxc(p) PROVE Etapas'
  BY <1>13, EtapaSiguiente DEF CrearCxc, Responde, SinVenta, ConVenta, PasosLlave
<1>14. ASSUME NEW p \in Peticiones, Asentar(p) PROVE Etapas'
  BY <1>14, EtapaSiguiente DEF Asentar, Responde, SinVenta, ConVenta, PasosLlave
<1>15. ASSUME NEW p \in Peticiones, Compensar(p) PROVE Etapas'
  BY <1>15, EtapaSiguiente DEF Compensar, Responde, SinVenta, ConVenta, PasosLlave
<1>16. ASSUME NEW p \in Peticiones, CompensarDup(p) PROVE Etapas'
  BY <1>16, EtapaSiguiente DEF CompensarDup, SinVenta, ConVenta, PasosLlave
<1>17. ASSUME NEW p \in Peticiones, BuscarGanadora(p) PROVE Etapas'
  BY <1>17, EtapaSiguiente DEF BuscarGanadora, Responde, SinVenta, ConVenta, PasosLlave
<1>18. ASSUME NEW p \in Peticiones, SoltarLlave(p) PROVE Etapas'
  BY <1>18, EtapaSiguiente DEF SoltarLlave, SinVenta, ConVenta, PasosLlave
<1>19. ASSUME NEW v \in Anuladores, ElegirVenta(v) PROVE Etapas'
  <2>1. \A q \in Peticiones : pc'[q] = pc[q] /\ venta'[q] = venta[q]
    BY <1>19 DEF ElegirVenta, Va, TypeOK, Actores
  <2> QED
    BY <2>1 DEF Etapas
<1>20. ASSUME NEW v \in Anuladores, TomarVenta(v) PROVE Etapas'
  <2>1. \A q \in Peticiones : (pc'[q] = pc[q]) /\ ((venta'[q] = "no") <=> (venta[q] = "no"))
    BY <1>20 DEF TomarVenta, Va, TypeOK, Actores
  <2> QED
    BY <2>1 DEF Etapas
<1>21. ASSUME NEW v \in Anuladores, CancelarCredito(v) PROVE Etapas'
  <2>1. \A q \in Peticiones : pc'[q] = pc[q] /\ venta'[q] = venta[q]
    BY <1>21 DEF CancelarCredito, Va, TypeOK, Actores
  <2> QED
    BY <2>1 DEF Etapas
<1>22. ASSUME NEW v \in Anuladores, ReponerVenta(v) PROVE Etapas'
  <2>1. \A q \in Peticiones : pc'[q] = pc[q] /\ venta'[q] = venta[q]
    BY <1>22 DEF ReponerVenta, Va, TypeOK, Actores
  <2> QED
    BY <2>1 DEF Etapas
<1>23. ASSUME NEW v \in Anuladores, ReversarLibro(v) PROVE Etapas'
  <2>1. \A q \in Peticiones : pc'[q] = pc[q] /\ venta'[q] = venta[q]
    BY <1>23 DEF ReversarLibro, Va, TypeOK, Actores
  <2> QED
    BY <2>1 DEF Etapas
<1>24. ASSUME NEW v \in Anuladores, RevertirSaldo(v) PROVE Etapas'
  <2>1. \A q \in Peticiones : pc'[q] = pc[q] /\ venta'[q] = venta[q]
    BY <1>24 DEF RevertirSaldo, Va, TypeOK, Actores
  <2> QED
    BY <2>1 DEF Etapas
<1>25. ASSUME NEW k \in Llaves, Envejece(k) PROVE Etapas'
  BY <1>25 DEF Envejece, Etapas
<1>26. ASSUME NEW p \in Actores, Corte(p) PROVE Etapas'
  <2>1. \A q \in Peticiones :
          /\ pc'[q] = (IF q = p THEN "fin" ELSE pc[q])
          /\ venta'[q] = venta[q]
    BY <1>26 DEF Corte, Va, TypeOK, Actores
  <2> QED
    BY <2>1 DEF Etapas, SinVenta, ConVenta, PasosLlave
<1>27. ASSUME UNCHANGED vars PROVE Etapas'
  BY <1>27 DEF vars, Etapas
<1>28. ASSUME NEW v \in Anuladores, RestaurarCredito(v) PROVE Etapas'
  <2>1. \A q \in Peticiones : pc'[q] = pc[q] /\ venta'[q] = venta[q]
    BY <1>28 DEF RestaurarCredito, Va, TypeOK, Actores
  <2> QED
    BY <2>1 DEF Etapas
<1>29. ASSUME NEW v \in Anuladores, DeshacerFlip(v) PROVE Etapas'
  <2>1. \A q \in Peticiones :
          /\ pc'[q] = pc[q]
          /\ (venta'[q] = "no") <=> (venta[q] = "no")
    BY <1>29 DEF DeshacerFlip, Va, TypeOK, Actores
  <2> QED
    BY <2>1 DEF Etapas
<1> QED
  BY <1>1, <1>2, <1>3, <1>4, <1>5, <1>6, <1>7, <1>8, <1>9, <1>10, <1>11, <1>12, <1>13,
     <1>14, <1>15, <1>16, <1>17, <1>18, <1>19, <1>20, <1>21, <1>22, <1>23, <1>24, <1>25,
     <1>26, <1>27, <1>28, <1>29
   DEF Next, Sigue, Anula

LEMMA EtapasInicio == Init => Etapas
BY DEF Init, Etapas, ConVenta, Actores

-----------------------------------------------------------------------------
(* One sale per key.                                                         *)

LEMMA UnaVentaPaso == TypeOK /\ UnaVentaPorLlave /\ [Next]_vars => UnaVentaPorLlave'
<1> SUFFICES ASSUME TypeOK, UnaVentaPorLlave, [Next]_vars PROVE UnaVentaPorLlave'
  OBVIOUS
<1> USE DEF UnaVentaPorLlave, MismaLlave, ConLlave
<1>1. ASSUME NEW p \in Peticiones, Pedir(p) PROVE UnaVentaPorLlave'
  BY <1>1 DEF Pedir
<1>2. ASSUME NEW p \in Peticiones, Previa(p) PROVE UnaVentaPorLlave'
  BY <1>2 DEF Previa
<1>3. ASSUME NEW p \in Peticiones, TomarCandado(p) PROVE UnaVentaPorLlave'
  BY <1>3 DEF TomarCandado
<1>4. ASSUME NEW p \in Peticiones, Robar(p) PROVE UnaVentaPorLlave'
  BY <1>4 DEF Robar
<1>5. ASSUME NEW p \in Peticiones, Ganadora(p) PROVE UnaVentaPorLlave'
  BY <1>5 DEF Ganadora
<1>6. ASSUME NEW p \in Peticiones, Revisar(p) PROVE UnaVentaPorLlave'
  BY <1>6 DEF Revisar
<1>7. ASSUME NEW p \in Peticiones, Validar(p) PROVE UnaVentaPorLlave'
  BY <1>7 DEF Validar
<1>8. ASSUME NEW p \in Peticiones, Vender(p) PROVE UnaVentaPorLlave'
  BY <1>8 DEF Vender
<1>9. ASSUME NEW p \in Peticiones, Numerar(p) PROVE UnaVentaPorLlave'
  BY <1>9 DEF Numerar
<1>10. ASSUME NEW p \in Peticiones, Persistir(p) PROVE UnaVentaPorLlave'
  BY <1>10 DEF Persistir, PorLlave, TypeOK
<1>11. ASSUME NEW p \in Peticiones, Consumir(p) PROVE UnaVentaPorLlave'
  BY <1>11 DEF Consumir
<1>12. ASSUME NEW p \in Peticiones, Deshacer(p) PROVE UnaVentaPorLlave'
  BY <1>12 DEF Deshacer, TypeOK
<1>13. ASSUME NEW p \in Peticiones, CrearCxc(p) PROVE UnaVentaPorLlave'
  BY <1>13 DEF CrearCxc
<1>14. ASSUME NEW p \in Peticiones, Asentar(p) PROVE UnaVentaPorLlave'
  BY <1>14 DEF Asentar
<1>15. ASSUME NEW p \in Peticiones, Compensar(p) PROVE UnaVentaPorLlave'
  BY <1>15 DEF Compensar
<1>16. ASSUME NEW p \in Peticiones, CompensarDup(p) PROVE UnaVentaPorLlave'
  BY <1>16 DEF CompensarDup
<1>17. ASSUME NEW p \in Peticiones, BuscarGanadora(p) PROVE UnaVentaPorLlave'
  BY <1>17 DEF BuscarGanadora
<1>18. ASSUME NEW p \in Peticiones, SoltarLlave(p) PROVE UnaVentaPorLlave'
  BY <1>18 DEF SoltarLlave
<1>19. ASSUME NEW v \in Anuladores, ElegirVenta(v) PROVE UnaVentaPorLlave'
  BY <1>19 DEF ElegirVenta
<1>20. ASSUME NEW v \in Anuladores, TomarVenta(v) PROVE UnaVentaPorLlave'
  BY <1>20 DEF TomarVenta, TypeOK
<1>21. ASSUME NEW v \in Anuladores, CancelarCredito(v) PROVE UnaVentaPorLlave'
  BY <1>21 DEF CancelarCredito
<1>22. ASSUME NEW v \in Anuladores, ReponerVenta(v) PROVE UnaVentaPorLlave'
  BY <1>22 DEF ReponerVenta
<1>23. ASSUME NEW v \in Anuladores, ReversarLibro(v) PROVE UnaVentaPorLlave'
  BY <1>23 DEF ReversarLibro
<1>24. ASSUME NEW v \in Anuladores, RevertirSaldo(v) PROVE UnaVentaPorLlave'
  BY <1>24 DEF RevertirSaldo
<1>25. ASSUME NEW k \in Llaves, Envejece(k) PROVE UnaVentaPorLlave'
  BY <1>25 DEF Envejece
<1>26. ASSUME NEW p \in Actores, Corte(p) PROVE UnaVentaPorLlave'
  BY <1>26 DEF Corte
<1>27. ASSUME UNCHANGED vars PROVE UnaVentaPorLlave'
  BY <1>27 DEF vars
<1>28. ASSUME NEW v \in Anuladores, RestaurarCredito(v) PROVE UnaVentaPorLlave'
  BY <1>28 DEF RestaurarCredito
<1>29. ASSUME NEW v \in Anuladores, DeshacerFlip(v) PROVE UnaVentaPorLlave'
  BY <1>29 DEF DeshacerFlip
<1> QED
  BY <1>1, <1>2, <1>3, <1>4, <1>5, <1>6, <1>7, <1>8, <1>9, <1>10, <1>11, <1>12, <1>13,
     <1>14, <1>15, <1>16, <1>17, <1>18, <1>19, <1>20, <1>21, <1>22, <1>23, <1>24, <1>25,
     <1>26, <1>27, <1>28, <1>29
   DEF Next, Sigue, Anula

\* A key has at most one sale, whatever fails and however slow its requests are.
THEOREM UnaVentaSiempre == Spec => []UnaVentaPorLlave
<1>1. Init => UnaVentaPorLlave
  BY DEF Init, UnaVentaPorLlave
<1> QED
  BY <1>1, UnaVentaPaso, TiposSiempre, PTL DEF Spec

-----------------------------------------------------------------------------
(* The answer of a request is a sale of its own or of its key, and it stands. *)
SinSaldo == \A p \in Peticiones : Medio[p] # "saldo"

Respondidas ==
    \A p \in Peticiones :
        respuesta[p] \in Peticiones =>
            /\ venta[respuesta[p]] # "no"
            /\ respuesta[p] = p \/ MismaLlave(p, respuesta[p])

\* A step that answers one request and leaves the sales alone.
LEMMA RespondeBien ==
    ASSUME TypeOK, Respondidas, venta' = venta, NEW p \in Peticiones, NEW r,
           respuesta' = [respuesta EXCEPT ![p] = r],
           r \in Peticiones => venta[r] # "no" /\ (r = p \/ MismaLlave(p, r))
    PROVE  Respondidas'
BY DEF Respondidas, TypeOK, MismaLlave, ConLlave

\* A step that answers nobody and deletes no sale.
LEMMA RespuestasSiguen ==
    ASSUME Respondidas, respuesta' = respuesta,
           \A q \in Peticiones : venta[q] # "no" => venta'[q] # "no"
    PROVE  Respondidas'
BY DEF Respondidas, MismaLlave, ConLlave

LEMMA RespondidasPaso ==
    ASSUME SinSaldo
    PROVE  TypeOK /\ Etapas /\ Respondidas /\ [Next]_vars => Respondidas'
<1> SUFFICES ASSUME TypeOK, Etapas, Respondidas, [Next]_vars PROVE Respondidas'
  OBVIOUS
<1>1. ASSUME NEW p \in Peticiones, Pedir(p) PROVE Respondidas'
  BY <1>1, RespuestasSiguen DEF Pedir
<1>2. ASSUME NEW p \in Peticiones, Previa(p) PROVE Respondidas'
  <2>1. venta' = venta
    BY <1>2 DEF Previa
  <2>2. \/ \E q \in PorLlave(p) : respuesta' = [respuesta EXCEPT ![p] = q]
        \/ respuesta' = respuesta
    BY <1>2 DEF Previa
  <2> QED
    BY <2>1, <2>2, RespondeBien, RespuestasSiguen DEF PorLlave
<1>3. ASSUME NEW p \in Peticiones, TomarCandado(p) PROVE Respondidas'
  BY <1>3, RespuestasSiguen DEF TomarCandado
<1>4. ASSUME NEW p \in Peticiones, Robar(p) PROVE Respondidas'
  BY <1>4, RespuestasSiguen DEF Robar
<1>5. ASSUME NEW p \in Peticiones, Ganadora(p) PROVE Respondidas'
  <2>1. venta' = venta
    BY <1>5 DEF Ganadora
  <2>2. \/ \E q \in PorLlave(p) : respuesta' = [respuesta EXCEPT ![p] = q]
        \/ respuesta' = respuesta \/ respuesta' = [respuesta EXCEPT ![p] = "en_proceso"]
    BY <1>5 DEF Ganadora
  <2> QED
    BY <2>1, <2>2, RespondeBien, RespuestasSiguen DEF PorLlave
<1>6. ASSUME NEW p \in Peticiones, Revisar(p) PROVE Respondidas'
  <2>1. venta' = venta
    BY <1>6 DEF Revisar
  <2>2. \/ \E q \in PorLlave(p) : respuesta' = [respuesta EXCEPT ![p] = q]
        \/ respuesta' = respuesta
    BY <1>6 DEF Revisar, Responde
  <2> QED
    BY <2>1, <2>2, RespondeBien, RespuestasSiguen DEF PorLlave
<1>7. ASSUME NEW p \in Peticiones, Validar(p) PROVE Respondidas'
  <2>1. venta' = venta /\ (respuesta' = respuesta \/ respuesta' = [respuesta EXCEPT ![p] = "error"])
    BY <1>7 DEF Validar, Responde
  <2> QED
    BY <2>1, RespondeBien, RespuestasSiguen
<1>8. ASSUME NEW p \in Peticiones, Vender(p) PROVE Respondidas'
  <2>1. venta' = venta /\ (respuesta' = respuesta \/ respuesta' = [respuesta EXCEPT ![p] = "error"])
    BY <1>8 DEF Vender, Responde
  <2> QED
    BY <2>1, RespondeBien, RespuestasSiguen
<1>9. ASSUME NEW p \in Peticiones, Numerar(p) PROVE Respondidas'
  BY <1>9, RespuestasSiguen DEF Numerar
<1>10. ASSUME NEW p \in Peticiones, Persistir(p) PROVE Respondidas'
  BY <1>10, RespuestasSiguen DEF Persistir, TypeOK
<1>11. ASSUME NEW p \in Peticiones, Consumir(p) PROVE Respondidas'
  BY <1>11, RespuestasSiguen DEF Consumir
<1>12. ASSUME NEW p \in Peticiones, Deshacer(p) PROVE Respondidas'
  BY <1>12 DEF Deshacer, Etapas, SinSaldo
<1>13. ASSUME NEW p \in Peticiones, CrearCxc(p) PROVE Respondidas'
  <2>1. venta' = venta /\ (respuesta' = respuesta \/ respuesta' = [respuesta EXCEPT ![p] = "error"])
    BY <1>13 DEF CrearCxc, Responde
  <2> QED
    BY <2>1, RespondeBien, RespuestasSiguen
<1>14. ASSUME NEW p \in Peticiones, Asentar(p) PROVE Respondidas'
  <2>1. venta' = venta /\ respuesta' = [respuesta EXCEPT ![p] = p]
    BY <1>14 DEF Asentar, Responde
  <2>2. venta[p] # "no"
    BY <1>14 DEF Asentar, Etapas, ConVenta
  <2> QED
    BY <2>1, <2>2, RespondeBien
<1>15. ASSUME NEW p \in Peticiones, Compensar(p) PROVE Respondidas'
  <2>1. venta' = venta /\ respuesta' = [respuesta EXCEPT ![p] = "error"]
    BY <1>15 DEF Compensar, Responde
  <2> QED
    BY <2>1, RespondeBien
<1>16. ASSUME NEW p \in Peticiones, CompensarDup(p) PROVE Respondidas'
  BY <1>16, RespuestasSiguen DEF CompensarDup
<1>17. ASSUME NEW p \in Peticiones, BuscarGanadora(p) PROVE Respondidas'
  <2>1. venta' = venta
    BY <1>17 DEF BuscarGanadora
  <2>2. \/ \E q \in PorLlave(p) : respuesta' = [respuesta EXCEPT ![p] = q]
        \/ respuesta' = respuesta
    BY <1>17 DEF BuscarGanadora, Responde
  <2> QED
    BY <2>1, <2>2, RespondeBien, RespuestasSiguen DEF PorLlave
<1>18. ASSUME NEW p \in Peticiones, SoltarLlave(p) PROVE Respondidas'
  BY <1>18, RespuestasSiguen DEF SoltarLlave
<1>19. ASSUME NEW v \in Anuladores, ElegirVenta(v) PROVE Respondidas'
  BY <1>19, RespuestasSiguen DEF ElegirVenta
<1>20. ASSUME NEW v \in Anuladores, TomarVenta(v) PROVE Respondidas'
  BY <1>20, RespuestasSiguen DEF TomarVenta, TypeOK
<1>21. ASSUME NEW v \in Anuladores, CancelarCredito(v) PROVE Respondidas'
  BY <1>21, RespuestasSiguen DEF CancelarCredito
<1>22. ASSUME NEW v \in Anuladores, ReponerVenta(v) PROVE Respondidas'
  BY <1>22, RespuestasSiguen DEF ReponerVenta
<1>23. ASSUME NEW v \in Anuladores, ReversarLibro(v) PROVE Respondidas'
  BY <1>23, RespuestasSiguen DEF ReversarLibro
<1>24. ASSUME NEW v \in Anuladores, RevertirSaldo(v) PROVE Respondidas'
  BY <1>24, RespuestasSiguen DEF RevertirSaldo
<1>25. ASSUME NEW k \in Llaves, Envejece(k) PROVE Respondidas'
  BY <1>25, RespuestasSiguen DEF Envejece
<1>26. ASSUME NEW p \in Actores, Corte(p) PROVE Respondidas'
  BY <1>26 DEF Corte, Respondidas, MismaLlave, ConLlave
<1>27. ASSUME UNCHANGED vars PROVE Respondidas'
  BY <1>27, RespuestasSiguen DEF vars
<1>28. ASSUME NEW v \in Anuladores, RestaurarCredito(v) PROVE Respondidas'
  BY <1>28, RespuestasSiguen DEF RestaurarCredito
<1>29. ASSUME NEW v \in Anuladores, DeshacerFlip(v) PROVE Respondidas'
  BY <1>29, RespuestasSiguen DEF DeshacerFlip
<1> QED
  BY <1>1, <1>2, <1>3, <1>4, <1>5, <1>6, <1>7, <1>8, <1>9, <1>10, <1>11, <1>12, <1>13,
     <1>14, <1>15, <1>16, <1>17, <1>18, <1>19, <1>20, <1>21, <1>22, <1>23, <1>24, <1>25,
     <1>26, <1>27, <1>28, <1>29
   DEF Next, Sigue, Anula

\* Without balances in favour no sale is deleted: every request of a key that
\* is answered with a sale gets the same one, and that sale is there.
THEOREM RespuestaSiempreUnica ==
    ASSUME SinSaldo
    PROVE  Spec => []RespuestaUnica
<1>1. Init => TypeOK /\ Etapas /\ UnaVentaPorLlave /\ Respondidas
  BY TipoInicial, EtapasInicio DEF Init, UnaVentaPorLlave, Respondidas
<1>2. (TypeOK /\ Etapas /\ UnaVentaPorLlave /\ Respondidas) /\ [Next]_vars
        => (TypeOK /\ Etapas /\ UnaVentaPorLlave /\ Respondidas)'
  BY TiposPaso, EtapasPaso, UnaVentaPaso, RespondidasPaso
<1>3. UnaVentaPorLlave /\ Respondidas => RespuestaUnica
  BY DEF UnaVentaPorLlave, Respondidas, RespuestaUnica, MismaLlave, ConLlave
<1> QED
  BY <1>1, <1>2, <1>3, PTL DEF Spec

-----------------------------------------------------------------------------
(* The units of a request.                                                   *)
Tiene == {"numerar", "persistir", "compensar", "compensarDup"}
Repone == {"creditoV", "stockV", "restaurarV", "deshacerV"}

\* What a void holds: a sale that is void, and no other void holds it.
AnulacionesVivas ==
    /\ \A v \in Anuladores : pc[v] \in Repone => venta[obj[v]] = "anulada"
    /\ \A v, w \in Anuladores :
           v # w /\ pc[v] \in Repone /\ pc[w] \in Repone => obj[v] # obj[w]

\* A duplicate has a sale that won.
DuplicadoConGanadora ==
    \A p \in Peticiones : pc[p] \in {"compensarDup", "buscarGanadora"} => PorLlave(p) # {}

LEMMA OtroActor ==
    ASSUME TypeOK, NEW a \in Actores, NEW paso, Va(a, paso)
    PROVE  \A b \in Actores : pc'[b] = IF b = a THEN paso ELSE pc[b]
BY DEF TypeOK, Va

\* A step of a request that keeps the void sales.
LEMMA AnulacionesSiguen ==
    ASSUME TypeOK, AnulacionesVivas, NEW p \in Peticiones, NEW paso, Va(p, paso), obj' = obj,
           \A q \in Peticiones : venta[q] = "anulada" => venta'[q] = "anulada"
    PROVE  AnulacionesVivas'
<1>1. \A v \in Anuladores : pc'[v] = pc[v]
  BY OtroActor DEF Actores
<1> QED
  BY <1>1 DEF AnulacionesVivas, TypeOK

\* A step of a void that takes no sale.
LEMMA AnulacionAvanza ==
    ASSUME TypeOK, AnulacionesVivas, NEW v \in Anuladores, NEW paso, Va(v, paso), venta' = venta,
           \A w \in Anuladores : w # v => obj'[w] = obj[w],
           paso \in Repone => pc[v] \in Repone /\ obj' = obj
    PROVE  AnulacionesVivas'
<1>1. \A w \in Anuladores : pc'[w] = IF w = v THEN paso ELSE pc[w]
  BY OtroActor DEF Actores
<1> QED
  BY <1>1 DEF AnulacionesVivas

LEMMA AnulacionesPaso ==
    ASSUME SinSaldo \/ Anuladores = {}
    PROVE  TypeOK /\ Etapas /\ AnulacionesVivas /\ [Next]_vars => AnulacionesVivas'
<1> SUFFICES ASSUME TypeOK, Etapas, AnulacionesVivas, [Next]_vars PROVE AnulacionesVivas'
  OBVIOUS
<1>1. ASSUME NEW p \in Peticiones, Pedir(p) PROVE AnulacionesVivas'
  BY <1>1, AnulacionesSiguen DEF Pedir
<1>2. ASSUME NEW p \in Peticiones, Previa(p) PROVE AnulacionesVivas'
  BY <1>2, AnulacionesSiguen DEF Previa
<1>3. ASSUME NEW p \in Peticiones, TomarCandado(p) PROVE AnulacionesVivas'
  BY <1>3, AnulacionesSiguen DEF TomarCandado
<1>4. ASSUME NEW p \in Peticiones, Robar(p) PROVE AnulacionesVivas'
  BY <1>4, AnulacionesSiguen DEF Robar
<1>5. ASSUME NEW p \in Peticiones, Ganadora(p) PROVE AnulacionesVivas'
  BY <1>5, AnulacionesSiguen DEF Ganadora
<1>6. ASSUME NEW p \in Peticiones, Revisar(p) PROVE AnulacionesVivas'
  BY <1>6, AnulacionesSiguen DEF Revisar, Responde
<1>7. ASSUME NEW p \in Peticiones, Validar(p) PROVE AnulacionesVivas'
  BY <1>7, AnulacionesSiguen DEF Validar, Responde
<1>8. ASSUME NEW p \in Peticiones, Vender(p) PROVE AnulacionesVivas'
  BY <1>8, AnulacionesSiguen DEF Vender, Responde
<1>9. ASSUME NEW p \in Peticiones, Numerar(p) PROVE AnulacionesVivas'
  BY <1>9, AnulacionesSiguen DEF Numerar
<1>10. ASSUME NEW p \in Peticiones, Persistir(p) PROVE AnulacionesVivas'
  <2>1. venta[p] = "no"
    BY <1>10 DEF Persistir, Etapas, SinVenta
  <2> QED
    BY <1>10, <2>1, AnulacionesSiguen DEF Persistir, TypeOK
<1>11. ASSUME NEW p \in Peticiones, Consumir(p) PROVE AnulacionesVivas'
  BY <1>11, AnulacionesSiguen DEF Consumir
<1>12. ASSUME NEW p \in Peticiones, Deshacer(p) PROVE AnulacionesVivas'
  BY <1>12 DEF Deshacer, Etapas, SinSaldo, AnulacionesVivas
<1>13. ASSUME NEW p \in Peticiones, CrearCxc(p) PROVE AnulacionesVivas'
  BY <1>13, AnulacionesSiguen DEF CrearCxc, Responde
<1>14. ASSUME NEW p \in Peticiones, Asentar(p) PROVE AnulacionesVivas'
  BY <1>14, AnulacionesSiguen DEF Asentar, Responde
<1>15. ASSUME NEW p \in Peticiones, Compensar(p) PROVE AnulacionesVivas'
  BY <1>15, AnulacionesSiguen DEF Compensar, Responde
<1>16. ASSUME NEW p \in Peticiones, CompensarDup(p) PROVE AnulacionesVivas'
  BY <1>16, AnulacionesSiguen DEF CompensarDup
<1>17. ASSUME NEW p \in Peticiones, BuscarGanadora(p) PROVE AnulacionesVivas'
  BY <1>17, AnulacionesSiguen DEF BuscarGanadora, Responde
<1>18. ASSUME NEW p \in Peticiones, SoltarLlave(p) PROVE AnulacionesVivas'
  BY <1>18, AnulacionesSiguen DEF SoltarLlave
<1>19. ASSUME NEW v \in Anuladores, ElegirVenta(v) PROVE AnulacionesVivas'
  BY <1>19, AnulacionAvanza DEF ElegirVenta, Repone, TypeOK
<1>20. ASSUME NEW v \in Anuladores, TomarVenta(v) PROVE AnulacionesVivas'
  <2>1. CASE venta[obj[v]] = "completa"
    <3>1. \A w \in Anuladores : pc'[w] = IF w = v THEN "creditoV" ELSE pc[w]
      BY <1>20, <2>1, OtroActor DEF TomarVenta, Actores
    <3> QED
      BY <1>20, <2>1, <3>1 DEF TomarVenta, AnulacionesVivas, TypeOK
  <2>2. CASE venta[obj[v]] # "completa"
    BY <1>20, <2>2, AnulacionAvanza DEF TomarVenta, Repone
  <2> QED
    BY <2>1, <2>2
<1>21. ASSUME NEW v \in Anuladores, CancelarCredito(v) PROVE AnulacionesVivas'
  BY <1>21, AnulacionAvanza DEF CancelarCredito, Repone
<1>22. ASSUME NEW v \in Anuladores, ReponerVenta(v) PROVE AnulacionesVivas'
  BY <1>22, AnulacionAvanza DEF ReponerVenta, Repone
<1>23. ASSUME NEW v \in Anuladores, ReversarLibro(v) PROVE AnulacionesVivas'
  BY <1>23, AnulacionAvanza DEF ReversarLibro, Repone
<1>24. ASSUME NEW v \in Anuladores, RevertirSaldo(v) PROVE AnulacionesVivas'
  BY <1>24, AnulacionAvanza DEF RevertirSaldo, Repone
<1>25. ASSUME NEW k \in Llaves, Envejece(k) PROVE AnulacionesVivas'
  BY <1>25 DEF Envejece, AnulacionesVivas
<1>26. ASSUME NEW p \in Actores, Corte(p) PROVE AnulacionesVivas'
  <2>1. CASE p \in Peticiones
    BY <1>26, <2>1, AnulacionesSiguen DEF Corte
  <2>2. CASE p \in Anuladores
    BY <1>26, <2>2, AnulacionAvanza DEF Corte, Repone
  <2> QED
    BY <2>1, <2>2 DEF Actores
<1>27. ASSUME UNCHANGED vars PROVE AnulacionesVivas'
  BY <1>27 DEF vars, AnulacionesVivas
<1>28. ASSUME NEW v \in Anuladores, RestaurarCredito(v) PROVE AnulacionesVivas'
  BY <1>28, AnulacionAvanza DEF RestaurarCredito, Repone
<1>29. ASSUME NEW v \in Anuladores, DeshacerFlip(v) PROVE AnulacionesVivas'
  <2>1. \A w \in Anuladores : pc'[w] = IF w = v THEN "libre" ELSE pc[w]
    BY <1>29, OtroActor DEF DeshacerFlip, Actores
  <2>2. obj' = obj /\ pc[v] \in Repone /\ obj \in [Anuladores -> Peticiones]
    BY <1>29 DEF DeshacerFlip, Repone, TypeOK
  <2>3. \A q \in Peticiones : q # obj[v] => venta'[q] = venta[q]
    BY <1>29 DEF DeshacerFlip, TypeOK
  <2> QED
    BY <2>1, <2>2, <2>3 DEF AnulacionesVivas, Repone
<1> QED
  BY <1>1, <1>2, <1>3, <1>4, <1>5, <1>6, <1>7, <1>8, <1>9, <1>10, <1>11, <1>12, <1>13,
     <1>14, <1>15, <1>16, <1>17, <1>18, <1>19, <1>20, <1>21, <1>22, <1>23, <1>24, <1>25,
     <1>26, <1>27, <1>28, <1>29
   DEF Next, Sigue, Anula

\* A step that deletes no sale, of a request that has no winner to find.
LEMMA GanadorasSiguen ==
    ASSUME TypeOK, DuplicadoConGanadora, NEW a \in Actores, NEW paso, Va(a, paso),
           \A q \in Peticiones : venta[q] # "no" => venta'[q] # "no",
           a \in Peticiones /\ paso \in {"compensarDup", "buscarGanadora"} => PorLlave(a) # {}
    PROVE  DuplicadoConGanadora'
<1>1. \A q \in Peticiones : pc'[q] = IF q = a THEN paso ELSE pc[q]
  BY OtroActor DEF Actores
<1>2. \A q \in Peticiones : PorLlave(q) # {} => PorLlave(q)' # {}
  BY DEF PorLlave, MismaLlave, ConLlave
<1> QED
  BY <1>1, <1>2 DEF DuplicadoConGanadora

LEMMA GanadorasPaso ==
    ASSUME SinSaldo
    PROVE  TypeOK /\ Etapas /\ DuplicadoConGanadora /\ [Next]_vars => DuplicadoConGanadora'
<1> SUFFICES ASSUME TypeOK, Etapas, DuplicadoConGanadora, [Next]_vars
             PROVE  DuplicadoConGanadora'
  OBVIOUS
<1> USE DEF Actores
<1>1. ASSUME NEW p \in Peticiones, Pedir(p) PROVE DuplicadoConGanadora'
  BY <1>1, GanadorasSiguen DEF Pedir
<1>2. ASSUME NEW p \in Peticiones, Previa(p) PROVE DuplicadoConGanadora'
  BY <1>2, GanadorasSiguen DEF Previa
<1>3. ASSUME NEW p \in Peticiones, TomarCandado(p) PROVE DuplicadoConGanadora'
  BY <1>3, GanadorasSiguen DEF TomarCandado
<1>4. ASSUME NEW p \in Peticiones, Robar(p) PROVE DuplicadoConGanadora'
  BY <1>4, GanadorasSiguen DEF Robar
<1>5. ASSUME NEW p \in Peticiones, Ganadora(p) PROVE DuplicadoConGanadora'
  BY <1>5, GanadorasSiguen DEF Ganadora
<1>6. ASSUME NEW p \in Peticiones, Revisar(p) PROVE DuplicadoConGanadora'
  BY <1>6, GanadorasSiguen DEF Revisar, Responde
<1>7. ASSUME NEW p \in Peticiones, Validar(p) PROVE DuplicadoConGanadora'
  BY <1>7, GanadorasSiguen DEF Validar, Responde
<1>8. ASSUME NEW p \in Peticiones, Vender(p) PROVE DuplicadoConGanadora'
  BY <1>8, GanadorasSiguen DEF Vender, Responde
<1>9. ASSUME NEW p \in Peticiones, Numerar(p) PROVE DuplicadoConGanadora'
  BY <1>9, GanadorasSiguen DEF Numerar
<1>10. ASSUME NEW p \in Peticiones, Persistir(p) PROVE DuplicadoConGanadora'
  BY <1>10, GanadorasSiguen DEF Persistir, TrasPersistir, TypeOK
<1>11. ASSUME NEW p \in Peticiones, Consumir(p) PROVE DuplicadoConGanadora'
  BY <1>11, GanadorasSiguen DEF Consumir
<1>12. ASSUME NEW p \in Peticiones, Deshacer(p) PROVE DuplicadoConGanadora'
  BY <1>12 DEF Deshacer, Etapas, SinSaldo
<1>13. ASSUME NEW p \in Peticiones, CrearCxc(p) PROVE DuplicadoConGanadora'
  BY <1>13, GanadorasSiguen DEF CrearCxc, Responde
<1>14. ASSUME NEW p \in Peticiones, Asentar(p) PROVE DuplicadoConGanadora'
  BY <1>14, GanadorasSiguen DEF Asentar, Responde
<1>15. ASSUME NEW p \in Peticiones, Compensar(p) PROVE DuplicadoConGanadora'
  BY <1>15, GanadorasSiguen DEF Compensar, Responde
<1>16. ASSUME NEW p \in Peticiones, CompensarDup(p) PROVE DuplicadoConGanadora'
  BY <1>16, GanadorasSiguen DEF CompensarDup, DuplicadoConGanadora
<1>17. ASSUME NEW p \in Peticiones, BuscarGanadora(p) PROVE DuplicadoConGanadora'
  BY <1>17, GanadorasSiguen DEF BuscarGanadora, Responde
<1>18. ASSUME NEW p \in Peticiones, SoltarLlave(p) PROVE DuplicadoConGanadora'
  BY <1>18, GanadorasSiguen DEF SoltarLlave
<1>19. ASSUME NEW v \in Anuladores, ElegirVenta(v) PROVE DuplicadoConGanadora'
  BY <1>19, GanadorasSiguen DEF ElegirVenta
<1>20. ASSUME NEW v \in Anuladores, TomarVenta(v) PROVE DuplicadoConGanadora'
  BY <1>20, GanadorasSiguen DEF TomarVenta, TypeOK
<1>21. ASSUME NEW v \in Anuladores, CancelarCredito(v) PROVE DuplicadoConGanadora'
  BY <1>21, GanadorasSiguen DEF CancelarCredito
<1>22. ASSUME NEW v \in Anuladores, ReponerVenta(v) PROVE DuplicadoConGanadora'
  BY <1>22, GanadorasSiguen DEF ReponerVenta
<1>23. ASSUME NEW v \in Anuladores, ReversarLibro(v) PROVE DuplicadoConGanadora'
  BY <1>23, GanadorasSiguen DEF ReversarLibro
<1>24. ASSUME NEW v \in Anuladores, RevertirSaldo(v) PROVE DuplicadoConGanadora'
  BY <1>24, GanadorasSiguen DEF RevertirSaldo
<1>25. ASSUME NEW k \in Llaves, Envejece(k) PROVE DuplicadoConGanadora'
  BY <1>25 DEF Envejece, DuplicadoConGanadora, PorLlave
<1>26. ASSUME NEW p \in Actores, Corte(p) PROVE DuplicadoConGanadora'
  BY <1>26, GanadorasSiguen DEF Corte
<1>27. ASSUME UNCHANGED vars PROVE DuplicadoConGanadora'
  BY <1>27 DEF vars, DuplicadoConGanadora, PorLlave
<1>28. ASSUME NEW v \in Anuladores, RestaurarCredito(v) PROVE DuplicadoConGanadora'
  BY <1>28, GanadorasSiguen DEF RestaurarCredito
<1>29. ASSUME NEW v \in Anuladores, DeshacerFlip(v) PROVE DuplicadoConGanadora'
  BY <1>29, GanadorasSiguen DEF DeshacerFlip
<1> QED
  BY <1>1, <1>2, <1>3, <1>4, <1>5, <1>6, <1>7, <1>8, <1>9, <1>10, <1>11, <1>12, <1>13,
     <1>14, <1>15, <1>16, <1>17, <1>18, <1>19, <1>20, <1>21, <1>22, <1>23, <1>24, <1>25,
     <1>26, <1>27, <1>28, <1>29
   DEF Next, Sigue, Anula

\* A step of a request that moves no units and no sale.
LEMMA UnidadesQuietas ==
    ASSUME TypeOK, StockRespaldado, NEW p \in Peticiones, NEW paso, Va(p, paso),
           venta' = venta, neto' = neto, obj' = obj, paso \in Tiene <=> pc[p] \in Tiene
    PROVE  StockRespaldado'
<1>1. \A a \in Actores : pc'[a] = IF a = p THEN paso ELSE pc[a]
  BY OtroActor DEF Actores
<1>2. \A q \in Peticiones : (Anulandose(q) <=> Anulandose(q)') /\ (EnMano(q) <=> EnMano(q)')
  BY <1>1 DEF Anulandose, EnMano, Tiene, Actores
<1> QED
  BY <1>2 DEF StockRespaldado

\* A step of a void that moves no units and no sale.
LEMMA AnulacionQuieta ==
    ASSUME TypeOK, StockRespaldado, NEW v \in Anuladores, NEW paso, Va(v, paso),
           venta' = venta, neto' = neto, \A w \in Anuladores : w # v => obj'[w] = obj[w],
           (paso \in Repone <=> pc[v] \in Repone), pc[v] \in Repone => obj' = obj
    PROVE  StockRespaldado'
<1>1. \A a \in Actores : pc'[a] = IF a = v THEN paso ELSE pc[a]
  BY OtroActor DEF Actores
<1>2. \A q \in Peticiones : (Anulandose(q) <=> Anulandose(q)') /\ (EnMano(q) <=> EnMano(q)')
  BY <1>1 DEF Anulandose, EnMano, Repone, Actores
<1> QED
  BY <1>2 DEF StockRespaldado


\* The stages and the voids, as the units see them.
LEMMA SinVentaSinAnular ==
    ASSUME Etapas, AnulacionesVivas, NEW p \in Peticiones, pc[p] \in SinVenta
    PROVE  venta[p] = "no" /\ ~Anulandose(p)
BY DEF Etapas, AnulacionesVivas, Anulandose, Repone

\* A request takes its units, gives them back, or turns them into its sale.
LEMMA UnidadesDe ==
    ASSUME TypeOK, StockRespaldado, Etapas, AnulacionesVivas,
           NEW p \in Peticiones, pc[p] \in SinVenta, NEW paso, Va(p, paso), obj' = obj,
           \A q \in Peticiones : q # p => neto'[q] = neto[q] /\ venta'[q] = venta[q],
           neto'[p] = IF paso \in Tiene \/ venta'[p] = "completa" THEN 1 ELSE 0
    PROVE  StockRespaldado'
<1>1. \A a \in Actores : pc'[a] = IF a = p THEN paso ELSE pc[a]
  BY OtroActor DEF Actores
<1>2. \A q \in Peticiones : Anulandose(q) <=> Anulandose(q)'
  BY <1>1 DEF Anulandose, Actores
<1>3. \A q \in Peticiones : q # p => (EnMano(q) <=> EnMano(q)')
  BY <1>1 DEF EnMano, Actores
<1>4. EnMano(p)' <=> paso \in Tiene
  BY <1>1 DEF EnMano, Tiene, Actores
<1>5. ~Anulandose(p)
  BY SinVentaSinAnular
<1> QED
  BY <1>2, <1>3, <1>4, <1>5 DEF StockRespaldado

\* With nobody to void it, no sale is void.
SinAnuladas == Anuladores = {} => \A p \in Peticiones : venta[p] # "anulada"

LEMMA AnuladasPaso ==
    ASSUME TypeOK, SinAnuladas, [Next]_vars PROVE SinAnuladas'
<1> SUFFICES ASSUME Anuladores = {} PROVE \A p \in Peticiones : venta'[p] # "anulada"
  BY DEF SinAnuladas
<1>1. \/ venta' = venta
      \/ \E p \in Peticiones : Persistir(p) \/ Deshacer(p)
  BY DEF Next, Sigue, Anula, vars, Pedir, Previa, TomarCandado, Robar, Ganadora, Revisar, Validar,
     Vender, Numerar, Consumir, CrearCxc, Asentar, Compensar, CompensarDup, BuscarGanadora,
     SoltarLlave, Envejece, Corte
<1>2. ASSUME NEW p \in Peticiones, Persistir(p) PROVE \A q \in Peticiones : venta'[q] # "anulada"
  BY <1>2 DEF Persistir, TypeOK, SinAnuladas
<1>3. ASSUME NEW p \in Peticiones, Deshacer(p) PROVE \A q \in Peticiones : venta'[q] # "anulada"
  BY <1>3 DEF Deshacer, TypeOK, SinAnuladas
<1> QED
  BY <1>1, <1>2, <1>3 DEF SinAnuladas

\* A sale is deleted beside no void of it and no duplicate of its key (there is no
\* balance in favour; or nobody voids and no request outlives its lock); nobody is
\* killed with units in hand; and the compensation does not fail.
SinMermas ==
    /\ SinSaldo \/ (~Lentas /\ Anuladores = {})
    /\ Cortan \cap (Tiene \cup Repone) = {}
    /\ "compensar" \notin Fallan

LEMMA RespaldoPaso ==
    ASSUME SinMermas
    PROVE  TypeOK /\ Etapas /\ AnulacionesVivas /\ SinAnuladas /\ DuplicadoConGanadora
             /\ StockRespaldado /\ [Next]_vars => StockRespaldado'
<1> SUFFICES ASSUME TypeOK, Etapas, AnulacionesVivas, SinAnuladas, DuplicadoConGanadora,
                    StockRespaldado, [Next]_vars
             PROVE  StockRespaldado'
  OBVIOUS
<1>1. ASSUME NEW p \in Peticiones, Pedir(p) PROVE StockRespaldado'
  BY <1>1, UnidadesQuietas DEF Pedir, Tiene
<1>2. ASSUME NEW p \in Peticiones, Previa(p) PROVE StockRespaldado'
  BY <1>2, UnidadesQuietas DEF Previa, Tiene
<1>3. ASSUME NEW p \in Peticiones, TomarCandado(p) PROVE StockRespaldado'
  BY <1>3, UnidadesQuietas DEF TomarCandado, Tiene
<1>4. ASSUME NEW p \in Peticiones, Robar(p) PROVE StockRespaldado'
  BY <1>4, UnidadesQuietas DEF Robar, Tiene
<1>5. ASSUME NEW p \in Peticiones, Ganadora(p) PROVE StockRespaldado'
  BY <1>5, UnidadesQuietas DEF Ganadora, Tiene
<1>6. ASSUME NEW p \in Peticiones, Revisar(p) PROVE StockRespaldado'
  BY <1>6, UnidadesQuietas DEF Revisar, Tiene, Responde
<1>7. ASSUME NEW p \in Peticiones, Validar(p) PROVE StockRespaldado'
  BY <1>7, UnidadesQuietas DEF Validar, Tiene, Responde
<1>8. ASSUME NEW p \in Peticiones, Vender(p) PROVE StockRespaldado'
  <2>1. CASE neto' = neto /\ Responde(p, "error")
    BY <1>8, <2>1, UnidadesQuietas DEF Vender, Responde, Tiene
  <2>2. CASE Salen(p) /\ Va(p, "numerar")
    <3>1. venta[p] = "no" /\ ~Anulandose(p) /\ pc[p] \in SinVenta
      BY <1>8, SinVentaSinAnular DEF Vender, SinVenta
    <3>2. neto[p] = 0
      BY <1>8, <3>1 DEF Vender, StockRespaldado, EnMano
    <3>3. \A q \in Peticiones : neto'[q] = IF q = p THEN 1 ELSE neto[q]
      BY <2>2, <3>2 DEF Salen, TypeOK
    <3>4. venta' = venta /\ obj' = obj
      BY <1>8 DEF Vender
    <3> QED
      BY <2>2, <3>1, <3>3, <3>4, UnidadesDe DEF Tiene
  <2> QED
    BY <1>8, <2>1, <2>2 DEF Vender
<1>9. ASSUME NEW p \in Peticiones, Numerar(p) PROVE StockRespaldado'
  BY <1>9, UnidadesQuietas DEF Numerar, Tiene
<1>10. ASSUME NEW p \in Peticiones, Persistir(p) PROVE StockRespaldado'
  <2>1. CASE venta' = venta /\ \E paso \in {"compensar", "compensarDup"} : Va(p, paso)
    BY <1>10, <2>1, UnidadesQuietas DEF Persistir, Tiene, TrasPersistir
  <2>2. CASE venta' = [venta EXCEPT ![p] = "completa"] /\ Va(p, TrasPersistir(p))
    <3>1. pc[p] \in SinVenta /\ neto[p] = 1 /\ obj' = obj /\ neto' = neto
      BY <1>10 DEF Persistir, SinVenta, StockRespaldado, EnMano
    <3>2. \A q \in Peticiones : venta'[q] = (IF q = p THEN "completa" ELSE venta[q])
      BY <2>2 DEF TypeOK
    <3> QED
      BY <2>2, <3>1, <3>2, UnidadesDe
  <2> QED
    BY <1>10, <2>1, <2>2 DEF Persistir
<1>11. ASSUME NEW p \in Peticiones, Consumir(p) PROVE StockRespaldado'
  BY <1>11, UnidadesQuietas DEF Consumir, Tiene
<1>12. ASSUME NEW p \in Peticiones, Deshacer(p) PROVE StockRespaldado'
  <2>1. /\ Anuladores = {} /\ venta[p] = "completa" /\ neto[p] = 1 /\ pc[p] = "deshacer"
        /\ neto' = neto /\ obj' = obj
    BY <1>12 DEF Deshacer, Etapas, ConVenta, SinSaldo, SinMermas, SinAnuladas, StockRespaldado, TypeOK
  <2>2. CASE venta' = [venta EXCEPT ![p] = "no"] /\ Va(p, "compensar")
    <3>1. \A q \in Peticiones : /\ venta'[q] = IF q = p THEN "no" ELSE venta[q]
                                /\ pc'[q] = IF q = p THEN "compensar" ELSE pc[q]
      BY <2>2, OtroActor DEF TypeOK, Actores
    <3>2. \A q \in Peticiones : ~Anulandose(q) /\ ~Anulandose(q)'
      BY <2>1 DEF Anulandose
    <3> QED
      BY <2>1, <3>1, <3>2 DEF StockRespaldado, EnMano
  <2>3. CASE venta' = venta /\ Responde(p, "error")
    BY <2>1, <2>3, UnidadesQuietas DEF Tiene, Responde
  <2> QED
    BY <1>12, <2>2, <2>3 DEF Deshacer
<1>13. ASSUME NEW p \in Peticiones, CrearCxc(p) PROVE StockRespaldado'
  BY <1>13, UnidadesQuietas DEF CrearCxc, Tiene, Responde
<1>14. ASSUME NEW p \in Peticiones, Asentar(p) PROVE StockRespaldado'
  BY <1>14, UnidadesQuietas DEF Asentar, Tiene, Responde
<1>15. ASSUME NEW p \in Peticiones, Compensar(p) PROVE StockRespaldado'
  <2>1. pc[p] \in SinVenta /\ neto[p] = 1
    BY <1>15 DEF Compensar, SinVenta, StockRespaldado, EnMano
  <2>2. Vuelven(p) /\ venta' = venta /\ obj' = obj
    BY <1>15 DEF Compensar, Falla, SinMermas
  <2>3. \A q \in Peticiones : neto'[q] = IF q = p THEN 0 ELSE neto[q]
    BY <2>1, <2>2 DEF Vuelven, TypeOK
  <2>4. venta[p] = "no"
    BY <2>1, SinVentaSinAnular
  <2>5. Va(p, (IF ConLlave(p) THEN "soltar" ELSE "fin"))
    BY <1>15 DEF Compensar, Responde
  <2> QED
    BY <2>1, <2>2, <2>3, <2>4, <2>5, UnidadesDe DEF Tiene
<1>16. ASSUME NEW p \in Peticiones, CompensarDup(p) PROVE StockRespaldado'
  <2>1. pc[p] \in SinVenta /\ neto[p] = 1
    BY <1>16 DEF CompensarDup, SinVenta, StockRespaldado, EnMano
  <2>2. Vuelven(p) /\ venta' = venta /\ obj' = obj
    BY <1>16 DEF CompensarDup, Falla, SinMermas
  <2>3. \A q \in Peticiones : neto'[q] = IF q = p THEN 0 ELSE neto[q]
    BY <2>1, <2>2 DEF Vuelven, TypeOK
  <2>4. venta[p] = "no"
    BY <2>1, SinVentaSinAnular
  <2>5. Va(p, "buscarGanadora")
    BY <1>16 DEF CompensarDup
  <2> QED
    BY <2>1, <2>2, <2>3, <2>4, <2>5, UnidadesDe DEF Tiene
<1>17. ASSUME NEW p \in Peticiones, BuscarGanadora(p) PROVE StockRespaldado'
  <2>1. PorLlave(p) # {}
    BY <1>17 DEF BuscarGanadora, DuplicadoConGanadora
  <2> QED
    BY <1>17, <2>1, UnidadesQuietas DEF BuscarGanadora, Responde, Tiene
<1>18. ASSUME NEW p \in Peticiones, SoltarLlave(p) PROVE StockRespaldado'
  BY <1>18, UnidadesQuietas DEF SoltarLlave, Tiene
<1>19. ASSUME NEW v \in Anuladores, ElegirVenta(v) PROVE StockRespaldado'
  BY <1>19, AnulacionQuieta DEF ElegirVenta, Repone, TypeOK
<1>20. ASSUME NEW v \in Anuladores, TomarVenta(v) PROVE StockRespaldado'
  <2>1. CASE venta[obj[v]] = "completa"
    <3>1. \A b \in Actores : pc'[b] = IF b = v THEN "creditoV" ELSE pc[b]
      BY <1>20, <2>1, OtroActor DEF TomarVenta, Actores
    <3>2. obj[v] \in Peticiones /\ obj' = obj /\ neto' = neto /\ pc[v] = "flip"
      BY <1>20, <2>1 DEF TomarVenta, TypeOK
    <3>3. \A q \in Peticiones : Anulandose(q)' <=> (Anulandose(q) \/ q = obj[v])
      BY <3>1, <3>2 DEF Anulandose, Actores
    <3>4. \A q \in Peticiones : EnMano(q)' <=> EnMano(q)
      BY <3>1 DEF EnMano, Actores
    <3>5. \A q \in Peticiones : venta'[q] = (IF q = obj[v] THEN "anulada" ELSE venta[q])
      BY <1>20, <2>1, <3>2 DEF TomarVenta, TypeOK
    <3> QED
      BY <2>1, <3>2, <3>3, <3>4, <3>5 DEF StockRespaldado
  <2>2. CASE venta[obj[v]] # "completa"
    BY <1>20, <2>2, AnulacionQuieta DEF TomarVenta, Repone
  <2> QED
    BY <2>1, <2>2
<1>21. ASSUME NEW v \in Anuladores, CancelarCredito(v) PROVE StockRespaldado'
  BY <1>21, AnulacionQuieta DEF CancelarCredito, Repone
<1>22. ASSUME NEW v \in Anuladores, ReponerVenta(v) PROVE StockRespaldado'
  <2>1. CASE Va(v, "restaurarV") /\ neto' = neto
    BY <1>22, <2>1, AnulacionQuieta DEF ReponerVenta, Repone
  <2>2. CASE Vuelven(obj[v]) /\ Va(v, "libroV")
    <3>1. \A b \in Actores : pc'[b] = IF b = v THEN "libroV" ELSE pc[b]
      BY <2>2, OtroActor DEF ReponerVenta, Actores
    <3>2. obj[v] \in Peticiones /\ obj' = obj /\ venta' = venta /\ pc[v] = "stockV"
      BY <1>22 DEF ReponerVenta, TypeOK
    <3>3. venta[obj[v]] = "anulada" /\ Anulandose(obj[v]) /\ neto[obj[v]] = 1
      BY <3>2 DEF AnulacionesVivas, Repone, Anulandose, StockRespaldado
    <3>4. ~EnMano(obj[v])
      BY <3>2, <3>3 DEF EnMano, Etapas, SinVenta
    <3>5. \A q \in Peticiones : neto'[q] = IF q = obj[v] THEN 0 ELSE neto[q]
      BY <2>2, <3>2, <3>3 DEF Vuelven, TypeOK
    <3>6. \A q \in Peticiones : EnMano(q)' <=> EnMano(q)
      BY <3>1 DEF EnMano, Actores
    <3>7. \A q \in Peticiones : Anulandose(q)' <=> (Anulandose(q) /\ q # obj[v])
      BY <3>1, <3>2 DEF Anulandose, Actores, AnulacionesVivas, Repone
    <3> QED
      BY <3>2, <3>3, <3>4, <3>5, <3>6, <3>7 DEF StockRespaldado
  <2> QED
    BY <1>22, <2>1, <2>2 DEF ReponerVenta
<1>23. ASSUME NEW v \in Anuladores, ReversarLibro(v) PROVE StockRespaldado'
  BY <1>23, AnulacionQuieta DEF ReversarLibro, Repone
<1>24. ASSUME NEW v \in Anuladores, RevertirSaldo(v) PROVE StockRespaldado'
  BY <1>24, AnulacionQuieta DEF RevertirSaldo, Repone
<1>25. ASSUME NEW k \in Llaves, Envejece(k) PROVE StockRespaldado'
  BY <1>25 DEF Envejece, StockRespaldado, EnMano, Anulandose
<1>26. ASSUME NEW p \in Actores, Corte(p) PROVE StockRespaldado'
  <2>1. CASE p \in Peticiones
    BY <1>26, <2>1, UnidadesQuietas DEF Corte, SinMermas, Tiene
  <2>2. CASE p \in Anuladores
    BY <1>26, <2>2, AnulacionQuieta DEF Corte, SinMermas, Repone
  <2> QED
    BY <2>1, <2>2 DEF Actores
<1>27. ASSUME UNCHANGED vars PROVE StockRespaldado'
  BY <1>27 DEF vars, StockRespaldado, EnMano, Anulandose
<1>28. ASSUME NEW v \in Anuladores, RestaurarCredito(v) PROVE StockRespaldado'
  BY <1>28, AnulacionQuieta DEF RestaurarCredito, Repone
<1>29. ASSUME NEW v \in Anuladores, DeshacerFlip(v) PROVE StockRespaldado'
  <2>1. \A b \in Actores : pc'[b] = IF b = v THEN "libre" ELSE pc[b]
    BY <1>29, OtroActor DEF DeshacerFlip, Actores
  <2>2. obj[v] \in Peticiones /\ obj' = obj /\ neto' = neto /\ pc[v] = "deshacerV"
    BY <1>29 DEF DeshacerFlip, TypeOK
  <2>3. venta[obj[v]] = "anulada" /\ Anulandose(obj[v]) /\ neto[obj[v]] = 1
    BY <2>2 DEF AnulacionesVivas, Repone, Anulandose, StockRespaldado
  <2>4. \A q \in Peticiones : EnMano(q)' <=> EnMano(q)
    BY <2>1 DEF EnMano, Actores
  <2>5. \A q \in Peticiones : Anulandose(q)' <=> (Anulandose(q) /\ q # obj[v])
    BY <2>1, <2>2 DEF Anulandose, Actores, AnulacionesVivas, Repone
  <2>6. \A q \in Peticiones : venta'[q] = IF q = obj[v] THEN "completa" ELSE venta[q]
    BY <1>29, <2>2, <2>3 DEF DeshacerFlip, TypeOK
  <2> QED
    BY <2>2, <2>3, <2>4, <2>5, <2>6 DEF StockRespaldado
<1> QED
  BY <1>1, <1>2, <1>3, <1>4, <1>5, <1>6, <1>7, <1>8, <1>9, <1>10, <1>11, <1>12, <1>13,
     <1>14, <1>15, <1>16, <1>17, <1>18, <1>19, <1>20, <1>21, <1>22, <1>23, <1>24, <1>25,
     <1>26, <1>27, <1>28, <1>29
   DEF Next, Sigue, Anula

-----------------------------------------------------------------------------
(* The numbers of the series.                                                *)
AntesDeLaVenta == {"validar", "vender", "numerar", "persistir"}

\* A request on its way to a sale has no other sale of its key.
SinGanadora == \A p \in Peticiones : pc[p] \in AntesDeLaVenta => PorLlave(p) = {}

\* A step that makes no sale.
LEMMA SigueSinGanadora ==
    ASSUME TypeOK, SinGanadora, NEW a \in Actores, NEW paso, Va(a, paso),
           \A q \in Peticiones : venta[q] = "no" => venta'[q] = "no",
           a \in Peticiones /\ paso \in AntesDeLaVenta => PorLlave(a) = {}
    PROVE  SinGanadora'
<1>1. \A q \in Peticiones : pc'[q] = IF q = a THEN paso ELSE pc[q]
  BY OtroActor DEF Actores
<1>2. \A q \in Peticiones : PorLlave(q) = {} => PorLlave(q)' = {}
  BY DEF PorLlave, MismaLlave, ConLlave
<1> QED
  BY <1>1, <1>2 DEF SinGanadora

LEMMA SinGanadoraPaso ==
    TypeOK /\ LlaveExcluye /\ SinGanadora /\ [Next]_vars => SinGanadora'
<1> SUFFICES ASSUME TypeOK, LlaveExcluye, SinGanadora, [Next]_vars PROVE SinGanadora'
  OBVIOUS
<1> USE DEF Actores, AntesDeLaVenta
<1>1. ASSUME NEW p \in Peticiones, Pedir(p) PROVE SinGanadora'
  BY <1>1, SigueSinGanadora DEF Pedir, PorLlave, MismaLlave
<1>2. ASSUME NEW p \in Peticiones, Previa(p) PROVE SinGanadora'
  BY <1>2, SigueSinGanadora DEF Previa
<1>3. ASSUME NEW p \in Peticiones, TomarCandado(p) PROVE SinGanadora'
  BY <1>3, SigueSinGanadora DEF TomarCandado
<1>4. ASSUME NEW p \in Peticiones, Robar(p) PROVE SinGanadora'
  BY <1>4, SigueSinGanadora DEF Robar
<1>5. ASSUME NEW p \in Peticiones, Ganadora(p) PROVE SinGanadora'
  BY <1>5, SigueSinGanadora DEF Ganadora
<1>6. ASSUME NEW p \in Peticiones, Revisar(p) PROVE SinGanadora'
  BY <1>6, SigueSinGanadora DEF Revisar, Responde
<1>7. ASSUME NEW p \in Peticiones, Validar(p) PROVE SinGanadora'
  BY <1>7, SigueSinGanadora DEF Validar, SinGanadora, Responde
<1>8. ASSUME NEW p \in Peticiones, Vender(p) PROVE SinGanadora'
  BY <1>8, SigueSinGanadora DEF Vender, SinGanadora, Responde
<1>9. ASSUME NEW p \in Peticiones, Numerar(p) PROVE SinGanadora'
  BY <1>9, SigueSinGanadora DEF Numerar, SinGanadora
<1>10. ASSUME NEW p \in Peticiones, Persistir(p) PROVE SinGanadora'
  <2>1. CASE venta' = venta /\ \E paso \in {"compensar", "compensarDup"} : Va(p, paso)
    BY <1>10, <2>1, SigueSinGanadora
  <2>2. CASE venta' = [venta EXCEPT ![p] = "completa"] /\ Va(p, TrasPersistir(p))
    <3>1. \A q \in Peticiones : pc'[q] = IF q = p THEN TrasPersistir(p) ELSE pc[q]
      BY <2>2, OtroActor
    <3>2. \A q \in Peticiones : q # p => venta'[q] = venta[q]
      BY <2>2 DEF TypeOK
    <3>3. TrasPersistir(p) \notin AntesDeLaVenta
      BY DEF TrasPersistir
    <3>4. \A q \in Peticiones : q # p /\ pc[q] \in AntesDeLaVenta => ~MismaLlave(q, p)
      BY <1>10 DEF Persistir, LlaveExcluye, PasosCrear
    <3>5. \A q \in Peticiones : q # p /\ PorLlave(q) = {} /\ ~MismaLlave(q, p) => PorLlave(q)' = {}
      BY <3>2 DEF PorLlave, MismaLlave, ConLlave
    <3> QED
      BY <3>1, <3>3, <3>4, <3>5 DEF SinGanadora
  <2> QED
    BY <1>10, <2>1, <2>2 DEF Persistir
<1>11. ASSUME NEW p \in Peticiones, Consumir(p) PROVE SinGanadora'
  BY <1>11, SigueSinGanadora DEF Consumir
<1>12. ASSUME NEW p \in Peticiones, Deshacer(p) PROVE SinGanadora'
  BY <1>12, SigueSinGanadora DEF Deshacer, TypeOK, Responde
<1>13. ASSUME NEW p \in Peticiones, CrearCxc(p) PROVE SinGanadora'
  BY <1>13, SigueSinGanadora DEF CrearCxc, Responde
<1>14. ASSUME NEW p \in Peticiones, Asentar(p) PROVE SinGanadora'
  BY <1>14, SigueSinGanadora DEF Asentar, Responde
<1>15. ASSUME NEW p \in Peticiones, Compensar(p) PROVE SinGanadora'
  BY <1>15, SigueSinGanadora DEF Compensar, Responde
<1>16. ASSUME NEW p \in Peticiones, CompensarDup(p) PROVE SinGanadora'
  BY <1>16, SigueSinGanadora DEF CompensarDup
<1>17. ASSUME NEW p \in Peticiones, BuscarGanadora(p) PROVE SinGanadora'
  BY <1>17, SigueSinGanadora DEF BuscarGanadora, Responde
<1>18. ASSUME NEW p \in Peticiones, SoltarLlave(p) PROVE SinGanadora'
  BY <1>18, SigueSinGanadora DEF SoltarLlave
<1>19. ASSUME NEW v \in Anuladores, ElegirVenta(v) PROVE SinGanadora'
  BY <1>19, SigueSinGanadora DEF ElegirVenta
<1>20. ASSUME NEW v \in Anuladores, TomarVenta(v) PROVE SinGanadora'
  BY <1>20, SigueSinGanadora DEF TomarVenta, TypeOK
<1>21. ASSUME NEW v \in Anuladores, CancelarCredito(v) PROVE SinGanadora'
  BY <1>21, SigueSinGanadora DEF CancelarCredito
<1>22. ASSUME NEW v \in Anuladores, ReponerVenta(v) PROVE SinGanadora'
  BY <1>22, SigueSinGanadora DEF ReponerVenta
<1>23. ASSUME NEW v \in Anuladores, ReversarLibro(v) PROVE SinGanadora'
  BY <1>23, SigueSinGanadora DEF ReversarLibro
<1>24. ASSUME NEW v \in Anuladores, RevertirSaldo(v) PROVE SinGanadora'
  BY <1>24, SigueSinGanadora DEF RevertirSaldo
<1>25. ASSUME NEW k \in Llaves, Envejece(k) PROVE SinGanadora'
  BY <1>25 DEF Envejece, SinGanadora, PorLlave
<1>26. ASSUME NEW p \in Actores, Corte(p) PROVE SinGanadora'
  BY <1>26, SigueSinGanadora DEF Corte
<1>27. ASSUME UNCHANGED vars PROVE SinGanadora'
  BY <1>27 DEF vars, SinGanadora, PorLlave
<1>28. ASSUME NEW v \in Anuladores, RestaurarCredito(v) PROVE SinGanadora'
  BY <1>28, SigueSinGanadora DEF RestaurarCredito
<1>29. ASSUME NEW v \in Anuladores, DeshacerFlip(v) PROVE SinGanadora'
  BY <1>29, SigueSinGanadora DEF DeshacerFlip
<1> QED
  BY <1>1, <1>2, <1>3, <1>4, <1>5, <1>6, <1>7, <1>8, <1>9, <1>10, <1>11, <1>12, <1>13,
     <1>14, <1>15, <1>16, <1>17, <1>18, <1>19, <1>20, <1>21, <1>22, <1>23, <1>24, <1>25,
     <1>26, <1>27, <1>28, <1>29
   DEF Next, Sigue, Anula

\* A step that gives no number, of an actor that is not about to persist.
LEMMA NumerosSiguen ==
    ASSUME TypeOK, SinHuecos, NEW a \in Actores, NEW paso, Va(a, paso), pc[a] # "persistir",
           consecutivo' = consecutivo, numero' = numero,
           \A q \in Peticiones : venta[q] # "no" => venta'[q] # "no"
    PROVE  SinHuecos'
<1>1. \A q \in Peticiones : pc[q] = "persistir" => pc'[q] = "persistir"
  BY OtroActor DEF Actores
<1> QED
  BY <1>1 DEF SinHuecos

\* A charge that is given its number is persisted: nothing fails or is killed
\* between both, and no sale is deleted.
PersisteSiempre ==
    /\ SinSaldo
    /\ "persistir" \notin Fallan \cup Cortan

LEMMA SinHuecosPaso ==
    ASSUME PersisteSiempre
    PROVE  TypeOK /\ Etapas /\ SinGanadora /\ SinHuecos /\ [Next]_vars => SinHuecos'
<1> SUFFICES ASSUME TypeOK, Etapas, SinGanadora, SinHuecos, [Next]_vars PROVE SinHuecos'
  OBVIOUS
<1> USE DEF Actores
<1>1. ASSUME NEW p \in Peticiones, Pedir(p) PROVE SinHuecos'
  BY <1>1, NumerosSiguen DEF Pedir
<1>2. ASSUME NEW p \in Peticiones, Previa(p) PROVE SinHuecos'
  BY <1>2, NumerosSiguen DEF Previa
<1>3. ASSUME NEW p \in Peticiones, TomarCandado(p) PROVE SinHuecos'
  BY <1>3, NumerosSiguen DEF TomarCandado
<1>4. ASSUME NEW p \in Peticiones, Robar(p) PROVE SinHuecos'
  BY <1>4, NumerosSiguen DEF Robar
<1>5. ASSUME NEW p \in Peticiones, Ganadora(p) PROVE SinHuecos'
  BY <1>5, NumerosSiguen DEF Ganadora
<1>6. ASSUME NEW p \in Peticiones, Revisar(p) PROVE SinHuecos'
  BY <1>6, NumerosSiguen DEF Revisar, Responde
<1>7. ASSUME NEW p \in Peticiones, Validar(p) PROVE SinHuecos'
  BY <1>7, NumerosSiguen DEF Validar, Responde
<1>8. ASSUME NEW p \in Peticiones, Vender(p) PROVE SinHuecos'
  BY <1>8, NumerosSiguen DEF Vender, Responde
<1>9. ASSUME NEW p \in Peticiones, Numerar(p) PROVE SinHuecos'
  <2>1. CASE numero' = numero /\ consecutivo' = consecutivo
    BY <1>9, <2>1, NumerosSiguen DEF Numerar
  <2>2. CASE Va(p, "persistir") /\ numero' = [numero EXCEPT ![p] = consecutivo + 1] /\ consecutivo' = consecutivo + 1
    <3>1. \A q \in Peticiones : pc'[q] = IF q = p THEN "persistir" ELSE pc[q]
      BY <2>2, OtroActor
    <3>2. \A q \in Peticiones : numero'[q] = IF q = p THEN consecutivo + 1 ELSE numero[q]
      BY <2>2 DEF TypeOK
    <3>3. venta' = venta /\ venta[p] = "no" /\ pc[p] # "persistir"
      BY <1>9 DEF Numerar, Etapas, SinVenta
    <3>4. consecutivo \in Nat /\ \A n \in 1..consecutivo' : n \in 1..consecutivo \/ n = consecutivo + 1
      BY <2>2 DEF TypeOK
    <3>5. \A n \in 1..consecutivo : \E q \in Peticiones : q # p /\ numero[q] = n /\ (venta[q] # "no" \/ pc[q] = "persistir")
      BY <3>3 DEF SinHuecos
    <3>6. ASSUME NEW n \in 1..consecutivo'
          PROVE  \E q \in Peticiones : numero'[q] = n /\ (venta'[q] # "no" \/ pc'[q] = "persistir")
      <4>1. CASE n \in 1..consecutivo
        BY <3>1, <3>2, <3>3, <3>5, <4>1
      <4>2. CASE n = consecutivo + 1
        BY <3>1, <3>2, <4>2
      <4> QED
        BY <3>4, <4>1, <4>2
    <3> QED
      BY <3>6 DEF SinHuecos
  <2> QED
    BY <1>9, <2>1, <2>2 DEF Numerar
<1>10. ASSUME NEW p \in Peticiones, Persistir(p) PROVE SinHuecos'
  <2>1. venta' = [venta EXCEPT ![p] = "completa"] /\ Va(p, TrasPersistir(p))
    BY <1>10 DEF Persistir, SinGanadora, AntesDeLaVenta, PersisteSiempre, Falla
  <2>2. \A q \in Peticiones : pc'[q] = IF q = p THEN TrasPersistir(p) ELSE pc[q]
    BY <2>1, OtroActor
  <2>3. \A q \in Peticiones : venta'[q] = IF q = p THEN "completa" ELSE venta[q]
    BY <2>1 DEF TypeOK
  <2>4. consecutivo' = consecutivo /\ numero' = numero
    BY <1>10 DEF Persistir
  <2> QED
    BY <2>2, <2>3, <2>4 DEF SinHuecos
<1>11. ASSUME NEW p \in Peticiones, Consumir(p) PROVE SinHuecos'
  BY <1>11, NumerosSiguen DEF Consumir
<1>12. ASSUME NEW p \in Peticiones, Deshacer(p) PROVE SinHuecos'
  BY <1>12 DEF Deshacer, Etapas, SinSaldo, PersisteSiempre
<1>13. ASSUME NEW p \in Peticiones, CrearCxc(p) PROVE SinHuecos'
  BY <1>13, NumerosSiguen DEF CrearCxc, Responde
<1>14. ASSUME NEW p \in Peticiones, Asentar(p) PROVE SinHuecos'
  BY <1>14, NumerosSiguen DEF Asentar, Responde
<1>15. ASSUME NEW p \in Peticiones, Compensar(p) PROVE SinHuecos'
  BY <1>15, NumerosSiguen DEF Compensar, Responde
<1>16. ASSUME NEW p \in Peticiones, CompensarDup(p) PROVE SinHuecos'
  BY <1>16, NumerosSiguen DEF CompensarDup
<1>17. ASSUME NEW p \in Peticiones, BuscarGanadora(p) PROVE SinHuecos'
  BY <1>17, NumerosSiguen DEF BuscarGanadora, Responde
<1>18. ASSUME NEW p \in Peticiones, SoltarLlave(p) PROVE SinHuecos'
  BY <1>18, NumerosSiguen DEF SoltarLlave
<1>19. ASSUME NEW v \in Anuladores, ElegirVenta(v) PROVE SinHuecos'
  BY <1>19, NumerosSiguen DEF ElegirVenta
<1>20. ASSUME NEW v \in Anuladores, TomarVenta(v) PROVE SinHuecos'
  BY <1>20, NumerosSiguen DEF TomarVenta, TypeOK
<1>21. ASSUME NEW v \in Anuladores, CancelarCredito(v) PROVE SinHuecos'
  BY <1>21, NumerosSiguen DEF CancelarCredito
<1>22. ASSUME NEW v \in Anuladores, ReponerVenta(v) PROVE SinHuecos'
  BY <1>22, NumerosSiguen DEF ReponerVenta
<1>23. ASSUME NEW v \in Anuladores, ReversarLibro(v) PROVE SinHuecos'
  BY <1>23, NumerosSiguen DEF ReversarLibro
<1>24. ASSUME NEW v \in Anuladores, RevertirSaldo(v) PROVE SinHuecos'
  BY <1>24, NumerosSiguen DEF RevertirSaldo
<1>25. ASSUME NEW k \in Llaves, Envejece(k) PROVE SinHuecos'
  BY <1>25 DEF Envejece, SinHuecos
<1>26. ASSUME NEW p \in Actores, Corte(p) PROVE SinHuecos'
  BY <1>26, NumerosSiguen DEF Corte, PersisteSiempre
<1>27. ASSUME UNCHANGED vars PROVE SinHuecos'
  BY <1>27 DEF vars, SinHuecos
<1>28. ASSUME NEW v \in Anuladores, RestaurarCredito(v) PROVE SinHuecos'
  BY <1>28, NumerosSiguen DEF RestaurarCredito
<1>29. ASSUME NEW v \in Anuladores, DeshacerFlip(v) PROVE SinHuecos'
  BY <1>29, NumerosSiguen DEF DeshacerFlip
<1> QED
  BY <1>1, <1>2, <1>3, <1>4, <1>5, <1>6, <1>7, <1>8, <1>9, <1>10, <1>11, <1>12, <1>13,
     <1>14, <1>15, <1>16, <1>17, <1>18, <1>19, <1>20, <1>21, <1>22, <1>23, <1>24, <1>25,
     <1>26, <1>27, <1>28, <1>29
   DEF Next, Sigue, Anula

\* The series has no gap while a numbered charge is always persisted: with the
\* key excluding, the unique index never rejects a numbered duplicate.
THEOREM SerieSiempreSinHuecos ==
    ASSUME ~Lentas, PersisteSiempre
    PROVE  Spec => []SinHuecos
<1> DEFINE Inv == TypeOK /\ ConDueno /\ Etapas /\ SinGanadora /\ SinHuecos
<1>1. Init => Inv
  <2> SUFFICES ASSUME Init PROVE Inv
    OBVIOUS
  <2>1. SinGanadora
    BY DEF Init, SinGanadora, AntesDeLaVenta, Actores
  <2>2. SinHuecos
    BY DEF Init, SinHuecos
  <2> QED
    BY <2>1, <2>2, TipoInicial, DuenoInicial, EtapasInicio
<1>2. ConDueno => LlaveExcluye
  BY DEF ConDueno, LlaveExcluye, MismaLlave, ConLlave
<1>3. Inv /\ [Next]_vars => Inv'
  BY <1>2, TiposPaso, DuenoPaso, EtapasPaso, SinGanadoraPaso, SinHuecosPaso DEF PersisteSiempre
<1>4. Inv => SinHuecos
  OBVIOUS
<1> QED
  BY <1>1, <1>3, <1>4, PTL DEF Spec

-----------------------------------------------------------------------------
(* The charge of a sale and its entry.                                       *)
CobroPendiente ==
    \A p \in Peticiones :
        /\ pc[p] \in {"consumir", "deshacer", "cxc"} => pago[p] = "no"
        /\ pc[p] = "asentar" /\ Medio[p] # "contado" => pago[p] # "no"

\* A step that neither charges nor accounts, of an actor that does not go on to
\* charge or to account, and that deletes no charged sale.
LEMMA CobroSigue ==
    ASSUME TypeOK, CobroYAsiento, CobroPendiente, NEW a \in Actores, NEW paso, Va(a, paso),
           paso \notin {"consumir", "deshacer", "cxc", "asentar"}, asiento' = asiento,
           \A q \in Peticiones : pago'[q] = "no" <=> pago[q] = "no",
           \A q \in Peticiones : pago[q] # "no" /\ venta[q] # "no" => venta'[q] # "no"
    PROVE  CobroYAsiento' /\ CobroPendiente'
<1>1. \A q \in Peticiones : pc'[q] = IF q = a THEN paso ELSE pc[q]
  BY OtroActor DEF Actores
<1>2. CobroPendiente'
  BY <1>1 DEF CobroPendiente
<1>3. CobroYAsiento'
  BY DEF CobroYAsiento
<1> QED
  BY <1>2, <1>3

LEMMA CobroPaso ==
    TypeOK /\ Etapas /\ CobroYAsiento /\ CobroPendiente /\ [Next]_vars
      => CobroYAsiento' /\ CobroPendiente'
<1> SUFFICES ASSUME TypeOK, Etapas, CobroYAsiento, CobroPendiente, [Next]_vars
             PROVE  CobroYAsiento' /\ CobroPendiente'
  OBVIOUS
<1> USE DEF Actores
<1>1. ASSUME NEW p \in Peticiones, Pedir(p)
      PROVE  CobroYAsiento' /\ CobroPendiente'
  BY <1>1, CobroSigue DEF Pedir
<1>2. ASSUME NEW p \in Peticiones, Previa(p)
      PROVE  CobroYAsiento' /\ CobroPendiente'
  BY <1>2, CobroSigue DEF Previa
<1>3. ASSUME NEW p \in Peticiones, TomarCandado(p)
      PROVE  CobroYAsiento' /\ CobroPendiente'
  BY <1>3, CobroSigue DEF TomarCandado
<1>4. ASSUME NEW p \in Peticiones, Robar(p)
      PROVE  CobroYAsiento' /\ CobroPendiente'
  BY <1>4, CobroSigue DEF Robar
<1>5. ASSUME NEW p \in Peticiones, Ganadora(p)
      PROVE  CobroYAsiento' /\ CobroPendiente'
  BY <1>5, CobroSigue DEF Ganadora
<1>6. ASSUME NEW p \in Peticiones, Revisar(p)
      PROVE  CobroYAsiento' /\ CobroPendiente'
  BY <1>6, CobroSigue DEF Revisar, Responde
<1>7. ASSUME NEW p \in Peticiones, Validar(p)
      PROVE  CobroYAsiento' /\ CobroPendiente'
  BY <1>7, CobroSigue DEF Validar, Responde
<1>8. ASSUME NEW p \in Peticiones, Vender(p)
      PROVE  CobroYAsiento' /\ CobroPendiente'
  BY <1>8, CobroSigue DEF Vender, Responde
<1>9. ASSUME NEW p \in Peticiones, Numerar(p)
      PROVE  CobroYAsiento' /\ CobroPendiente'
  BY <1>9, CobroSigue DEF Numerar
<1>10. ASSUME NEW p \in Peticiones, Persistir(p)
      PROVE  CobroYAsiento' /\ CobroPendiente'
  <2>1. CASE venta' = venta /\ \E paso \in {"compensar", "compensarDup"} : Va(p, paso)
    BY <1>10, <2>1, CobroSigue DEF Persistir
  <2>2. CASE venta' = [venta EXCEPT ![p] = "completa"] /\ Va(p, TrasPersistir(p))
    <3>1. \A q \in Peticiones : pc'[q] = IF q = p THEN TrasPersistir(p) ELSE pc[q]
      BY <2>2, OtroActor
    <3>2. \A q \in Peticiones : venta'[q] = IF q = p THEN "completa" ELSE venta[q]
      BY <2>2 DEF TypeOK
    <3>3. venta[p] = "no" /\ pago' = pago /\ asiento' = asiento
      BY <1>10 DEF Persistir, Etapas, SinVenta
    <3>4. pago[p] = "no"
      BY <3>3 DEF CobroYAsiento
    <3>5. TrasPersistir(p) = "asentar" => Medio[p] = "contado"
      BY DEF TrasPersistir
    <3>6. CobroPendiente'
      BY <3>1, <3>3, <3>4, <3>5 DEF CobroPendiente
    <3>7. CobroYAsiento'
      BY <3>2, <3>3 DEF CobroYAsiento
    <3> QED
      BY <3>6, <3>7
  <2> QED
    BY <1>10, <2>1, <2>2 DEF Persistir
<1>11. ASSUME NEW p \in Peticiones, Consumir(p)
      PROVE  CobroYAsiento' /\ CobroPendiente'
  <2>1. CASE pago' = [pago EXCEPT ![p] = "si"] /\ Va(p, "asentar")
    <3>1. \A q \in Peticiones : pc'[q] = IF q = p THEN "asentar" ELSE pc[q]
      BY <2>1, OtroActor
    <3>2. \A q \in Peticiones : pago'[q] = IF q = p THEN "si" ELSE pago[q]
      BY <2>1 DEF TypeOK
    <3>3. venta[p] # "no" /\ venta' = venta /\ asiento' = asiento
      BY <1>11 DEF Consumir, Etapas, ConVenta
    <3>4. CobroPendiente'
      BY <3>1, <3>2 DEF CobroPendiente
    <3>5. CobroYAsiento'
      BY <3>2, <3>3 DEF CobroYAsiento
    <3> QED
      BY <3>4, <3>5
  <2>2. CASE pago' = pago /\ Va(p, "deshacer")
    <3>1. \A q \in Peticiones : pc'[q] = IF q = p THEN "deshacer" ELSE pc[q]
      BY <2>2, OtroActor
    <3>2. pago[p] = "no" /\ venta' = venta /\ asiento' = asiento
      BY <1>11 DEF Consumir, CobroPendiente
    <3>3. CobroPendiente'
      BY <2>2, <3>1, <3>2 DEF CobroPendiente
    <3>4. CobroYAsiento'
      BY <2>2, <3>2 DEF CobroYAsiento
    <3> QED
      BY <3>3, <3>4
  <2> QED
    BY <1>11, <2>1, <2>2 DEF Consumir
<1>12. ASSUME NEW p \in Peticiones, Deshacer(p)
      PROVE  CobroYAsiento' /\ CobroPendiente'
  <2>1. pago[p] = "no" /\ pago' = pago /\ asiento' = asiento
    BY <1>12 DEF Deshacer, CobroPendiente
  <2>2. \A q \in Peticiones : q # p => venta'[q] = venta[q]
    BY <1>12 DEF Deshacer, TypeOK
  <2> QED
    BY <1>12, <2>1, <2>2, CobroSigue DEF Deshacer, Responde
<1>13. ASSUME NEW p \in Peticiones, CrearCxc(p)
      PROVE  CobroYAsiento' /\ CobroPendiente'
  <2>1. CASE pago' = [pago EXCEPT ![p] = "si"] /\ Va(p, "asentar")
    <3>1. \A q \in Peticiones : pc'[q] = IF q = p THEN "asentar" ELSE pc[q]
      BY <2>1, OtroActor
    <3>2. \A q \in Peticiones : pago'[q] = IF q = p THEN "si" ELSE pago[q]
      BY <2>1 DEF TypeOK
    <3>3. venta[p] # "no" /\ venta' = venta /\ asiento' = asiento
      BY <1>13 DEF CrearCxc, Etapas, ConVenta
    <3>4. CobroPendiente'
      BY <3>1, <3>2 DEF CobroPendiente
    <3>5. CobroYAsiento'
      BY <3>2, <3>3 DEF CobroYAsiento
    <3> QED
      BY <3>4, <3>5
  <2>2. CASE pago' = pago /\ Responde(p, "error")
    BY <1>13, <2>2, CobroSigue DEF CrearCxc, Responde
  <2> QED
    BY <1>13, <2>1, <2>2 DEF CrearCxc
<1>14. ASSUME NEW p \in Peticiones, Asentar(p)
      PROVE  CobroYAsiento' /\ CobroPendiente'
  <2>1. \A q \in Peticiones : pc'[q] = IF q = p THEN (IF ConLlave(p) THEN "soltar" ELSE "fin") ELSE pc[q]
    BY <1>14, OtroActor DEF Asentar, Responde
  <2>2. \A q \in Peticiones : q # p => asiento'[q] = asiento[q]
    BY <1>14 DEF Asentar, TypeOK
  <2>3. pago' = pago /\ venta' = venta /\ (Medio[p] # "contado" => pago[p] # "no")
    BY <1>14 DEF Asentar, CobroPendiente
  <2>4. CobroPendiente'
    BY <2>1, <2>3 DEF CobroPendiente
  <2>5. CobroYAsiento'
    BY <2>2, <2>3 DEF CobroYAsiento
  <2> QED
    BY <2>4, <2>5
<1>15. ASSUME NEW p \in Peticiones, Compensar(p)
      PROVE  CobroYAsiento' /\ CobroPendiente'
  BY <1>15, CobroSigue DEF Compensar, Responde
<1>16. ASSUME NEW p \in Peticiones, CompensarDup(p)
      PROVE  CobroYAsiento' /\ CobroPendiente'
  BY <1>16, CobroSigue DEF CompensarDup
<1>17. ASSUME NEW p \in Peticiones, BuscarGanadora(p)
      PROVE  CobroYAsiento' /\ CobroPendiente'
  BY <1>17, CobroSigue DEF BuscarGanadora, Responde
<1>18. ASSUME NEW p \in Peticiones, SoltarLlave(p)
      PROVE  CobroYAsiento' /\ CobroPendiente'
  BY <1>18, CobroSigue DEF SoltarLlave
<1>19. ASSUME NEW v \in Anuladores, ElegirVenta(v)
      PROVE  CobroYAsiento' /\ CobroPendiente'
  BY <1>19, CobroSigue DEF ElegirVenta
<1>20. ASSUME NEW v \in Anuladores, TomarVenta(v)
      PROVE  CobroYAsiento' /\ CobroPendiente'
  <2>1. \A q \in Peticiones : venta[q] # "no" => venta'[q] # "no"
    BY <1>20 DEF TomarVenta, TypeOK
  <2> QED
    BY <1>20, <2>1, CobroSigue DEF TomarVenta
<1>21. ASSUME NEW v \in Anuladores, CancelarCredito(v)
      PROVE  CobroYAsiento' /\ CobroPendiente'
  <2>1. \A q \in Peticiones : pago'[q] = "no" <=> pago[q] = "no"
    BY <1>21 DEF CancelarCredito, TypeOK
  <2> QED
    BY <1>21, <2>1, CobroSigue DEF CancelarCredito
<1>22. ASSUME NEW v \in Anuladores, ReponerVenta(v)
      PROVE  CobroYAsiento' /\ CobroPendiente'
  BY <1>22, CobroSigue DEF ReponerVenta
<1>23. ASSUME NEW v \in Anuladores, ReversarLibro(v)
      PROVE  CobroYAsiento' /\ CobroPendiente'
  <2>1. \A q \in Peticiones : asiento'[q] = "no" <=> asiento[q] = "no"
    BY <1>23 DEF ReversarLibro, TypeOK
  <2>2. pago' = pago /\ venta' = venta /\ \A q \in Peticiones : pc'[q] = pc[q]
    BY <1>23, OtroActor DEF ReversarLibro
  <2> QED
    BY <2>1, <2>2 DEF CobroYAsiento, CobroPendiente
<1>24. ASSUME NEW v \in Anuladores, RevertirSaldo(v)
      PROVE  CobroYAsiento' /\ CobroPendiente'
  <2>1. \A q \in Peticiones : pago'[q] = "no" <=> pago[q] = "no"
    BY <1>24 DEF RevertirSaldo, TypeOK
  <2> QED
    BY <1>24, <2>1, CobroSigue DEF RevertirSaldo
<1>25. ASSUME NEW v \in Anuladores, RestaurarCredito(v)
      PROVE  CobroYAsiento' /\ CobroPendiente'
  <2>1. \A q \in Peticiones : pago'[q] = "no" <=> pago[q] = "no"
    BY <1>25 DEF RestaurarCredito, TypeOK
  <2> QED
    BY <1>25, <2>1, CobroSigue DEF RestaurarCredito
<1>26. ASSUME NEW v \in Anuladores, DeshacerFlip(v)
      PROVE  CobroYAsiento' /\ CobroPendiente'
  <2>1. \A q \in Peticiones : venta[q] # "no" => venta'[q] # "no"
    BY <1>26 DEF DeshacerFlip, TypeOK
  <2> QED
    BY <1>26, <2>1, CobroSigue DEF DeshacerFlip
<1>27. ASSUME NEW k \in Llaves, Envejece(k)
      PROVE  CobroYAsiento' /\ CobroPendiente'
  BY <1>27 DEF Envejece, CobroYAsiento, CobroPendiente
<1>28. ASSUME NEW p \in Actores, Corte(p)
      PROVE  CobroYAsiento' /\ CobroPendiente'
  BY <1>28, CobroSigue DEF Corte
<1>29. ASSUME UNCHANGED vars
      PROVE  CobroYAsiento' /\ CobroPendiente'
  BY <1>29 DEF vars, CobroYAsiento, CobroPendiente
<1> QED
  BY <1>1, <1>2, <1>3, <1>4, <1>5, <1>6, <1>7, <1>8, <1>9, <1>10, <1>11, <1>12, <1>13,
     <1>14, <1>15, <1>16, <1>17, <1>18, <1>19, <1>20, <1>21, <1>22, <1>23, <1>24, <1>25,
     <1>26, <1>27, <1>28, <1>29 DEF Next, Sigue, Anula

\* Whatever fails and whoever dies, no charge is left of a sale that was
\* deleted, and no entry of a charge to balance or on credit that was not taken.
THEOREM CobroYAsientoSiempre == Spec => []CobroYAsiento
<1>1. Init => TypeOK /\ Etapas /\ CobroYAsiento /\ CobroPendiente
  BY TipoInicial, EtapasInicio DEF Init, CobroYAsiento, CobroPendiente, Actores
<1>2. (TypeOK /\ Etapas /\ CobroYAsiento /\ CobroPendiente) /\ [Next]_vars
        => (TypeOK /\ Etapas /\ CobroYAsiento /\ CobroPendiente)'
  BY TiposPaso, EtapasPaso, CobroPaso
<1> QED
  BY <1>1, <1>2, PTL DEF Spec

-----------------------------------------------------------------------------
(* The units of every charge, and the promise.                               *)

\* With the key excluding, no request finds its sale made by another.
SinDuplicados == \A p \in Peticiones : pc[p] \notin {"compensarDup", "buscarGanadora"}

LEMMA DuplicadosPaso ==
    ASSUME TypeOK, SinGanadora, SinDuplicados, [Next]_vars PROVE SinDuplicados'
<1> USE DEF SinDuplicados, Actores
<1>1. ASSUME NEW a \in Actores, NEW paso, Va(a, paso),
             paso \notin {"compensarDup", "buscarGanadora"}
      PROVE  SinDuplicados'
  BY <1>1, OtroActor
<1>2. ASSUME NEW p \in Peticiones, Pedir(p) \/ Sigue(p) PROVE SinDuplicados'
  <2>1. CASE Pedir(p) \/ Previa(p) \/ TomarCandado(p) \/ Robar(p) \/ Ganadora(p) \/ Revisar(p)
    BY <2>1, <1>1 DEF Pedir, Previa, TomarCandado, Robar, Ganadora, Revisar, Responde
  <2>2. CASE Validar(p) \/ Vender(p) \/ Numerar(p) \/ Consumir(p) \/ Deshacer(p) \/ CrearCxc(p)
    BY <2>2, <1>1 DEF Validar, Vender, Numerar, Consumir, Deshacer, CrearCxc, Responde
  <2>3. CASE Persistir(p)
    BY <2>3, <1>1 DEF Persistir, SinGanadora, AntesDeLaVenta, TrasPersistir
  <2>4. CASE Asentar(p) \/ Compensar(p) \/ CompensarDup(p) \/ BuscarGanadora(p) \/ SoltarLlave(p)
    BY <2>4, <1>1 DEF Asentar, Compensar, CompensarDup, BuscarGanadora, SoltarLlave, Responde
  <2> QED
    BY <1>2, <2>1, <2>2, <2>3, <2>4 DEF Sigue
<1>3. ASSUME NEW v \in Anuladores, ElegirVenta(v) \/ Anula(v) PROVE SinDuplicados'
  BY <1>3, <1>1 DEF ElegirVenta, Anula, TomarVenta, CancelarCredito, ReponerVenta, RestaurarCredito,
     DeshacerFlip, ReversarLibro, RevertirSaldo
<1>4. ASSUME NEW k \in Llaves, Envejece(k) PROVE SinDuplicados'
  BY <1>4 DEF Envejece
<1>5. ASSUME NEW p \in Actores, Corte(p) PROVE SinDuplicados'
  BY <1>5, <1>1 DEF Corte
<1>6. CASE UNCHANGED vars
  BY <1>6 DEF vars
<1> QED
  BY <1>2, <1>3, <1>4, <1>5, <1>6 DEF Next

\* The units left are never less than none.
HayUnidades == stock >= 0

LEMMA UnidadesPaso == ASSUME TypeOK, HayUnidades, [Next]_vars PROVE HayUnidades'
<1> USE DEF HayUnidades, TypeOK
<1>1. \/ stock' = stock
      \/ \E p \in Peticiones : Vender(p) \/ Compensar(p) \/ CompensarDup(p)
      \/ \E v \in Anuladores : ReponerVenta(v)
  BY DEF Next, Sigue, Anula, vars, Pedir, Previa, TomarCandado, Robar, Ganadora, Revisar, Validar,
     Numerar, Persistir, Consumir, Deshacer, CrearCxc, Asentar, BuscarGanadora, SoltarLlave,
     ElegirVenta, TomarVenta, CancelarCredito, RestaurarCredito, DeshacerFlip, ReversarLibro,
     RevertirSaldo, Envejece, Corte
<1>2. ASSUME NEW p \in Peticiones, Vender(p) PROVE HayUnidades'
  BY <1>2 DEF Vender, Salen
<1>3. ASSUME NEW p \in Peticiones, Compensar(p) \/ CompensarDup(p) PROVE HayUnidades'
  BY <1>3 DEF Compensar, CompensarDup, Vuelven
<1>4. ASSUME NEW v \in Anuladores, ReponerVenta(v) PROVE HayUnidades'
  <2>1. obj[v] \in Peticiones /\ Cuanto[obj[v]] \in Nat
    OBVIOUS
  <2> QED
    BY <1>4, <2>1 DEF ReponerVenta, Vuelven
<1> QED
  BY <1>1, <1>2, <1>3, <1>4

\* What every step preserves of the units, the sales and the voids.
Respaldo ==
    /\ TypeOK /\ Etapas /\ AnulacionesVivas /\ SinAnuladas /\ HayUnidades
    /\ DuplicadoConGanadora /\ StockRespaldado

LEMMA RespaldoInicial == ASSUME Init PROVE Respaldo
<1>1. \A a \in Actores : pc[a] = "libre"
  BY DEF Init
<1>2. AnulacionesVivas /\ DuplicadoConGanadora
  BY <1>1 DEF AnulacionesVivas, DuplicadoConGanadora, Repone, Actores
<1>3. StockRespaldado /\ SinAnuladas /\ HayUnidades
  BY <1>1 DEF Init, StockRespaldado, EnMano, Anulandose, Actores, SinAnuladas, HayUnidades
<1> QED
  BY <1>2, <1>3, TipoInicial, EtapasInicio DEF Respaldo

\* Without the balance a duplicate finds the sale that won, for none is deleted; with
\* it, and requests that do not outlive their lock, there are no duplicates.
LEMMA RespaldoSiempre == ASSUME SinMermas PROVE Spec => []Respaldo
<1>1. CASE SinSaldo
  <2>1. Respaldo /\ [Next]_vars => Respaldo'
    BY <1>1, TiposPaso, EtapasPaso, AnulacionesPaso, AnuladasPaso, UnidadesPaso, GanadorasPaso,
       RespaldoPaso DEF Respaldo
  <2> QED
    BY <2>1, RespaldoInicial, PTL DEF Spec
<1>2. CASE ~Lentas /\ Anuladores = {}
  <2> DEFINE Inv == Respaldo /\ ConDueno /\ SinGanadora /\ SinDuplicados
  <2>1. Init => Inv
    <3>1. Init => \A a \in Actores : pc[a] = "libre"
      BY DEF Init
    <3> QED
      BY <3>1, RespaldoInicial, DuenoInicial
         DEF SinGanadora, SinDuplicados, AntesDeLaVenta, Actores
  <2>2. ConDueno => LlaveExcluye
    BY DEF ConDueno, LlaveExcluye, MismaLlave, ConLlave
  <2>3. SinDuplicados => DuplicadoConGanadora
    BY DEF SinDuplicados, DuplicadoConGanadora
  <2>4. Inv /\ [Next]_vars => Inv'
    <3> SUFFICES ASSUME Inv, [Next]_vars PROVE Inv'
      OBVIOUS
    <3>1. ConDueno' /\ SinGanadora' /\ SinDuplicados'
      BY <1>2, <2>2, DuenoPaso, SinGanadoraPaso, DuplicadosPaso DEF Respaldo
    <3>2. DuplicadoConGanadora'
      BY <3>1 DEF SinDuplicados, DuplicadoConGanadora
    <3> QED
      BY <1>2, <3>1, <3>2, TiposPaso, EtapasPaso, AnulacionesPaso, AnuladasPaso, UnidadesPaso,
         RespaldoPaso DEF Respaldo
  <2>5. Inv => Respaldo
    OBVIOUS
  <2> QED
    BY <2>1, <2>4, <2>5, PTL DEF Spec
<1> QED
  BY <1>1, <1>2 DEF SinMermas

\* The units of every charge are out exactly while they have a request, a sale
\* or a void behind them, in every interleaving of charges, voids and failures
\* of the calls before the sale (stock.sell, rollbackSoldStock, reverseSale).
THEOREM StockSiempreRespaldado ==
    ASSUME SinMermas
    PROVE  Spec => []StockRespaldado
<1>1. Respaldo => StockRespaldado
  BY DEF Respaldo
<1> QED
  BY <1>1, RespaldoSiempre, PTL

\* Taking in or out one request of what is on its way.
LEMMA CaminoSuma ==
    ASSUME NEW S \in SUBSET Peticiones, NEW p \in Peticiones, p \notin S
    PROVE  /\ SumFunctionOnSet(Cuanto, S) \in Nat
           /\ SumFunctionOnSet(Cuanto, S \cup {p}) = SumFunctionOnSet(Cuanto, S) + Cuanto[p]
<1>1. /\ IsFiniteSet(S) /\ IsFiniteSet(S \cup {p}) /\ (S \cup {p}) \ {p} = S
      /\ \A q \in S \cup {p} : Cuanto[q] \in Nat /\ Cuanto[q] \in Int
  BY FS_Subset
<1>2. SumFunctionOnSet(Cuanto, S) \in Nat
  BY <1>1, SumaNatural
<1>3. SumFunctionOnSet(Cuanto, S \cup {p})
        = Cuanto[p] + SumFunctionOnSet(Cuanto, (S \cup {p}) \ {p})
  BY <1>1, SumaQuita
<1> QED
  BY <1>1, <1>2, <1>3

LEMMA Entra ==
    ASSUME NEW p \in Peticiones, p \notin EnCamino, EnCamino' = EnCamino \cup {p},
           stock \in Int, stock' \in Int
    PROVE  Disponible' = Disponible + (stock' - stock) + Cuanto[p]
<1>1. EnCamino \in SUBSET Peticiones
  BY DEF EnCamino
<1>2. /\ SumFunctionOnSet(Cuanto, EnCamino) \in Nat
      /\ SumFunctionOnSet(Cuanto, EnCamino') = SumFunctionOnSet(Cuanto, EnCamino) + Cuanto[p]
  BY <1>1, CaminoSuma
<1> QED
  BY <1>2 DEF Disponible

LEMMA Sale ==
    ASSUME NEW p \in Peticiones, p \in EnCamino, EnCamino' = EnCamino \ {p}, stock \in Nat,
           stock' \in Int
    PROVE  Disponible >= Cuanto[p] /\ Disponible' = Disponible + (stock' - stock) - Cuanto[p]
<1>1. EnCamino \ {p} \in SUBSET Peticiones /\ (EnCamino \ {p}) \cup {p} = EnCamino
  BY DEF EnCamino
<1>2. SumFunctionOnSet(Cuanto, EnCamino \ {p}) \in Nat
      /\ SumFunctionOnSet(Cuanto, EnCamino) = SumFunctionOnSet(Cuanto, EnCamino \ {p}) + Cuanto[p]
  BY <1>1, CaminoSuma
<1> QED
  BY <1>2 DEF Disponible

\* A step of a request, or of a void that holds one sale, and what is on its way.
LEMMA CaminoPeticion ==
    ASSUME TypeOK, NEW p \in Peticiones, NEW paso, Va(p, paso), obj' = obj
    PROVE  EnCamino' = {q \in Peticiones :
                          IF q = p THEN paso \in Tiene \/ Anulandose(p) ELSE q \in EnCamino}
<1>1. \A a \in Actores : pc'[a] = IF a = p THEN paso ELSE pc[a]
  BY OtroActor DEF Actores
<1>2. \A q \in Peticiones : Anulandose(q) <=> Anulandose(q)'
  BY <1>1 DEF Anulandose, Actores
<1> QED
  BY <1>1, <1>2 DEF EnCamino, EnMano, Tiene, Actores

LEMMA CaminoQuieto ==
    ASSUME TypeOK, NEW v \in Anuladores, NEW paso, Va(v, paso),
           \A w \in Anuladores : w # v => obj'[w] = obj[w],
           paso \in Repone <=> pc[v] \in Repone, pc[v] \in Repone => obj' = obj
    PROVE  EnCamino' = EnCamino
<1>1. \A a \in Actores : pc'[a] = IF a = v THEN paso ELSE pc[a]
  BY OtroActor DEF Actores
<1>2. \A q \in Peticiones : (Anulandose(q) <=> Anulandose(q)') /\ (EnMano(q) <=> EnMano(q)')
  BY <1>1 DEF Anulandose, EnMano, Repone, Actores
<1> QED
  BY <1>2 DEF EnCamino

LEMMA CaminoAnulacion ==
    ASSUME TypeOK, Etapas, AnulacionesVivas, NEW v \in Anuladores, NEW paso, Va(v, paso), obj' = obj
    PROVE  /\ paso \in Repone => EnCamino' = EnCamino \cup {obj[v]}
           /\ pc[v] \in Repone /\ paso \notin Repone =>
                obj[v] \in EnCamino /\ EnCamino' = EnCamino \ {obj[v]}
<1>1. \A a \in Actores : pc'[a] = IF a = v THEN paso ELSE pc[a]
  BY OtroActor DEF Actores
<1>2. obj[v] \in Peticiones
  BY DEF TypeOK
<1>3. \A q \in Peticiones : EnMano(q)' <=> EnMano(q)
  BY <1>1 DEF EnMano, Actores
<1>4. CASE paso \in Repone
  <2>1. \A q \in Peticiones : Anulandose(q)' <=> (Anulandose(q) \/ q = obj[v])
    BY <1>1, <1>4 DEF Anulandose, Actores, Repone
  <2> QED
    BY <1>2, <1>3, <1>4, <2>1 DEF EnCamino
<1>5. CASE pc[v] \in Repone /\ paso \notin Repone
  <2>1. venta[obj[v]] = "anulada" /\ Anulandose(obj[v])
    BY <1>5 DEF AnulacionesVivas, Repone, Anulandose
  <2>2. ~EnMano(obj[v])
    BY <1>2, <2>1 DEF EnMano, Etapas, SinVenta
  <2>3. \A q \in Peticiones : Anulandose(q)' <=> (Anulandose(q) /\ q # obj[v])
    BY <1>1, <1>5 DEF Anulandose, Actores, AnulacionesVivas, Repone
  <2> QED
    BY <1>2, <1>3, <1>5, <2>1, <2>2, <2>3 DEF EnCamino
<1> QED
  BY <1>4, <1>5

LEMMA DisponibleEntero == ASSUME TypeOK PROVE Disponible \in Int
<1>1. EnCamino \subseteq Peticiones /\ stock \in Int
  BY DEF EnCamino, TypeOK
<1>2. SumFunctionOnSet(Cuanto, EnCamino) \in Nat
  BY <1>1, FS_Subset, SumaNatural
<1> QED
  BY <1>1, <1>2 DEF Disponible

\* The steps of a charge: its sale is made with the units it has in hand, and is taken
\* back when its charge is rejected; the rest only move units between the stock and
\* its hands.
LEMMA PeticionCumple ==
    ASSUME SinMermas, Respaldo, Respaldo', NEW p \in Peticiones, Pedir(p) \/ Sigue(p)
    PROVE  Promesa!Next \/ UNCHANGED <<Disponible, venta>>
<1>t. TypeOK /\ TypeOK' /\ Etapas /\ AnulacionesVivas /\ DuplicadoConGanadora
  BY DEF Respaldo
<1>1. /\ stock \in Nat /\ stock' \in Int /\ Cuanto[p] \in Nat /\ Disponible \in Int
      /\ p \in EnCamino <=> EnMano(p) \/ Anulandose(p)
      /\ EnCamino \subseteq Peticiones
      /\ EnMano(p) <=> pc[p] \in Tiene
  BY <1>t, DisponibleEntero DEF Respaldo, HayUnidades, TypeOK, EnCamino, EnMano, Tiene
<1>2. ASSUME NEW paso, Va(p, paso), obj' = obj, stock' = stock, venta' = venta,
             paso \in Tiene <=> pc[p] \in Tiene
      PROVE  UNCHANGED <<Disponible, venta>>
  <2>1. EnCamino' = {q \in Peticiones :
                       IF q = p THEN paso \in Tiene \/ Anulandose(p) ELSE q \in EnCamino}
    BY <1>t, <1>2, CaminoPeticion
  <2>2. EnCamino' = EnCamino
    BY <1>1, <1>2, <2>1
  <2> QED
    BY <1>2, <2>2 DEF Disponible
<1>3. ASSUME NEW paso, Va(p, paso), obj' = obj, paso \in Tiene, ~EnMano(p), ~Anulandose(p)
      PROVE  Disponible' = Disponible + (stock' - stock) + Cuanto[p]
  <2>1. EnCamino' = {q \in Peticiones :
                       IF q = p THEN paso \in Tiene \/ Anulandose(p) ELSE q \in EnCamino}
    BY <1>t, <1>3, CaminoPeticion
  <2>2. p \notin EnCamino /\ EnCamino' = EnCamino \cup {p}
    BY <1>1, <1>3, <2>1
  <2> QED
    BY <1>1, <2>2, Entra
<1>4. ASSUME NEW paso, Va(p, paso), obj' = obj, paso \notin Tiene, EnMano(p), ~Anulandose(p)
      PROVE  /\ Disponible >= Cuanto[p]
             /\ Disponible' = Disponible + (stock' - stock) - Cuanto[p]
  <2>1. EnCamino' = {q \in Peticiones :
                       IF q = p THEN paso \in Tiene \/ Anulandose(p) ELSE q \in EnCamino}
    BY <1>t, <1>4, CaminoPeticion
  <2>2. p \in EnCamino /\ EnCamino' = EnCamino \ {p}
    BY <1>1, <1>4, <2>1
  <2> QED
    BY <1>1, <2>2, Sale
<1>5. CASE Pedir(p) \/ Previa(p) \/ TomarCandado(p) \/ Robar(p) \/ Ganadora(p) \/ Revisar(p)
  BY <1>5, <1>2 DEF Pedir, Previa, TomarCandado, Robar, Ganadora, Revisar, Responde, Tiene
<1>6. CASE Validar(p) \/ Numerar(p) \/ Consumir(p) \/ CrearCxc(p) \/ Asentar(p) \/ SoltarLlave(p)
  BY <1>6, <1>2 DEF Validar, Numerar, Consumir, CrearCxc, Asentar, SoltarLlave, Responde, Tiene
<1>7. CASE Vender(p)
  <2>1. CASE Salen(p) /\ Va(p, "numerar")
    <3>1. ~EnMano(p) /\ ~Anulandose(p) /\ venta' = venta /\ obj' = obj
      BY <1>t, <1>7, SinVentaSinAnular DEF Vender, EnMano, SinVenta
    <3>2. Disponible' = Disponible + (stock' - stock) + Cuanto[p] /\ stock' = stock - Cuanto[p]
      BY <2>1, <3>1, <1>3 DEF Tiene, Salen
    <3> QED
      BY <1>1, <3>1, <3>2
  <2>2. CASE Responde(p, "error") /\ stock' = stock
    BY <1>7, <2>2, <1>2 DEF Vender, Responde, Tiene
  <2> QED
    BY <1>7, <2>1, <2>2 DEF Vender
<1>8. CASE Persistir(p)
  <2>1. CASE venta' = venta /\ \E paso \in {"compensar", "compensarDup"} : Va(p, paso)
    BY <1>8, <2>1, <1>2 DEF Persistir, Tiene
  <2>2. CASE PorLlave(p) = {} /\ venta' = [venta EXCEPT ![p] = "completa"] /\ Va(p, TrasPersistir(p))
    <3>1. EnMano(p) /\ ~Anulandose(p) /\ venta[p] = "no" /\ obj' = obj /\ stock' = stock
      BY <1>t, <1>8, SinVentaSinAnular DEF Persistir, EnMano, SinVenta
    <3>2. TrasPersistir(p) \notin Tiene
      BY DEF TrasPersistir, Tiene
    <3>3. Disponible >= Cuanto[p] /\ Disponible' = Disponible - Cuanto[p]
      BY <1>1, <2>2, <3>1, <3>2, <1>4
    <3>4. LlaveDe[p] = SinLlave \/ Promesa!SinVenta(LlaveDe[p])
      BY <1>t, <2>2 DEF Promesa!SinVenta, PorLlave, MismaLlave, ConLlave, TypeOK
    <3>5. Promesa!Vende(p)
      BY <2>2, <3>1, <3>3, <3>4 DEF Promesa!Vende
    <3> QED
      BY <3>5 DEF Promesa!Next
  <2> QED
    BY <1>8, <2>1, <2>2 DEF Persistir
<1>9. CASE Deshacer(p)
  <2>1. /\ Anuladores = {} /\ venta[p] = "completa" /\ ~EnMano(p) /\ ~Anulandose(p)
        /\ stock' = stock /\ obj' = obj /\ pc[p] = "deshacer"
    BY <1>9 DEF Respaldo, Deshacer, Etapas, ConVenta, SinSaldo, SinMermas, SinAnuladas, TypeOK,
       EnMano, Anulandose
  <2>2. CASE venta' = [venta EXCEPT ![p] = "no"] /\ Va(p, "compensar")
    <3>1. Disponible' = Disponible + Cuanto[p]
      BY <1>1, <2>1, <2>2, <1>3 DEF Tiene
    <3>2. Promesa!Retira(p)
      BY <2>1, <2>2, <3>1 DEF Promesa!Retira
    <3> QED
      BY <3>2 DEF Promesa!Next
  <2>3. CASE venta' = venta /\ Responde(p, "error")
    BY <2>1, <2>3, <1>2 DEF Responde, Tiene
  <2> QED
    BY <1>9, <2>2, <2>3 DEF Deshacer
<1>10. CASE Compensar(p) \/ CompensarDup(p)
  <2>1. EnMano(p) /\ ~Anulandose(p) /\ venta' = venta /\ obj' = obj
    BY <1>t, <1>10, SinVentaSinAnular DEF Compensar, CompensarDup, EnMano, SinVenta
  <2>2. stock' = stock + Cuanto[p]
    BY <1>10 DEF Compensar, CompensarDup, Vuelven, Falla, SinMermas
  <2>3. PICK paso \in {"soltar", "fin", "buscarGanadora"} : Va(p, paso)
    BY <1>10 DEF Compensar, CompensarDup, Responde
  <2>4. Disponible' = Disponible + (stock' - stock) - Cuanto[p]
    BY <2>1, <2>3, <1>4 DEF Tiene
  <2> QED
    BY <1>1, <2>1, <2>2, <2>4
<1>11. CASE BuscarGanadora(p)
  <2>1. PorLlave(p) # {}
    BY <1>t, <1>11 DEF BuscarGanadora, DuplicadoConGanadora
  <2> QED
    BY <1>11, <2>1, <1>2 DEF BuscarGanadora, Responde, Tiene
<1> QED
  BY <1>5, <1>6, <1>7, <1>8, <1>9, <1>10, <1>11 DEF Sigue

\* The steps of a void: its flip takes the sale back, and its undoing, when the stock
\* is refused, makes it stand again with the units still in its hands.
LEMMA AnulacionCumple ==
    ASSUME Respaldo, Respaldo', NEW v \in Anuladores, ElegirVenta(v) \/ Anula(v)
    PROVE  Promesa!Next \/ UNCHANGED <<Disponible, venta>>
<1>t. TypeOK /\ TypeOK' /\ Etapas /\ AnulacionesVivas
  BY DEF Respaldo
<1>1. /\ stock \in Nat /\ stock' \in Int /\ Disponible \in Int
      /\ obj[v] \in Peticiones /\ Cuanto[obj[v]] \in Nat
  BY <1>t, DisponibleEntero DEF Respaldo, HayUnidades, TypeOK
<1>2. ASSUME NEW paso, Va(v, paso), stock' = stock, venta' = venta,
             \A w \in Anuladores : w # v => obj'[w] = obj[w],
             paso \in Repone <=> pc[v] \in Repone, pc[v] \in Repone => obj' = obj
      PROVE  UNCHANGED <<Disponible, venta>>
  <2>1. EnCamino' = EnCamino
    BY <1>t, <1>2, CaminoQuieto
  <2> QED
    BY <1>2, <2>1 DEF Disponible
<1>3. ASSUME NEW paso, Va(v, paso), obj' = obj, pc[v] \in Repone, paso \notin Repone
      PROVE  /\ Disponible >= Cuanto[obj[v]]
             /\ Disponible' = Disponible + (stock' - stock) - Cuanto[obj[v]]
  <2>1. obj[v] \in EnCamino /\ EnCamino' = EnCamino \ {obj[v]}
    BY <1>t, <1>3, CaminoAnulacion
  <2> QED
    BY <1>1, <2>1, Sale
<1>4. CASE ElegirVenta(v)
  BY <1>t, <1>4, <1>2 DEF ElegirVenta, Repone, TypeOK
<1>5. CASE TomarVenta(v)
  <2>1. CASE venta[obj[v]] = "completa"
    <3>1. Va(v, "creditoV") /\ obj' = obj /\ stock' = stock
          /\ venta' = [venta EXCEPT ![obj[v]] = "anulada"]
      BY <1>5, <2>1 DEF TomarVenta
    <3>2. EnCamino' = EnCamino \cup {obj[v]}
      BY <1>t, <3>1, CaminoAnulacion DEF Repone
    <3>3. obj[v] \notin EnCamino
      BY <1>t, <1>1, <2>1 DEF EnCamino, EnMano, Anulandose, Etapas, SinVenta, AnulacionesVivas, Repone
    <3>4. Disponible' = Disponible + Cuanto[obj[v]]
      BY <1>1, <3>1, <3>2, <3>3, Entra
    <3>5. Promesa!Retira(obj[v])
      BY <2>1, <3>1, <3>4 DEF Promesa!Retira
    <3> QED
      BY <1>1, <3>5 DEF Promesa!Next
  <2>2. CASE venta[obj[v]] # "completa"
    BY <1>5, <2>2, <1>2 DEF TomarVenta, Repone
  <2> QED
    BY <2>1, <2>2
<1>6. CASE CancelarCredito(v) \/ RestaurarCredito(v) \/ ReversarLibro(v) \/ RevertirSaldo(v)
  BY <1>6, <1>2 DEF CancelarCredito, RestaurarCredito, ReversarLibro, RevertirSaldo, Repone
<1>7. CASE ReponerVenta(v)
  <2>1. CASE Va(v, "restaurarV") /\ stock' = stock
    BY <1>7, <2>1, <1>2 DEF ReponerVenta, Repone
  <2>2. CASE Vuelven(obj[v]) /\ Va(v, "libroV")
    <3>1. Disponible' = Disponible + (stock' - stock) - Cuanto[obj[v]] /\ venta' = venta
      BY <1>7, <2>2, <1>3 DEF ReponerVenta, Repone
    <3> QED
      BY <1>1, <2>2, <3>1 DEF Vuelven
  <2> QED
    BY <1>7, <2>1, <2>2 DEF ReponerVenta
<1>8. CASE DeshacerFlip(v)
  <2>1. /\ venta[obj[v]] = "anulada" /\ Va(v, "libre") /\ obj' = obj /\ stock' = stock
        /\ pc[v] \in Repone
    BY <1>t, <1>8 DEF DeshacerFlip, AnulacionesVivas, Repone
  <2>2. venta' = [venta EXCEPT ![obj[v]] = "completa"]
    BY <1>8, <2>1 DEF DeshacerFlip
  <2>3. Disponible >= Cuanto[obj[v]] /\ Disponible' = Disponible - Cuanto[obj[v]]
    BY <1>1, <2>1, <1>3 DEF Repone
  <2>4. Promesa!Restaura(obj[v])
    BY <2>1, <2>2, <2>3 DEF Promesa!Restaura
  <2> QED
    BY <1>1, <2>4 DEF Promesa!Next
<1> QED
  BY <1>4, <1>5, <1>6, <1>7, <1>8 DEF Anula

LEMMA PasoPromesa ==
    ASSUME SinMermas, Respaldo, Respaldo', [Next]_vars
    PROVE  [Promesa!Next]_<<Disponible, venta>>
<1>1. ASSUME NEW p \in Peticiones, Pedir(p) \/ Sigue(p)
      PROVE  Promesa!Next \/ UNCHANGED <<Disponible, venta>>
  BY <1>1, PeticionCumple
<1>2. ASSUME NEW v \in Anuladores, ElegirVenta(v) \/ Anula(v)
      PROVE  Promesa!Next \/ UNCHANGED <<Disponible, venta>>
  BY <1>2, AnulacionCumple
<1>3. ASSUME UNCHANGED <<stock, venta, pc, obj>> PROVE UNCHANGED <<Disponible, venta>>
  BY <1>3 DEF Disponible, EnCamino, EnMano, Anulandose
<1>4. ASSUME NEW k \in Llaves, Envejece(k) PROVE UNCHANGED <<Disponible, venta>>
  BY <1>4, <1>3 DEF Envejece
<1>5. ASSUME NEW a \in Actores, Corte(a) PROVE UNCHANGED <<Disponible, venta>>
  <2>1. /\ pc[a] \notin Tiene /\ pc[a] \notin Repone /\ UNCHANGED <<stock, venta, obj>>
        /\ Va(a, (IF a \in Peticiones THEN "fin" ELSE "libre")) /\ TypeOK
    BY <1>5 DEF Corte, SinMermas, Respaldo
  <2>2. EnCamino' = EnCamino
    <3>1. CASE a \in Peticiones
      BY <2>1, <3>1, CaminoPeticion DEF Tiene, EnCamino, EnMano
    <3>2. CASE a \in Anuladores
      BY <2>1, <3>2, CaminoQuieto DEF Repone
    <3> QED
      BY <3>1, <3>2 DEF Actores
  <2> QED
    BY <2>1, <2>2 DEF Disponible
<1>6. CASE UNCHANGED vars
  BY <1>6, <1>3 DEF vars
<1> QED
  BY <1>1, <1>2, <1>4, <1>5, <1>6 DEF Next

\* The chains of awaits of the checkout and of the void, with their compensations,
\* implement the atomic promise: no unit is sold twice, lost or made on the way, and a
\* key has its sale once (SalesService.create, void).
THEOREM ImplementaPromesa ==
    ASSUME SinMermas
    PROVE  Spec => CumplePromesa
<1>1. Init => Promesa!Init
  <2> SUFFICES ASSUME Init PROVE Promesa!Init
    OBVIOUS
  <2>1. EnCamino = {}
    BY DEF Init, EnCamino, EnMano, Anulandose, Actores
  <2>2. SumFunctionOnSet(Cuanto, EnCamino) = 0
    BY <2>1, FS_EmptySet, SumaDeCeros
  <2> QED
    BY <2>2 DEF Init, Promesa!Init, Disponible
<1>2. Respaldo /\ Respaldo' /\ [Next]_vars => [Promesa!Next]_<<Disponible, venta>>
  BY PasoPromesa
<1> QED
  BY <1>1, <1>2, RespaldoSiempre, PTL DEF Spec, CumplePromesa, Promesa!Spec

=============================================================================
