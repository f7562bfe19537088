----------------------- MODULE DevolucionVentaProofs -----------------------
(****************************************************************************)
(* For any number of operations, requests, cashiers, sweeps and voids: the  *)
(* turn of a record excludes; a return that moved anything keeps its record *)
(* and amount. Provided that no process is lost between writing its return  *)
(* and having looked at the sale again, a void and a return of one sale     *)
(* never both take effect; if none is lost between a movement and its mark, *)
(* a complete return moved all of it once; and with both, no more units and *)
(* no more pesos come back than were sold and paid. A void that is not lost *)
(* on its way reversed the sale once.  And, for any discounts over the      *)
(* receivables of a customer (NotaSinReferencia): each is given once and in *)
(* full, provided that no process is lost between its cash and its mark.    *)
(****************************************************************************)
EXTENDS DevolucionVenta, Sumas, Sequences

USE DevolucionAssumption

-----------------------------------------------------------------------------
LEMMA Recorta == \A n : NoNeg(n) \in Nat
BY DEF NoNeg

LEMMA TiposDatos ==
    ASSUME TypeOK, NEW k \in Ops
    PROVE  /\ Plan(k) \in Nat /\ ParteASaldo(k) \in Nat
           /\ EnPlata(k) \in Nat /\ AlSaldo(k) \in Nat
<1>1. reg[k].monto \in Nat /\ reg[k].aSaldo \in Nat
  BY DEF TypeOK, Registro
<1>2. Plan(k) \in Nat
  BY Recorta DEF Plan, Reembolso
<1>3. ParteASaldo(k) \in Nat
  BY <1>1, Recorta DEF ParteASaldo, Menor, Monto
<1>4. EnPlata(k) \in Nat
  BY Recorta DEF EnPlata
<1>5. AlSaldo(k) \in Nat
  <2>1. NoNeg(Monto(k) - reg[k].aSaldo) \in Nat
    BY Recorta
  <2> QED
    BY <1>1, <2>1 DEF AlSaldo
<1> QED
  BY <1>2, <1>3, <1>4, <1>5

LEMMA TiposMarcas ==
    \A r : /\ SinCaja(r) \in PasosRegistro /\ Completar(r) \in PasosRegistro
           /\ TrasCartera(r) \in PasosRegistro
BY DEF SinCaja, Completar, TrasCartera, PasosRegistro

LEMMA CamposRegistro ==
    ASSUME NEW r \in Registro
    PROVE  /\ \A e \in {"no", "en_curso", "pendiente_caja", "completa"} :
                [r EXCEPT !.estado = e] \in Registro
           /\ \A p \in Registradores \cup {Nadie} : [r EXCEPT !.turno = p] \in Registro
           /\ \A a \in Nat, b \in BOOLEAN :
                [r EXCEPT !.aSaldo = a, !.cartera = TRUE, !.nota = b] \in Registro
           /\ [r EXCEPT !.nota = TRUE] \in Registro
           /\ [r EXCEPT !.stock = TRUE] \in Registro
           /\ [r EXCEPT !.caja = TRUE] \in Registro
           /\ [r EXCEPT !.libro = TRUE] \in Registro
BY DEF Registro

LEMMA RegistroNuevo ==
    /\ SinRegistro \in Registro
    /\ \A p \in Registradores, m \in Nat, b \in BOOLEAN :
         [SinRegistro EXCEPT !.estado = "en_curso", !.turno = p, !.monto = m, !.stock = b]
            \in Registro
BY DEF Registro, SinRegistro

LEMMA TipoInicial == Init => TypeOK
<1>1. (CHOOSE k \in Ops : TRUE) \in Ops
  OBVIOUS
<1> QED
  BY <1>1 DEF Init, TypeOK, SinRegistro, Registro, PasosRegistro, PasosAnular

-----------------------------------------------------------------------------
\* Every step keeps the type invariant.
LEMMA TiposPaso == TypeOK /\ [Next]_vars => TypeOK'
<1> SUFFICES ASSUME TypeOK, [Next]_vars PROVE TypeOK'
  OBVIOUS
<1> DEFINE Paso == {"libre"} \cup PasosRegistro \cup PasosAnular
<1>1. /\ Registradores \subseteq Actores /\ Anuladores \subseteq Actores
      /\ Clientes \subseteq Registradores
  BY DEF Actores, Registradores
<1>2. ASSUME NEW p \in Actores, NEW paso \in Paso, Va(p, paso)
      PROVE  pc' \in [Actores -> Paso]
  BY <1>2 DEF Va, TypeOK
<1>3. ASSUME Rechazo PROVE fallas' \in 0..MaxFallas
  BY <1>3 DEF Rechazo, TypeOK
<1> USE <1>1
<1>4. ASSUME NEW p \in Registradores, Pedir(p) PROVE TypeOK'
  BY <1>4, TiposDatos, TiposMarcas DEF TypeOK, Pedir, Va, PasosRegistro, PasosAnular
<1>5. ASSUME NEW p \in Registradores, Buscar(p) PROVE TypeOK'
  BY <1>5, TiposDatos, TiposMarcas DEF TypeOK, Buscar, Va, PasosRegistro, PasosAnular
<1>6. ASSUME NEW p \in Registradores, Leer(p) PROVE TypeOK'
  <2>1. pc' \in [Actores -> Paso]
    BY <1>6, <1>2 DEF Leer, TypeOK, PasosRegistro
  <2>2. temp' \in [Registradores -> Nat]
    BY <1>6, TiposDatos DEF Leer, TypeOK
  <2> QED
    BY <1>6, <2>1, <2>2 DEF TypeOK, Leer
<1>7. ASSUME NEW p \in Registradores, Crear(p) PROVE TypeOK'
  <2>1. reg' \in [Ops -> Registro]
    <3> DEFINE nuevo == [SinRegistro EXCEPT !.estado = "en_curso", !.turno = p, !.monto = temp[p],
                                            !.stock = Clase[obj[p]] = "rebaja"]
    <3>1. nuevo \in Registro
      BY RegistroNuevo DEF TypeOK
    <3>2. reg' = reg \/ reg' = [reg EXCEPT ![obj[p]] = nuevo]
      BY <1>7 DEF Crear
    <3> QED
      BY <3>1, <3>2 DEF TypeOK
  <2>2. pc' \in [Actores -> Paso]
    BY <1>7, <1>2 DEF Crear, PasosRegistro
  <2> QED
    BY <1>7, <2>1, <2>2 DEF TypeOK, Crear
<1>8. ASSUME NEW p \in Registradores, RevisarEstado(p) PROVE TypeOK'
  BY <1>8, TiposDatos, TiposMarcas DEF TypeOK, RevisarEstado, Va, PasosRegistro, PasosAnular
<1>9. ASSUME NEW p \in Registradores, RevisarSuma(p) PROVE TypeOK'
  BY <1>9, TiposDatos, TiposMarcas DEF TypeOK, RevisarSuma, Va, PasosRegistro, PasosAnular
<1>10. ASSUME NEW p \in Registradores, Retirar(p) PROVE TypeOK'
  <2>1. reg' \in [Ops -> Registro]
    BY <1>10, RegistroNuevo DEF Retirar, TypeOK
  <2>2. pc' \in [Actores -> Paso]
    BY <1>10, <1>2 DEF Retirar
  <2> QED
    BY <1>10, <2>1, <2>2 DEF TypeOK, Retirar
<1>11. ASSUME NEW p \in Registradores, EmitirNota(p) PROVE TypeOK'
  <2>1. pc' \in [Actores -> Paso]
    BY <1>11, <1>2 DEF EmitirNota, PasosRegistro
  <2>2. fallas' \in 0..MaxFallas
    BY <1>11, <1>3 DEF EmitirNota, TypeOK
  <2> QED
    BY <1>11, <2>1, <2>2 DEF TypeOK, EmitirNota
<1>12. ASSUME NEW p \in Registradores, CompletarPendiente(p) PROVE TypeOK'
  BY <1>12, TiposDatos, TiposMarcas DEF TypeOK, CompletarPendiente, Va, PasosRegistro,
     PasosAnular
<1>13. ASSUME NEW p \in Registradores, BarrerVarada(p) PROVE TypeOK'
  BY <1>13, TiposDatos, TiposMarcas DEF TypeOK, BarrerVarada, Va, PasosRegistro, PasosAnular
<1>14. ASSUME NEW p \in Registradores, TomarTurno(p) PROVE TypeOK'
  <2>1. reg' \in [Ops -> Registro]
    <3>1. [reg[obj[p]] EXCEPT !.turno = p] \in Registro
      BY CamposRegistro DEF TypeOK
    <3>2. reg' = reg \/ reg' = [reg EXCEPT ![obj[p]] = [reg[obj[p]] EXCEPT !.turno = p]]
      BY <1>14 DEF TomarTurno
    <3> QED
      BY <3>1, <3>2 DEF TypeOK
  <2>2. pc' \in [Actores -> Paso]
    BY <1>14, <1>2, TiposMarcas DEF TomarTurno, PasosRegistro
  <2> QED
    BY <1>14, <2>1, <2>2 DEF TypeOK, TomarTurno
<1>15. ASSUME NEW p \in Registradores, Dividir(p) PROVE TypeOK'
  BY <1>15, TiposDatos, TiposMarcas DEF TypeOK, Dividir, Va, PasosRegistro, PasosAnular
<1>16. ASSUME NEW p \in Registradores, Guardar(p) PROVE TypeOK'
  <2>1. reg' \in [Ops -> Registro]
    BY <1>16, CamposRegistro, ZenonT(60) DEF Guardar, TypeOK
  <2>2. pc' \in [Actores -> Paso]
    BY <1>16, <1>2, TiposMarcas DEF Guardar
  <2> QED
    BY <1>16, <2>1, <2>2 DEF TypeOK, Guardar
<1>17. ASSUME NEW p \in Registradores, EmitirNotaC(p) PROVE TypeOK'
  <2>1. reg' \in [Ops -> Registro]
    <3>1. [reg[obj[p]] EXCEPT !.nota = TRUE] \in Registro
      BY CamposRegistro DEF TypeOK
    <3>2. reg' = reg \/ reg' = [reg EXCEPT ![obj[p]] = [reg[obj[p]] EXCEPT !.nota = TRUE]]
      BY <1>17 DEF EmitirNotaC
    <3> QED
      BY <3>1, <3>2, ZenonT(60) DEF TypeOK
  <2>2. pc' \in [Actores -> Paso]
    BY <1>17, <1>2, TiposMarcas DEF EmitirNotaC, PasosRegistro
  <2>3. fallas' \in 0..MaxFallas
    BY <1>17, <1>3 DEF EmitirNotaC, TypeOK
  <2> QED
    BY <1>17, <2>1, <2>2, <2>3 DEF TypeOK, EmitirNotaC
<1>18. ASSUME NEW p \in Registradores, ReponerStock(p) PROVE TypeOK'
  BY <1>18, TiposDatos, TiposMarcas DEF TypeOK, ReponerStock, Va, PasosRegistro, PasosAnular
<1>19. ASSUME NEW p \in Registradores, MarcarStock(p) PROVE TypeOK'
  <2>1. reg' \in [Ops -> Registro]
    BY <1>19, CamposRegistro DEF MarcarStock, TypeOK
  <2>2. pc' \in [Actores -> Paso]
    BY <1>19, <1>2, TiposMarcas DEF MarcarStock
  <2> QED
    BY <1>19, <2>1, <2>2 DEF TypeOK, MarcarStock
<1>20. ASSUME NEW p \in Registradores, SacarDeCaja(p) PROVE TypeOK'
  <2> DEFINE k == obj[p]
  <2>1. k \in Ops /\ EnPlata(k) \in Nat
    BY TiposDatos DEF TypeOK
  <2>2. pc' \in [Actores -> Paso]
    BY <1>20, <1>2, TiposMarcas DEF SacarDeCaja, PasosRegistro
  <2>3. fallas' \in 0..MaxFallas
    BY <1>20, <1>3 DEF SacarDeCaja, TypeOK
  <2>4. salidas' \in [Ops -> Nat]
    BY <1>20, <2>1 DEF SacarDeCaja, TypeOK
  <2> QED
    BY <1>20, <2>2, <2>3, <2>4 DEF TypeOK, SacarDeCaja
<1>21. ASSUME NEW p \in Registradores, MarcarCaja(p) PROVE TypeOK'
  <2>1. reg' \in [Ops -> Registro]
    BY <1>21, CamposRegistro DEF MarcarCaja, TypeOK
  <2>2. pc' \in [Actores -> Paso]
    BY <1>21, <1>2, TiposMarcas DEF MarcarCaja
  <2> QED
    BY <1>21, <2>1, <2>2 DEF TypeOK, MarcarCaja
<1>22. ASSUME NEW p \in Registradores, Asentar(p) PROVE TypeOK'
  BY <1>22, TiposDatos, TiposMarcas DEF TypeOK, Asentar, Va, PasosRegistro, PasosAnular
<1>23. ASSUME NEW p \in Registradores, MarcarLibro(p) PROVE TypeOK'
  <2>1. reg' \in [Ops -> Registro]
    BY <1>23, CamposRegistro DEF MarcarLibro, TypeOK
  <2>2. pc' \in [Actores -> Paso]
    BY <1>23, <1>2 DEF MarcarLibro, PasosRegistro
  <2> QED
    BY <1>23, <2>1, <2>2 DEF TypeOK, MarcarLibro
<1>24. ASSUME NEW p \in Registradores, Cerrar(p) PROVE TypeOK'
  <2>1. reg' \in [Ops -> Registro]
    <3>1. reg[obj[p]] \in Registro /\ reg[obj[p]].estado \in {"no", "en_curso", "pendiente_caja", "completa"}
      BY DEF TypeOK, Registro
    <3>2. \A e \in {"no", "en_curso", "pendiente_caja", "completa"} :
             [reg[obj[p]] EXCEPT !.estado = e] \in Registro
      BY <3>1, CamposRegistro
    <3>3. PICK e \in {"no", "en_curso", "pendiente_caja", "completa"} :
             reg' = [reg EXCEPT ![obj[p]] = [reg[obj[p]] EXCEPT !.estado = e]]
      BY <1>24, <3>1 DEF Cerrar
    <3> QED
      BY <3>2, <3>3 DEF TypeOK
  <2>2. pc' \in [Actores -> Paso]
    BY <1>24, <1>2 DEF Cerrar, PasosRegistro
  <2> QED
    BY <1>24, <2>1, <2>2 DEF TypeOK, Cerrar
<1>25. ASSUME NEW p \in Registradores, SoltarTurno(p) PROVE TypeOK'
  <2>1. reg' \in [Ops -> Registro]
    <3>1. reg[obj[p]] \in Registro /\ reg[obj[p]].turno \in Registradores \cup {Nadie}
      BY DEF TypeOK, Registro
    <3>2. PICK t \in Registradores \cup {Nadie} :
             reg' = [reg EXCEPT ![obj[p]] = [reg[obj[p]] EXCEPT !.turno = t]]
      BY <1>25, <3>1 DEF SoltarTurno
    <3>3. [reg[obj[p]] EXCEPT !.turno = t] \in Registro
      BY <3>1, CamposRegistro
    <3> QED
      BY <3>2, <3>3 DEF TypeOK
  <2>2. pc' \in [Actores -> Paso]
    BY <1>25, <1>2 DEF SoltarTurno, PasosRegistro
  <2> QED
    BY <1>25, <2>1, <2>2 DEF TypeOK, SoltarTurno
<1>26. ASSUME NEW v \in Anuladores, ContarDevoluciones(v) PROVE TypeOK'
  BY <1>26 DEF TypeOK, ContarDevoluciones, Va, PasosRegistro, PasosAnular, Rechazo
<1>27. ASSUME NEW v \in Anuladores, TomarVenta(v) PROVE TypeOK'
  BY <1>27 DEF TypeOK, TomarVenta, Va, PasosRegistro, PasosAnular, Rechazo
<1>28. ASSUME NEW v \in Anuladores, Recontar(v) PROVE TypeOK'
  BY <1>28 DEF TypeOK, Recontar, Va, PasosRegistro, PasosAnular, Rechazo
<1>29. ASSUME NEW v \in Anuladores, DeshacerFlip(v) PROVE TypeOK'
  BY <1>29 DEF TypeOK, DeshacerFlip, Va, PasosRegistro, PasosAnular, Rechazo
<1>30. ASSUME NEW v \in Anuladores, EmitirNotaAnulacion(v) PROVE TypeOK'
  BY <1>30 DEF TypeOK, EmitirNotaAnulacion, Va, PasosRegistro, PasosAnular, Rechazo
<1>31. ASSUME NEW v \in Anuladores, ReponerVenta(v) PROVE TypeOK'
  <2>1. pc' \in [Actores -> Paso]
    BY <1>31, <1>2 DEF ReponerVenta, PasosAnular
  <2>2. fallas' \in 0..MaxFallas
    BY <1>31, <1>3 DEF ReponerVenta, TypeOK
  <2>3. anulado' \in [stock: Nat, libro: BOOLEAN, saldo: BOOLEAN, caja: BOOLEAN]
    BY <1>31 DEF TypeOK, ReponerVenta
  <2> QED
    BY <1>31, <2>1, <2>2, <2>3 DEF TypeOK, ReponerVenta
<1>32. ASSUME NEW v \in Anuladores, ReversarLibro(v) PROVE TypeOK'
  BY <1>32 DEF TypeOK, ReversarLibro, Va, PasosRegistro, PasosAnular, Rechazo
<1>33. ASSUME NEW v \in Anuladores, RevertirSaldo(v) PROVE TypeOK'
  BY <1>33 DEF TypeOK, RevertirSaldo, Va, PasosRegistro, PasosAnular, Rechazo
<1>34. ASSUME NEW v \in Anuladores, SacarAnulacion(v) PROVE TypeOK'
  <2>1. pc' \in [Actores -> Paso]
    BY <1>34, <1>2 DEF SacarAnulacion
  <2>2. fallas' \in 0..MaxFallas
    BY <1>34, <1>3 DEF SacarAnulacion, TypeOK
  <2>3. anulado' \in [stock: Nat, libro: BOOLEAN, saldo: BOOLEAN, caja: BOOLEAN]
    BY <1>34 DEF TypeOK, SacarAnulacion
  <2> QED
    BY <1>34, <2>1, <2>2, <2>3 DEF TypeOK, SacarAnulacion
<1>35. ASSUME NEW p \in Actores, Corte(p) PROVE TypeOK'
  <2>1. reg' \in [Ops -> Registro]
    BY <1>35, CamposRegistro DEF Corte, TypeOK
  <2>2. pc' \in [Actores -> Paso]
    BY <1>35, <1>2 DEF Corte
  <2> QED
    BY <1>35, <2>1, <2>2 DEF TypeOK, Corte
<1>36. CASE UNCHANGED vars
  BY <1>36 DEF vars, TypeOK
<1> QED
  BY <1>4, <1>5, <1>6, <1>7, <1>8, <1>9, <1>10, <1>11, <1>12, <1>13, <1>14, <1>15, <1>16,
     <1>17, <1>18, <1>19, <1>20, <1>21, <1>22, <1>23, <1>24, <1>25, <1>26, <1>27, <1>28,
     <1>29, <1>30, <1>31, <1>32, <1>33, <1>34, <1>35, <1>36 DEF Next, Sigue, Anula

\* Every record, turn, step and history of the services keeps its type.
THEOREM TiposSiempre == Spec => []TypeOK
<1> QED
  BY TipoInicial, TiposPaso, PTL DEF Spec

-----------------------------------------------------------------------------
(* The turn.  Whoever works on a record holds its turn; the only writes of    *)
(* the turn are the creator's, a conditional update and the owner's release. *)

ConDueno ==
    \A p \in Registradores :
        pc[p] \in ConTurno => Existe(obj[p]) /\ reg[obj[p]].turno = p

\* The marks neither delete a record nor touch its turn nor its money.
LEMMA MarcasNoBorran ==
    ASSUME TypeOK, NEW p \in Registradores, NEW k \in Ops,
           \/ Guardar(p) \/ EmitirNotaC(p) \/ MarcarStock(p) \/ MarcarCaja(p)
           \/ MarcarLibro(p) \/ (Cerrar(p) /\ Existe(obj[p]))
    PROVE  /\ reg'[k].turno = reg[k].turno /\ reg'[k].monto = reg[k].monto
           /\ reg'[k].estado = "no" <=> reg[k].estado = "no"
<1> USE DEF TypeOK, Registro
<1>1. CASE Guardar(p)
  BY <1>1 DEF Guardar
<1>2. CASE EmitirNotaC(p)
  BY <1>2, SMTT(30) DEF EmitirNotaC
<1>3. CASE MarcarStock(p)
  BY <1>3 DEF MarcarStock
<1>4. CASE MarcarCaja(p)
  BY <1>4 DEF MarcarCaja
<1>5. CASE MarcarLibro(p)
  BY <1>5 DEF MarcarLibro
<1>6. CASE Cerrar(p) /\ Existe(obj[p])
  BY <1>6 DEF Cerrar, Existe
<1> QED
  BY <1>1, <1>2, <1>3, <1>4, <1>5, <1>6

LEMMA DuenoInicial == Init => ConDueno
BY DEF Init, ConDueno, ConTurno, PasosRegistro, Actores

LEMMA DuenoPaso == TypeOK /\ ConDueno /\ [Next]_vars => ConDueno'
<1> SUFFICES ASSUME TypeOK, ConDueno, [Next]_vars,
                    NEW q \in Registradores, pc'[q] \in ConTurno
             PROVE  reg'[obj'[q]].estado # "no" /\ reg'[obj'[q]].turno = q
  BY DEF ConDueno, Existe
<1> DEFINE Bien == reg'[obj'[q]].estado # "no" /\ reg'[obj'[q]].turno = q
<1>1. /\ Registradores \subseteq Actores /\ Anuladores \subseteq Actores
      /\ q \in Actores /\ obj[q] \in Ops
      /\ pc[q] \in ConTurno => reg[obj[q]].estado # "no" /\ reg[obj[q]].turno = q
      /\ Registradores \cap Anuladores = {} /\ Nadie \notin Registradores
  BY DEF Actores, Registradores, TypeOK, ConDueno, Existe
<1> USE <1>1
<1>2. ASSUME NEW p \in Registradores,
             \/ Pedir(p) \/ Buscar(p) \/ Leer(p) \/ RevisarEstado(p) \/ RevisarSuma(p)
             \/ EmitirNota(p) \/ Dividir(p) \/ ReponerStock(p) \/ SacarDeCaja(p) \/ Asentar(p)
      PROVE  Bien
  BY <1>2 DEF Pedir, Buscar, Leer, RevisarEstado, RevisarSuma, EmitirNota, Dividir,
     ReponerStock, SacarDeCaja, Asentar, Va, En, ConTurno, PasosRegistro, TypeOK
<1>3. ASSUME NEW p \in Registradores, Crear(p) PROVE Bien
  <2>1. CASE q = p
    <3>1. ~Existe(obj[p])
      BY <1>3, <2>1 DEF Crear, Va, ConTurno, PasosRegistro, TypeOK
    <3> DEFINE nuevo == [SinRegistro EXCEPT !.estado = "en_curso", !.turno = p, !.monto = temp[p],
                                            !.stock = Clase[obj[p]] = "rebaja"]
    <3>2. obj' = obj /\ reg' = [reg EXCEPT ![obj[p]] = nuevo]
      BY <1>3, <3>1 DEF Crear
    <3>3. nuevo.estado # "no" /\ nuevo.turno = p
      BY DEF SinRegistro
    <3> QED
      BY <2>1, <3>2, <3>3 DEF TypeOK
  <2>2. CASE q # p
    <3>1. pc[q] \in ConTurno /\ obj' = obj
      BY <1>3, <2>2 DEF Crear, Va, TypeOK
    <3>2. reg'[obj[q]] = reg[obj[q]]
      BY <1>3, <3>1 DEF Crear, Existe, TypeOK
    <3> QED
      BY <3>1, <3>2
  <2> QED
    BY <2>1, <2>2
<1>4. ASSUME NEW p \in Registradores, Retirar(p) PROVE Bien
  <2>1. q # p /\ pc[q] \in ConTurno /\ obj' = obj
    BY <1>4 DEF Retirar, Va, ConTurno, PasosRegistro, TypeOK
  <2>2. pc[p] \in ConTurno
    BY <1>4 DEF Retirar, En, ConTurno, PasosRegistro
  <2>3. obj[q] # obj[p]
    BY <2>1, <2>2 DEF ConDueno
  <2> QED
    BY <1>4, <2>1, <2>3 DEF Retirar, TypeOK
<1>5. ASSUME NEW p \in Registradores, CompletarPendiente(p) \/ BarrerVarada(p) PROVE Bien
  BY <1>5 DEF CompletarPendiente, BarrerVarada, Va, En, ConTurno, PasosRegistro, TypeOK
<1>6. ASSUME NEW p \in Registradores, TomarTurno(p) PROVE Bien
  BY <1>6 DEF TomarTurno, Abierta, Va, En, ConTurno, PasosRegistro, TypeOK, Registro
<1>7. ASSUME NEW p \in Registradores,
             \/ Guardar(p) \/ EmitirNotaC(p) \/ MarcarStock(p) \/ MarcarCaja(p)
             \/ MarcarLibro(p) \/ Cerrar(p)
      PROVE  Bien
  <2>1. obj' = obj /\ pc[q] \in ConTurno
    BY <1>7 DEF Guardar, EmitirNotaC, MarcarStock, MarcarCaja, MarcarLibro, Cerrar,
       Va, En, ConTurno, PasosRegistro, TypeOK
  <2>2. Existe(obj[p])
    BY <1>7 DEF ConDueno, Guardar, EmitirNotaC, MarcarStock, MarcarCaja, MarcarLibro,
       Cerrar, En, ConTurno, PasosRegistro
  <2> QED
    BY <1>7, <2>1, <2>2, MarcasNoBorran
<1>8. ASSUME NEW p \in Registradores, SoltarTurno(p) PROVE Bien
  BY <1>8 DEF SoltarTurno, Va, En, ConTurno, PasosRegistro, TypeOK, Registro
<1>9. ASSUME NEW v \in Anuladores, ContarDevoluciones(v) \/ Anula(v) PROVE Bien
  BY <1>9 DEF ContarDevoluciones, Anula, TomarVenta, Recontar, DeshacerFlip,
     EmitirNotaAnulacion, ReponerVenta, ReversarLibro, RevertirSaldo, SacarAnulacion, Va, TypeOK
<1>10. ASSUME NEW p \in Actores, Corte(p) PROVE Bien
  BY <1>10 DEF Corte, Va, ConTurno, PasosRegistro, TypeOK, Registro
<1>11. CASE UNCHANGED vars
  BY <1>11 DEF vars
<1> QED
  BY <1>2, <1>3, <1>4, <1>5, <1>6, <1>7, <1>8, <1>9, <1>10, <1>11 DEF Next, Sigue

LEMMA DuenoSiempre == Spec => [](TypeOK /\ ConDueno)
<1>1. Init => TypeOK /\ ConDueno
  BY TipoInicial, DuenoInicial
<1>2. TypeOK /\ ConDueno /\ [Next]_vars => (TypeOK /\ ConDueno)'
  BY TiposPaso, DuenoPaso
<1> QED
  BY <1>1, <1>2, PTL DEF Spec

\* Two actors never work on one record at once, however many requests of its
\* key, cashiers and sweeps resume it.
THEOREM ExclusivoSiempre == Spec => []TurnoExclusivo
<1>1. TypeOK /\ ConDueno => TurnoExclusivo
  BY DEF ConDueno, TurnoExclusivo
<1> QED
  BY <1>1, DuenoSiempre, PTL

-----------------------------------------------------------------------------
(* What moved has its record.  A record is deleted only from "retirar", and   *)
(* every step up to it is taken before anything of the record has moved.     *)

SinMover == {"revisarEstado", "revisarSuma", "nota", "retirar"}

MovidoConRegistro ==
    /\ \A k \in Ops : Movio(k) => Existe(k)
    /\ \A p \in Registradores : pc[p] \in SinMover => ~Movio(obj[p])

LEMMA SoloRetirarBorra ==
    ASSUME TypeOK, ConDueno, [Next]_vars, NEW k \in Ops, Existe(k),
           \A p \in Registradores : Retirar(p) => obj[p] # k
    PROVE  reg'[k].estado # "no" /\ reg'[k].monto = reg[k].monto
<1> DEFINE Queda == reg'[k].estado # "no" /\ reg'[k].monto = reg[k].monto
<1>1. /\ reg[k].estado # "no"
      /\ \A p \in Registradores : obj[p] \in Ops
      /\ \A p \in Registradores : pc[p] \in ConTurno => Existe(obj[p])
  BY DEF Existe, TypeOK, ConDueno
<1>2. CASE reg' = reg
  BY <1>1, <1>2
<1>3. ASSUME NEW p \in Registradores, Crear(p) PROVE Queda
  <2>1. reg'[k] = reg[k]
    BY <1>3 DEF Crear, Existe, TypeOK
  <2> QED
    BY <1>1, <2>1
<1>4. ASSUME NEW p \in Registradores, Retirar(p) PROVE Queda
  BY <1>1, <1>4 DEF Retirar, TypeOK
<1>5. ASSUME NEW p \in Registradores, TomarTurno(p) PROVE Queda
  BY <1>1, <1>5, SMTT(30) DEF TomarTurno, TypeOK, Registro
<1>6. ASSUME NEW p \in Registradores,
             \/ Guardar(p) \/ EmitirNotaC(p) \/ MarcarStock(p) \/ MarcarCaja(p)
             \/ MarcarLibro(p) \/ Cerrar(p)
      PROVE  Queda
  <2>1. Existe(obj[p])
    BY <1>1, <1>6 DEF Guardar, EmitirNotaC, MarcarStock, MarcarCaja, MarcarLibro,
       Cerrar, En, ConTurno, PasosRegistro
  <2> QED
    BY <1>1, <1>6, <2>1, MarcasNoBorran
<1>7. ASSUME NEW p \in Registradores, SoltarTurno(p) PROVE Queda
  BY <1>1, <1>7 DEF SoltarTurno, TypeOK, Registro
<1>8. ASSUME NEW p \in Actores, Corte(p) PROVE Queda
  BY <1>1, <1>8 DEF Corte, TypeOK, Registro
<1>9. ASSUME NEW p \in Registradores,
             \/ Pedir(p) \/ Buscar(p) \/ Leer(p) \/ RevisarEstado(p) \/ RevisarSuma(p)
             \/ EmitirNota(p) \/ CompletarPendiente(p) \/ BarrerVarada(p) \/ Dividir(p)
             \/ ReponerStock(p) \/ SacarDeCaja(p) \/ Asentar(p)
      PROVE  reg' = reg
  BY <1>9 DEF Pedir, Buscar, Leer, RevisarEstado, RevisarSuma, EmitirNota,
     CompletarPendiente, BarrerVarada, Dividir, ReponerStock, SacarDeCaja, Asentar
<1>10. ASSUME NEW v \in Anuladores, ContarDevoluciones(v) \/ Anula(v) PROVE reg' = reg
  BY <1>10 DEF ContarDevoluciones, Anula, TomarVenta, Recontar, DeshacerFlip,
     EmitirNotaAnulacion, ReponerVenta, ReversarLibro, RevertirSaldo, SacarAnulacion
<1>11. CASE UNCHANGED vars
  BY <1>2, <1>11 DEF vars
<1> QED
  BY <1>2, <1>3, <1>4, <1>5, <1>6, <1>7, <1>8, <1>9, <1>10, <1>11 DEF Next, Sigue

\* Units, cash and balance move only in the hands of whoever has the turn.
LEMMA SoloConTurnoMueve ==
    ASSUME TypeOK, [Next]_vars
    PROVE  \/ UNCHANGED <<entradas, salidas, abonado>>
           \/ \E p \in Registradores :
                /\ pc[p] \in ConTurno /\ pc'[p] \notin SinMover
                /\ pc' = [pc EXCEPT ![p] = pc'[p]] /\ obj' = obj /\ reg' = reg
                /\ \A k \in Ops \ {obj[p]} : Movio(k)' => Movio(k)
<1> DEFINE Quieto == UNCHANGED <<entradas, salidas, abonado>>
<1> DEFINE Mueve(p) == /\ pc[p] \in ConTurno /\ pc'[p] \notin SinMover
                       /\ pc' = [pc EXCEPT ![p] = pc'[p]] /\ obj' = obj /\ reg' = reg
                       /\ \A k \in Ops \ {obj[p]} : Movio(k)' => Movio(k)
<1>1. Registradores \subseteq Actores
  BY DEF Actores
<1>2. ASSUME NEW p \in Registradores,
             \/ Pedir(p) \/ Buscar(p) \/ Leer(p) \/ Crear(p) \/ RevisarEstado(p)
             \/ RevisarSuma(p) \/ Retirar(p) \/ EmitirNota(p) \/ CompletarPendiente(p)
             \/ BarrerVarada(p) \/ TomarTurno(p) \/ Dividir(p) \/ Guardar(p)
             \/ EmitirNotaC(p) \/ MarcarStock(p) \/ MarcarCaja(p) \/ MarcarLibro(p)
             \/ Cerrar(p) \/ SoltarTurno(p)
      PROVE  Quieto
  BY <1>2 DEF Pedir, Buscar, Leer, Crear, RevisarEstado, RevisarSuma, Retirar, EmitirNota,
     CompletarPendiente, BarrerVarada, TomarTurno, Dividir, Guardar, EmitirNotaC,
     MarcarStock, MarcarCaja, MarcarLibro, Cerrar, SoltarTurno
<1>3. ASSUME NEW v \in Anuladores, ContarDevoluciones(v) \/ Anula(v) PROVE Quieto
  BY <1>3 DEF ContarDevoluciones, Anula, TomarVenta, Recontar, DeshacerFlip,
     EmitirNotaAnulacion, ReponerVenta, ReversarLibro, RevertirSaldo, SacarAnulacion
<1>4. ASSUME NEW p \in Actores, Corte(p) PROVE Quieto
  BY <1>4 DEF Corte
<1>5. ASSUME NEW p \in Registradores, ReponerStock(p) PROVE Mueve(p)
  BY <1>1, <1>5 DEF ReponerStock, Va, En, ConTurno, PasosRegistro, SinMover, TypeOK, Movio
<1>6. ASSUME NEW p \in Registradores, SacarDeCaja(p) PROVE Mueve(p)
  BY <1>1, <1>6 DEF SacarDeCaja, SinCaja, Va, En, ConTurno, PasosRegistro, SinMover,
     TypeOK, Movio
<1>7. ASSUME NEW p \in Registradores, Asentar(p) PROVE Mueve(p)
  BY <1>1, <1>7 DEF Asentar, Va, En, ConTurno, PasosRegistro, SinMover, TypeOK, Movio
<1>8. CASE UNCHANGED vars
  BY <1>8 DEF vars
<1> QED
  BY <1>2, <1>3, <1>4, <1>5, <1>6, <1>7, <1>8 DEF Next, Sigue

\* The steps before moving are entered by creating the record or from each other.
LEMMA EntrarSinMover ==
    ASSUME TypeOK, [Next]_vars, NEW q \in Registradores, pc'[q] \in SinMover
    PROVE  /\ obj'[q] = obj[q]
           /\ \/ pc[q] \in SinMover
              \/ Crear(q) /\ ~Existe(obj[q])
<1>1. /\ Registradores \subseteq Actores /\ Anuladores \subseteq Actores
      /\ q \in Actores /\ Registradores \cap Anuladores = {}
  BY DEF Actores, Registradores
<1> USE <1>1 DEF SinMover, PasosRegistro, Va, En, TypeOK
<1>2. ASSUME NEW p \in Registradores, TomarTurno(p) \/ Guardar(p) \/ EmitirNotaC(p) \/ MarcarStock(p)
      PROVE  q # p /\ pc'[q] = pc[q] /\ obj' = obj
  <2>1. \A r : TrasCartera(r) \notin SinMover /\ Completar(r) \notin SinMover
    BY DEF TrasCartera, Completar, SinCaja
  <2> QED
    BY <1>2, <2>1 DEF TomarTurno, Guardar, EmitirNotaC, MarcarStock
<1>3. ASSUME NEW p \in Registradores, SacarDeCaja(p) \/ MarcarCaja(p)
      PROVE  q # p /\ pc'[q] = pc[q] /\ obj' = obj
  BY <1>3 DEF SacarDeCaja, MarcarCaja, SinCaja
<1>4. ASSUME NEW p \in Registradores,
             \/ Pedir(p) \/ Buscar(p) \/ Leer(p) \/ CompletarPendiente(p) \/ BarrerVarada(p)
             \/ Dividir(p) \/ ReponerStock(p) \/ Asentar(p) \/ MarcarLibro(p) \/ Cerrar(p)
             \/ SoltarTurno(p) \/ Retirar(p)
      PROVE  q # p /\ pc'[q] = pc[q] /\ obj'[q] = obj[q]
  BY <1>4 DEF Pedir, Buscar, Leer, CompletarPendiente, BarrerVarada, Dividir, ReponerStock,
     Asentar, MarcarLibro, Cerrar, SoltarTurno, Retirar
<1>5. ASSUME NEW p \in Registradores, RevisarEstado(p) \/ RevisarSuma(p) \/ EmitirNota(p)
      PROVE  obj' = obj /\ pc[q] \in SinMover
  BY <1>5 DEF RevisarEstado, RevisarSuma, EmitirNota
<1>6. ASSUME NEW p \in Registradores, Crear(p)
      PROVE  obj' = obj /\ (pc[q] \in SinMover \/ (Crear(q) /\ ~Existe(obj[q])))
  <2>1. obj' = obj /\ (q # p => pc'[q] = pc[q])
    BY <1>6 DEF Crear
  <2>2. CASE q = p
    <3>1. Crear(q)
      BY <1>6, <2>2
    <3>2. ~Existe(obj[q])
      BY <3>1 DEF Crear
    <3> QED
      BY <2>1, <3>1, <3>2
  <2>3. CASE q # p
    <3>1. pc[q] \in SinMover
      BY <2>1, <2>3
    <3> QED
      BY <2>1, <3>1
  <2> QED
    BY <2>1, <2>2, <2>3
<1>7. ASSUME NEW v \in Anuladores, ContarDevoluciones(v) \/ Anula(v)
      PROVE  pc'[q] = pc[q] /\ obj' = obj
  BY <1>7 DEF ContarDevoluciones, Anula, TomarVenta, Recontar, DeshacerFlip,
     EmitirNotaAnulacion, ReponerVenta, ReversarLibro, RevertirSaldo, SacarAnulacion
<1>8. ASSUME NEW p \in Actores, Corte(p) PROVE pc'[q] = pc[q] /\ obj' = obj
  BY <1>8 DEF Corte
<1>9. CASE UNCHANGED vars
  BY <1>9 DEF vars
<1> QED
  BY <1>2, <1>3, <1>4, <1>5, <1>6, <1>7, <1>8, <1>9 DEF Next, Sigue

LEMMA MovidoPaso ==
    TypeOK /\ ConDueno /\ MovidoConRegistro /\ [Next]_vars => MovidoConRegistro'
<1> SUFFICES ASSUME TypeOK, ConDueno, MovidoConRegistro, [Next]_vars
             PROVE  MovidoConRegistro'
  OBVIOUS
<1>1. \A p \in Registradores : Retirar(p) => ~Movio(obj[p])
  BY DEF Retirar, En, SinMover, MovidoConRegistro
<1>2. \A p \in Registradores : pc[p] \in ConTurno => Existe(obj[p])
  BY DEF ConDueno
<1>3. ASSUME NEW k \in Ops, Movio(k)' PROVE reg'[k].estado # "no"
  <2>1. CASE Movio(k)
    <3>1. Existe(k) /\ \A p \in Registradores : Retirar(p) => obj[p] # k
      BY <1>1, <2>1 DEF MovidoConRegistro
    <3> QED
      BY <3>1, SoloRetirarBorra
  <2>2. CASE ~Movio(k)
    <3>1. PICK p \in Registradores : pc[p] \in ConTurno /\ obj[p] = k /\ reg' = reg
      BY <1>3, <2>2, SoloConTurnoMueve DEF Movio
    <3> QED
      BY <1>2, <3>1 DEF Existe
  <2> QED
    BY <2>1, <2>2
<1>4. ASSUME NEW q \in Registradores, pc'[q] \in SinMover PROVE ~Movio(obj[q])'
  <2>1. PICK k \in Ops : obj'[q] = k /\ obj[q] = k
    BY <1>4, EntrarSinMover DEF TypeOK
  <2>2. ~Movio(k)
    <3>1. CASE pc[q] \in SinMover
      BY <2>1, <3>1 DEF MovidoConRegistro
    <3>2. CASE ~Existe(k)
      BY <3>2 DEF MovidoConRegistro
    <3> QED
      BY <1>4, <2>1, <3>1, <3>2, EntrarSinMover
  <2>3. CASE UNCHANGED <<entradas, salidas, abonado>>
    BY <2>1, <2>2, <2>3 DEF Movio
  <2>4. ASSUME NEW p \in Registradores,
               pc[p] \in ConTurno, pc'[p] \notin SinMover,
               pc' = [pc EXCEPT ![p] = pc'[p]], reg' = reg,
               \A o \in Ops \ {obj[p]} : Movio(o)' => Movio(o)
        PROVE  ~Movio(obj[q])'
    <3>1. q # p /\ pc'[q] = pc[q]
      BY <1>4, <2>4 DEF TypeOK, Actores
    <3>2. k # obj[p]
      BY <1>4, <2>1, <2>4, <3>1 DEF ConDueno, SinMover, ConTurno, PasosRegistro
    <3>3. ~Movio(k)'
      BY <2>2, <2>4, <3>2
    <3> QED
      BY <2>1, <3>3 DEF Movio
  <2> QED
    BY <2>3, <2>4, SoloConTurnoMueve
<1> QED
  BY <1>3, <1>4 DEF MovidoConRegistro, Existe

LEMMA MovidoSiempre == Spec => [](TypeOK /\ ConDueno /\ MovidoConRegistro)
<1>1. Init => MovidoConRegistro
  BY DEF Init, MovidoConRegistro, Movio, SinMover, Actores
<1>2. QED
  BY <1>1, DuenoSiempre, MovidoPaso, PTL DEF Spec

\* A return that moved anything never loses its record nor its amount, with any
\* number of actors, refusals and cuts at any step.
THEOREM LoMovidoQueda == Spec => LoMovidoNoSeBorra
<1>1. TypeOK /\ ConDueno /\ MovidoConRegistro /\ [Next]_vars =>
        [\A k \in Ops : Movio(k) => reg'[k].estado # "no" /\ reg'[k].monto = reg[k].monto]_vars
  <2> SUFFICES ASSUME TypeOK, ConDueno, MovidoConRegistro, [Next]_vars, NEW k \in Ops, Movio(k)
               PROVE  reg'[k].estado # "no" /\ reg'[k].monto = reg[k].monto
    OBVIOUS
  <2>1. Existe(k) /\ \A p \in Registradores : Retirar(p) => obj[p] # k
    BY DEF MovidoConRegistro, Retirar, En, SinMover
  <2> QED
    BY <2>1, SoloRetirarBorra
<1> QED
  BY <1>1, MovidoSiempre, PTL DEF Spec, LoMovidoNoSeBorra

-----------------------------------------------------------------------------
(* The void.  One caller holds the flip until it is undone or the stock has   *)
(* entered; from the second count of the returns on the void is committed,   *)
(* and the only records that may appear are still to look at the sale.       *)

EnAnulacion == {"recontar", "deshacer", "notaV", "stockV"}

UnaAnula ==
    /\ anulado.stock > 0 => venta = "void"
    /\ \A v \in Anuladores : pc[v] \in EnAnulacion =>
         /\ venta = "void" /\ anulado.stock = 0
         /\ \A w \in Anuladores \ {v} : pc[w] \notin EnAnulacion

Comprometida ==
    anulado.stock > 0 \/ \E v \in Anuladores : pc[v] \in {"notaV", "stockV"}

Revisando(k) ==
    \E p \in Registradores :
        obj[p] = k /\ reg[k].turno = p /\ pc[p] \in {"revisarEstado", "retirar"}

SoloRevisando == Comprometida => \A k \in Ops : Existe(k) => Revisando(k)

\* The steps of the returns leave the void alone.
LEMMA RegistroNoAnula ==
    ASSUME TypeOK, NEW p \in Registradores,
           Pedir(p) \/ CompletarPendiente(p) \/ BarrerVarada(p) \/ Sigue(p)
    PROVE  /\ venta' = venta /\ anulado' = anulado
           /\ \A q \in Actores \ {p} : pc'[q] = pc[q]
           /\ \A q \in Registradores \ {p} : obj'[q] = obj[q]
           /\ pc[p] # "libre" => obj' = obj
BY DEF TypeOK, Actores, Sigue, Pedir, CompletarPendiente, BarrerVarada, Buscar, Leer, Crear,
   RevisarEstado, RevisarSuma, Retirar, EmitirNota, TomarTurno, Dividir, Guardar, EmitirNotaC,
   ReponerStock, MarcarStock, SacarDeCaja, MarcarCaja, Asentar, MarcarLibro, Cerrar,
   SoltarTurno, Va, En

LEMMA AnulaPaso == TypeOK /\ UnaAnula /\ [Next]_vars => UnaAnula'
<1> SUFFICES ASSUME TypeOK, UnaAnula, [Next]_vars PROVE UnaAnula'
  OBVIOUS
<1>1. /\ Anuladores \subseteq Actores /\ Registradores \cap Anuladores = {}
      /\ anulado \in [stock: Nat, libro: BOOLEAN, saldo: BOOLEAN, caja: BOOLEAN]
  BY DEF Actores, TypeOK
<1> USE <1>1 DEF EnAnulacion, UnaAnula, Va, En, TypeOK
<1>2. ASSUME NEW p \in Registradores,
             Pedir(p) \/ CompletarPendiente(p) \/ BarrerVarada(p) \/ Sigue(p)
      PROVE  UnaAnula'
  <2>1. venta' = venta /\ anulado' = anulado /\ \A v \in Anuladores : pc'[v] = pc[v]
    BY <1>2, RegistroNoAnula
  <2> QED
    BY <2>1
<1>3. ASSUME NEW v \in Anuladores, ContarDevoluciones(v) PROVE UnaAnula'
  BY <1>3 DEF ContarDevoluciones
<1>4. ASSUME NEW v \in Anuladores, TomarVenta(v) PROVE UnaAnula'
  BY <1>4 DEF TomarVenta
<1>5. ASSUME NEW v \in Anuladores, Recontar(v) PROVE UnaAnula'
  BY <1>5 DEF Recontar
<1>6. ASSUME NEW v \in Anuladores, DeshacerFlip(v) PROVE UnaAnula'
  BY <1>6 DEF DeshacerFlip
<1>7. ASSUME NEW v \in Anuladores, EmitirNotaAnulacion(v) PROVE UnaAnula'
  BY <1>7 DEF EmitirNotaAnulacion
<1>8. ASSUME NEW v \in Anuladores, ReponerVenta(v) PROVE UnaAnula'
  BY <1>8 DEF ReponerVenta
<1>9. ASSUME NEW v \in Anuladores, ReversarLibro(v) \/ RevertirSaldo(v) \/ SacarAnulacion(v)
      PROVE  UnaAnula'
  <2>1. venta' = venta /\ anulado'.stock = anulado.stock /\ pc'[v] \notin EnAnulacion
        /\ \A w \in Anuladores \ {v} : pc'[w] = pc[w]
    BY <1>9 DEF ReversarLibro, RevertirSaldo, SacarAnulacion
  <2> QED
    BY <2>1
<1>10. ASSUME NEW p \in Actores, Corte(p) PROVE UnaAnula'
  BY <1>10 DEF Corte
<1>11. CASE UNCHANGED vars
  BY <1>11 DEF vars
<1> QED
  BY <1>2, <1>3, <1>4, <1>5, <1>6, <1>7, <1>8, <1>9, <1>10, <1>11 DEF Next, Anula

\* A committed void finds no record beyond the look at the sale, and makes
\* whoever is there withdraw.
LEMMA RevisandoPaso ==
    ASSUME Cortan \cap {"revisarEstado", "retirar"} = {}
    PROVE  TypeOK /\ ConDueno /\ UnaAnula /\ SoloRevisando /\ [Next]_vars => SoloRevisando'
<1> SUFFICES ASSUME TypeOK, ConDueno, UnaAnula, SoloRevisando, [Next]_vars,
                    Comprometida', NEW k \in Ops, reg'[k].estado # "no"
             PROVE  Revisando(k)'
  BY DEF SoloRevisando, Existe
<1>1. /\ Registradores \subseteq Actores /\ Anuladores \subseteq Actores
      /\ Registradores \cap Anuladores = {} /\ Nadie \notin Registradores
      /\ anulado \in [stock: Nat, libro: BOOLEAN, saldo: BOOLEAN, caja: BOOLEAN]
      /\ \A p \in Registradores : obj[p] \in Ops
  BY DEF Actores, Registradores, TypeOK
<1> USE <1>1
<1>2. Comprometida => venta = "void"
  BY DEF Comprometida, UnaAnula, EnAnulacion
<1>3. ASSUME NEW q \in Registradores, Comprometida, pc[q] \in ConTurno
      PROVE  pc[q] \in {"revisarEstado", "retirar"}
  <2>1. Existe(obj[q]) /\ reg[obj[q]].turno = q
    BY <1>3 DEF ConDueno
  <2> QED
    BY <1>3, <2>1 DEF SoloRevisando, Revisando
\* A record that existed keeps the owner that was looking at the sale.
<1>4. ASSUME NEW q \in Registradores,
             obj[q] = k, reg[k].turno = q, pc[q] \in {"revisarEstado", "retirar"},
             obj'[q] = k, reg'[k].turno = q, pc'[q] \in {"revisarEstado", "retirar"}
      PROVE  Revisando(k)'
  BY <1>4 DEF Revisando
<1>5. ASSUME NEW p \in Registradores,
             Pedir(p) \/ CompletarPendiente(p) \/ BarrerVarada(p) \/ Sigue(p)
      PROVE  Revisando(k)'
  <2>1. /\ Comprometida /\ venta = "void"
        /\ \A q \in Actores \ {p} : pc'[q] = pc[q]
        /\ \A q \in Registradores \ {p} : obj'[q] = obj[q]
        /\ pc[p] # "libre" => obj' = obj
    <3>1. Comprometida
      BY <1>5, RegistroNoAnula DEF Comprometida
    <3> QED
      BY <1>2, <1>5, <3>1, RegistroNoAnula
  <2>2. CASE Existe(k) /\ obj[p] # k /\ reg'[k] = reg[k]
    <3>1. PICK q \in Registradores :
            obj[q] = k /\ reg[k].turno = q /\ pc[q] \in {"revisarEstado", "retirar"}
      BY <2>1, <2>2 DEF SoloRevisando, Revisando
    <3> QED
      BY <1>4, <2>1, <2>2, <3>1
  <2>3. ASSUME Existe(k), reg'[k] = reg[k], pc[p] \notin {"revisarEstado", "retirar"}
        PROVE  Revisando(k)'
    <3>1. PICK q \in Registradores :
            obj[q] = k /\ reg[k].turno = q /\ pc[q] \in {"revisarEstado", "retirar"}
      BY <2>1, <2>3 DEF SoloRevisando, Revisando
    <3> QED
      BY <1>4, <2>1, <2>3, <3>1
  <2>4. CASE pc[p] \in ConTurno \ {"revisarEstado", "retirar"}
    BY <1>3, <2>1, <2>4
  <2>5. CASE Pedir(p) \/ CompletarPendiente(p) \/ BarrerVarada(p) \/ Buscar(p) \/ Leer(p)
    <3>1. reg' = reg /\ pc[p] \notin {"revisarEstado", "retirar"}
      BY <2>5 DEF Pedir, CompletarPendiente, BarrerVarada, Buscar, Leer, En
    <3> QED
      BY <2>3, <3>1 DEF Existe
  <2>6. CASE Crear(p)
    <3>1. CASE Existe(k)
      <4>1. reg'[k] = reg[k] /\ pc[p] \notin {"revisarEstado", "retirar"}
        BY <2>6, <3>1 DEF Crear, En, Existe, TypeOK
      <4> QED
        BY <2>3, <3>1, <4>1
    <3>2. CASE ~Existe(k)
      <4> DEFINE nuevo == [SinRegistro EXCEPT !.estado = "en_curso", !.turno = p,
                              !.monto = temp[p], !.stock = Clase[obj[p]] = "rebaja"]
      <4>1. k = obj[p]
        BY <2>6, <3>2 DEF Crear, Existe, TypeOK
      <4>2. obj' = obj /\ reg' = [reg EXCEPT ![k] = nuevo] /\ pc'[p] = "revisarEstado"
        BY <2>6, <3>2, <4>1 DEF Crear, Va, TypeOK
      <4>3. nuevo.turno = p
        BY DEF SinRegistro
      <4> QED
        BY <4>1, <4>2, <4>3 DEF Revisando, TypeOK
    <3> QED
      BY <3>1, <3>2
  <2>7. CASE RevisarEstado(p)
    <3>1. reg' = reg /\ obj' = obj /\ pc'[p] = "retirar"
      BY <2>1, <2>7 DEF RevisarEstado, Va, TypeOK
    <3>2. PICK q \in Registradores :
            obj[q] = k /\ reg[k].turno = q /\ pc[q] \in {"revisarEstado", "retirar"}
      BY <2>1, <3>1 DEF SoloRevisando, Revisando, Existe
    <3>3. pc'[q] \in {"revisarEstado", "retirar"}
      BY <2>1, <3>1, <3>2
    <3> QED
      BY <1>4, <3>1, <3>2, <3>3
  <2>8. CASE Retirar(p)
    <3>1. k # obj[p] /\ reg'[k] = reg[k]
      BY <2>8 DEF Retirar, SinRegistro, TypeOK
    <3> QED
      BY <2>2, <3>1 DEF Existe
  <2>9. CASE TomarTurno(p)
    <3>1. CASE reg' = reg
      BY <2>3, <2>9, <3>1 DEF TomarTurno, En, Existe
    <3>2. CASE Abierta(obj[p]) /\ reg[obj[p]].turno = Nadie
      BY <2>1, <3>2 DEF SoloRevisando, Revisando, Abierta, Existe
    <3> QED
      BY <2>9, <3>1, <3>2 DEF TomarTurno
  <2>10. CASE \/ RevisarSuma(p) \/ EmitirNota(p) \/ Dividir(p) \/ Guardar(p) \/ EmitirNotaC(p)
              \/ ReponerStock(p) \/ MarcarStock(p) \/ SacarDeCaja(p) \/ MarcarCaja(p)
              \/ Asentar(p) \/ MarcarLibro(p) \/ Cerrar(p) \/ SoltarTurno(p)
    BY <2>4, <2>10 DEF RevisarSuma, EmitirNota, Dividir, Guardar, EmitirNotaC, ReponerStock,
       MarcarStock, SacarDeCaja, MarcarCaja, Asentar, MarcarLibro, Cerrar, SoltarTurno,
       En, ConTurno, PasosRegistro
  <2> QED
    BY <1>5, <2>5, <2>6, <2>7, <2>8, <2>9, <2>10 DEF Sigue
<1>6. ASSUME NEW v \in Anuladores, ContarDevoluciones(v) \/ Anula(v) PROVE Revisando(k)'
  <2>1. /\ reg' = reg /\ obj' = obj /\ Existe(k)
        /\ \A q \in Registradores : pc'[q] = pc[q]
    BY <1>6 DEF ContarDevoluciones, Anula, TomarVenta, Recontar, DeshacerFlip, Existe,
       EmitirNotaAnulacion, ReponerVenta, ReversarLibro, RevertirSaldo, SacarAnulacion, Va, TypeOK
  <2>2. CASE Comprometida
    <3>1. PICK q \in Registradores :
            obj[q] = k /\ reg[k].turno = q /\ pc[q] \in {"revisarEstado", "retirar"}
      BY <2>1, <2>2 DEF SoloRevisando, Revisando
    <3> QED
      BY <1>4, <2>1, <3>1
  <2>3. CASE ~Comprometida
    <3>1. Recontar(v) /\ ~HayDevoluciones
      BY <1>6, <2>3 DEF Comprometida, ContarDevoluciones, Anula, TomarVenta, Recontar,
         DeshacerFlip, EmitirNotaAnulacion, ReponerVenta, ReversarLibro, RevertirSaldo,
         SacarAnulacion, Va, En, TypeOK
    <3> QED
      BY <2>1, <3>1 DEF HayDevoluciones
  <2> QED
    BY <2>2, <2>3
<1>7. ASSUME NEW p \in Actores, Corte(p) PROVE Revisando(k)'
  <2>1. Comprometida /\ obj' = obj
    BY <1>7 DEF Corte, Comprometida, Va, TypeOK
  <2>2. Existe(k)
    BY <1>7 DEF Corte, Existe, TypeOK, Registro
  <2>3. PICK q \in Registradores :
          obj[q] = k /\ reg[k].turno = q /\ pc[q] \in {"revisarEstado", "retirar"}
    BY <2>1, <2>2 DEF SoloRevisando, Revisando
  <2>4. q # p /\ pc'[q] = pc[q]
    BY <1>7, <2>3 DEF Corte, Va, TypeOK
  <2>5. reg'[k] = reg[k]
    BY <1>7, <2>3, <2>4 DEF Corte
  <2> QED
    BY <1>4, <2>1, <2>3, <2>4, <2>5
<1>8. CASE UNCHANGED vars
  <2>1. reg' = reg /\ obj' = obj /\ pc' = pc /\ anulado' = anulado
    BY <1>8 DEF vars
  <2> QED
    BY <1>4, <2>1 DEF SoloRevisando, Comprometida, Revisando, Existe
<1> QED
  BY <1>5, <1>6, <1>7, <1>8 DEF Next

\* A void that reversed and a return that moved never coexist, with any number
\* of both, as long as no process is lost between writing its return and
\* having looked at the sale again.
THEOREM AnuladaODevueltaSiempre ==
    ASSUME Cortan \cap {"revisarEstado", "retirar"} = {}
    PROVE  Spec => []AnuladaODevuelta
<1> DEFINE Inv == TypeOK /\ ConDueno /\ MovidoConRegistro /\ UnaAnula /\ SoloRevisando
<1>1. Init => UnaAnula /\ SoloRevisando
  BY DEF Init, UnaAnula, SoloRevisando, Existe, SinRegistro, EnAnulacion, Actores
<1>2. TypeOK /\ ConDueno /\ UnaAnula /\ SoloRevisando /\ [Next]_vars => (UnaAnula /\ SoloRevisando)'
  BY AnulaPaso, RevisandoPaso
<1>3. Inv => AnuladaODevuelta
  <2> SUFFICES ASSUME Inv, anulado.stock > 0, NEW k \in Ops, Movio(k) PROVE FALSE
    BY DEF AnuladaODevuelta
  <2>1. PICK q \in Registradores : obj[q] = k /\ pc[q] \in {"revisarEstado", "retirar"}
    BY DEF MovidoConRegistro, SoloRevisando, Comprometida, Revisando
  <2> QED
    BY <2>1 DEF MovidoConRegistro, SinMover
<1> QED
  BY <1>1, <1>2, <1>3, MovidoSiempre, PTL DEF Spec

-----------------------------------------------------------------------------
(* What a void left behind.  While the sale is void somebody is on the way to *)
(* reverse it or to undo the flip, or the stock has entered and the steps     *)
(* after it are done or under way: none of them throws.                      *)

Reversada ==
    venta = "void" =>
        \/ \E v \in Anuladores : pc[v] \in EnAnulacion
        \/ /\ anulado.stock = 1
           /\ anulado.libro \/ \E v \in Anuladores : pc[v] = "libroV"
           /\ anulado.saldo \/ \E v \in Anuladores : pc[v] \in {"libroV", "saldoV"}

LEMMA ReversadaPaso ==
    ASSUME Cortan \cap {"recontar", "deshacer", "notaV", "stockV", "libroV", "saldoV"} = {}
    PROVE  TypeOK /\ UnaAnula /\ Reversada /\ [Next]_vars => Reversada'
<1> SUFFICES ASSUME TypeOK, UnaAnula, Reversada, [Next]_vars PROVE Reversada'
  OBVIOUS
<1>1. /\ Anuladores \subseteq Actores /\ Registradores \cap Anuladores = {}
      /\ anulado \in [stock: Nat, libro: BOOLEAN, saldo: BOOLEAN, caja: BOOLEAN]
      /\ pc \in [Actores -> {"libre"} \cup PasosRegistro \cup PasosAnular]
  BY DEF Actores, TypeOK
<1> USE <1>1 DEF EnAnulacion, Va, En
<1>2. ASSUME venta' = venta, anulado' = anulado, \A v \in Anuladores : pc'[v] = pc[v]
      PROVE  Reversada'
  BY <1>2 DEF Reversada
<1>3. ASSUME NEW p \in Registradores,
             Pedir(p) \/ CompletarPendiente(p) \/ BarrerVarada(p) \/ Sigue(p)
      PROVE  Reversada'
  BY <1>2, <1>3, RegistroNoAnula
<1>4. ASSUME NEW v \in Anuladores, ContarDevoluciones(v) PROVE Reversada'
  BY <1>4 DEF ContarDevoluciones, Reversada
<1>5. ASSUME NEW v \in Anuladores, TomarVenta(v) PROVE Reversada'
  BY <1>5 DEF TomarVenta, Reversada
<1>6. ASSUME NEW v \in Anuladores, Recontar(v) PROVE Reversada'
  BY <1>6 DEF Recontar, Reversada
<1>7. ASSUME NEW v \in Anuladores, DeshacerFlip(v) PROVE Reversada'
  BY <1>7 DEF DeshacerFlip, Reversada
<1>8. ASSUME NEW v \in Anuladores, EmitirNotaAnulacion(v) PROVE Reversada'
  BY <1>8 DEF EmitirNotaAnulacion, Reversada
<1>9. ASSUME NEW v \in Anuladores, ReponerVenta(v) PROVE Reversada'
  <2>1. anulado.stock = 0 /\ \A w \in Anuladores \ {v} : pc[w] \notin EnAnulacion
    BY <1>9 DEF ReponerVenta, UnaAnula
  <2> QED
    BY <1>9, <2>1 DEF ReponerVenta, Reversada
<1>10. ASSUME NEW v \in Anuladores, ReversarLibro(v) PROVE Reversada'
  BY <1>10 DEF ReversarLibro, Reversada
<1>11. ASSUME NEW v \in Anuladores, RevertirSaldo(v) PROVE Reversada'
  BY <1>11 DEF RevertirSaldo, Reversada
<1>12. ASSUME NEW v \in Anuladores, SacarAnulacion(v) PROVE Reversada'
  <2>1. /\ venta' = venta /\ anulado'.stock = anulado.stock
        /\ anulado'.libro = anulado.libro /\ anulado'.saldo = anulado.saldo
        /\ \A w \in Anuladores : pc[w] # "cajaV" => pc'[w] = pc[w]
    BY <1>12 DEF SacarAnulacion
  <2> QED
    BY <2>1 DEF Reversada
<1>13. ASSUME NEW p \in Actores, Corte(p) PROVE Reversada'
  <2>1. /\ venta' = venta /\ anulado' = anulado
        /\ \A v \in Anuladores : pc[v] \notin Cortan => pc'[v] = pc[v]
    BY <1>13 DEF Corte
  <2> QED
    BY <2>1 DEF Reversada
<1>14. CASE UNCHANGED vars
  BY <1>2, <1>14 DEF vars
<1> QED
  BY <1>3, <1>4, <1>5, <1>6, <1>7, <1>8, <1>9, <1>10, <1>11, <1>12, <1>13, <1>14
  DEF Next, Anula

\* A sale left void was reversed once, its ledger and its balance included, with
\* any number of callers and refusals, when none of them is lost on the way.
THEOREM ReversadaSiempre ==
    ASSUME Cortan \cap {"recontar", "deshacer", "notaV", "stockV", "libroV", "saldoV"} = {}
    PROVE  Spec => []AnuladaFueReversada
<1>1. Init => UnaAnula /\ Reversada
  BY DEF Init, UnaAnula, Reversada, EnAnulacion, Actores
<1>2. TypeOK /\ UnaAnula /\ Reversada /\ [Next]_vars => (UnaAnula /\ Reversada)'
  BY AnulaPaso, ReversadaPaso
<1>3. Reversada => AnuladaFueReversada
  BY DEF Reversada, AnuladaFueReversada, EnAnulacion
<1> QED
  BY <1>1, <1>2, <1>3, TiposSiempre, PTL DEF Spec

-----------------------------------------------------------------------------
(* The account of a record.  Its marks, and the step of whoever has its turn, *)
(* say exactly what of it has moved; the window between a movement and its    *)
(* mark is the only one where a lost process would leave them apart.         *)

EnMano(k, paso) ==
    LET p == reg[k].turno IN p \in Registradores /\ obj[p] = k /\ pc[p] = paso

Cuenta(k) ==
    /\ entradas[k] = IF Clase[k] = "devolucion" /\ (reg[k].stock \/ EnMano(k, "marcaStock"))
                     THEN 1 ELSE 0
    /\ salidas[k] = IF reg[k].caja \/ EnMano(k, "marcaCaja") THEN EnPlata(k) ELSE 0
    /\ reg[k].libro \/ EnMano(k, "marcaLibro") => abonado[k] = AlSaldo(k)
    /\ abonado[k] \in {0, AlSaldo(k)}
    /\ reg[k].aSaldo <= reg[k].monto
    /\ ~reg[k].cartera => ~reg[k].caja /\ ~reg[k].libro /\ abonado[k] = 0
    /\ Clase[k] = "rebaja" => reg[k].stock
    /\ reg[k].estado = "completa" => reg[k].stock /\ reg[k].caja /\ reg[k].libro

PasoDe(p) ==
    LET r == reg[obj[p]]
    IN  /\ pc[p] \in SinMover \cup {"dividir", "dividirC", "guardar", "guardarC"} => ~r.cartera
        /\ pc[p] \in {"guardar", "guardarC"} => temp[p] <= r.monto
        /\ pc[p] \in {"notaC", "stock", "marcaStock", "caja", "marcaCaja", "libro",
                      "marcaLibro", "cerrar"} => r.cartera
        /\ pc[p] \in {"stock", "marcaStock"} => ~r.stock
        /\ pc[p] \in {"caja", "marcaCaja"} => ~r.caja

Cuentas ==
    /\ \A k \in Ops : Existe(k) => Cuenta(k)
    /\ \A p \in Registradores : PasoDe(p)

\* Every step of a registrar.
Paso(p) == Pedir(p) \/ CompletarPendiente(p) \/ BarrerVarada(p) \/ Sigue(p)

\* It writes its record and nothing of the others'.
LEMMA SoloSuRegistro ==
    ASSUME TypeOK, NEW p \in Registradores, Paso(p), NEW k \in Ops, k # obj[p]
    PROVE  /\ reg'[k] = reg[k] /\ entradas'[k] = entradas[k]
           /\ salidas'[k] = salidas[k] /\ abonado'[k] = abonado[k]
<1> USE DEF TypeOK
<1>1. CASE \/ Pedir(p) \/ CompletarPendiente(p) \/ BarrerVarada(p) \/ Buscar(p) \/ Leer(p)
           \/ RevisarEstado(p) \/ RevisarSuma(p) \/ EmitirNota(p) \/ Dividir(p)
  BY <1>1 DEF Pedir, CompletarPendiente, BarrerVarada, Buscar, Leer, RevisarEstado,
     RevisarSuma, EmitirNota, Dividir
<1>2. CASE Crear(p) \/ Retirar(p) \/ TomarTurno(p)
  BY <1>2 DEF Crear, Retirar, TomarTurno
<1>3. CASE Guardar(p) \/ EmitirNotaC(p) \/ MarcarStock(p) \/ MarcarCaja(p) \/ MarcarLibro(p)
  BY <1>3 DEF Guardar, EmitirNotaC, MarcarStock, MarcarCaja, MarcarLibro
<1>4. CASE ReponerStock(p) \/ SacarDeCaja(p) \/ Asentar(p)
  BY <1>4 DEF ReponerStock, SacarDeCaja, Asentar
<1>5. CASE Cerrar(p) \/ SoltarTurno(p)
  BY <1>5 DEF Cerrar, SoltarTurno
<1> QED
  BY <1>1, <1>2, <1>3, <1>4, <1>5 DEF Paso, Sigue

\* Whoever works on a record is who its turn names.
LEMMA ManoDe ==
    ASSUME ConDueno, NEW p \in Registradores, pc[p] \in ConTurno
    PROVE  \A x : EnMano(obj[p], x) <=> pc[p] = x
BY DEF ConDueno, EnMano

\* Nothing of a record's account depends on the others nor on the turn.
LEMMA CuentaIgual ==
    ASSUME NEW k \in Ops, Cuenta(k),
           reg'[k].monto = reg[k].monto, reg'[k].aSaldo = reg[k].aSaldo,
           reg'[k].cartera = reg[k].cartera, reg'[k].stock = reg[k].stock,
           reg'[k].caja = reg[k].caja, reg'[k].libro = reg[k].libro,
           reg'[k].estado = reg[k].estado,
           entradas'[k] = entradas[k], salidas'[k] = salidas[k], abonado'[k] = abonado[k],
           EnMano(k, "marcaStock")' <=> EnMano(k, "marcaStock"),
           EnMano(k, "marcaCaja")' <=> EnMano(k, "marcaCaja"),
           EnMano(k, "marcaLibro")' => EnMano(k, "marcaLibro")
    PROVE  Cuenta(k)'
<1>1. EnPlata(k)' = EnPlata(k) /\ AlSaldo(k)' = AlSaldo(k)
  BY DEF EnPlata, AlSaldo, Monto
<1> QED
  BY <1>1 DEF Cuenta

LEMMA ManoAjena ==
    ASSUME TypeOK, NEW p \in Registradores, Paso(p), NEW k \in Ops, k # obj[p]
    PROVE  \A x \in ConTurno : EnMano(k, x)' <=> EnMano(k, x)
<1>1. reg'[k] = reg[k]
  BY SoloSuRegistro
<1>2. /\ \A q \in Actores \ {p} : pc'[q] = pc[q]
      /\ \A q \in Registradores \ {p} : obj'[q] = obj[q]
      /\ pc[p] # "libre" => obj' = obj
  BY RegistroNoAnula DEF Paso
<1>3. pc[p] = "libre" => pc'[p] \notin ConTurno
  BY DEF Paso, Sigue, Pedir, CompletarPendiente, BarrerVarada, Buscar, Leer, Crear,
     RevisarEstado, RevisarSuma, Retirar, EmitirNota, TomarTurno, Dividir, Guardar, EmitirNotaC,
     ReponerStock, MarcarStock, SacarDeCaja, MarcarCaja, Asentar, MarcarLibro, Cerrar,
     SoltarTurno, Va, En, ConTurno, PasosRegistro, TypeOK, Actores
<1> QED
  BY <1>1, <1>2, <1>3 DEF EnMano, Actores, ConTurno, PasosRegistro

\* The accounts of the other records, and the steps of the other actors, stay.
LEMMA CuentaAjena ==
    ASSUME TypeOK, ConDueno, Cuentas, NEW p \in Registradores, Paso(p)
    PROVE  /\ \A k \in Ops \ {obj[p]} : (Existe(k) => Cuenta(k))'
           /\ \A q \in Registradores \ {p} :
                pc[q] \in ConTurno /\ obj[q] # obj[p] => PasoDe(q)'
           /\ \A q \in Registradores \ {p} : pc[q] \notin ConTurno => PasoDe(q)'
<1>1. ASSUME NEW k \in Ops \ {obj[p]}, Existe(k)' PROVE Cuenta(k)'
  <2>1. /\ reg'[k] = reg[k] /\ entradas'[k] = entradas[k]
        /\ salidas'[k] = salidas[k] /\ abonado'[k] = abonado[k]
    BY SoloSuRegistro
  <2>2. Cuenta(k)
    BY <1>1, <2>1 DEF Cuentas, Existe
  <2>3. \A x \in {"marcaStock", "marcaCaja", "marcaLibro"} : EnMano(k, x)' <=> EnMano(k, x)
    BY ManoAjena DEF ConTurno, PasosRegistro
  <2> QED
    BY <2>1, <2>2, <2>3, CuentaIgual
<1>2. ASSUME NEW q \in Registradores \ {p}
      PROVE  pc'[q] = pc[q] /\ obj'[q] = obj[q] /\ temp'[q] = temp[q]
  <2>1. pc'[q] = pc[q] /\ obj'[q] = obj[q]
    BY RegistroNoAnula DEF Paso, Actores
  <2>2. temp'[q] = temp[q]
    BY DEF Paso, Sigue, Pedir, CompletarPendiente, BarrerVarada, Buscar, Leer, Crear,
     RevisarEstado, RevisarSuma, Retirar, EmitirNota, TomarTurno, Dividir, Guardar, EmitirNotaC,
     ReponerStock, MarcarStock, SacarDeCaja, MarcarCaja, Asentar, MarcarLibro, Cerrar,
     SoltarTurno, TypeOK
  <2> QED
    BY <2>1, <2>2
<1>3. ASSUME NEW q \in Registradores \ {p}, pc[q] \in ConTurno, obj[q] # obj[p]
      PROVE  PasoDe(q)'
  <2>1. reg'[obj[q]] = reg[obj[q]]
    BY <1>3, SoloSuRegistro DEF TypeOK
  <2> QED
    BY <1>2, <2>1 DEF PasoDe, Cuentas
<1>4. ASSUME NEW q \in Registradores \ {p}, pc[q] \notin ConTurno PROVE PasoDe(q)'
  BY <1>2, <1>4 DEF PasoDe, ConTurno, PasosRegistro, SinMover
<1> QED
  BY <1>1, <1>3, <1>4

\* The step of whoever has the turn keeps its account and leaves it where it goes.
LEMMA CuentaPropia ==
    ASSUME TypeOK, ConDueno, MovidoConRegistro, Cuentas,
           NEW p \in Registradores, Paso(p), pc[p] \in ConTurno,
           NEW k \in Ops, obj[p] = k
    PROVE  (Existe(k)' => Cuenta(k)') /\ PasoDe(p)'
<1>1. /\ Registradores \subseteq Actores /\ k \in Ops /\ reg[k] \in Registro
      /\ Existe(k) /\ reg[k].turno = p
      /\ p # Nadie /\ temp[p] \in Nat
  BY DEF TypeOK, Actores, ConDueno, Registradores
<1>2. Cuenta(k) /\ PasoDe(p)
  BY <1>1 DEF Cuentas
<1>3. \A x : EnMano(k, x) <=> pc[p] = x
  BY ManoDe
<1>4. obj' = obj
  BY RegistroNoAnula DEF Paso, ConTurno, PasosRegistro
<1>5. ASSUME reg'[k].turno = p PROVE \A x : EnMano(k, x)' <=> pc'[p] = x
  BY <1>1, <1>4, <1>5 DEF EnMano
<1>6. /\ EnPlata(k) = IF Medio[k] = "cash" THEN NoNeg(Monto(k) - reg[k].aSaldo) ELSE 0
      /\ EnPlata(k) \in Nat /\ AlSaldo(k) \in Nat
  BY <1>1, TiposDatos DEF EnPlata
<1> DEFINE Igual == /\ reg'[k].monto = reg[k].monto /\ reg'[k].aSaldo = reg[k].aSaldo
                    /\ reg'[k].cartera = reg[k].cartera /\ reg'[k].caja = reg[k].caja
                    /\ reg'[k].turno = reg[k].turno
\* The steps that do not write the record.
<1>7. ASSUME reg' = reg, UNCHANGED <<entradas, salidas, abonado>>,
             pc[p] \notin {"marcaStock", "marcaCaja", "marcaLibro"},
             pc'[p] \notin {"marcaStock", "marcaCaja", "marcaLibro"}
      PROVE  Cuenta(k)'
  BY <1>1, <1>2, <1>3, <1>5, <1>7, CuentaIgual
<1>8. CASE RevisarEstado(p) \/ RevisarSuma(p) \/ EmitirNota(p)
  <2>1. /\ reg' = reg /\ UNCHANGED <<entradas, salidas, abonado>>
        /\ pc[p] \in SinMover /\ pc'[p] \in SinMover \cup {"dividir"}
    BY <1>1, <1>8 DEF RevisarEstado, RevisarSuma, EmitirNota, Va, En, SinMover, TypeOK
  <2>2. Cuenta(k)'
    BY <1>7, <2>1 DEF SinMover
  <2>3. PasoDe(p)'
    BY <1>2, <1>4, <2>1 DEF PasoDe, SinMover
  <2> QED
    BY <2>2, <2>3
<1>9. CASE Retirar(p)
  <2>1. reg'[k].estado = "no" /\ pc'[p] = "libre"
    BY <1>1, <1>9 DEF Retirar, Va, SinRegistro, TypeOK
  <2> QED
    BY <2>1, <1>4 DEF PasoDe, SinMover, Existe
<1>10. CASE Dividir(p)
  <2>1. /\ reg' = reg /\ UNCHANGED <<entradas, salidas, abonado>>
        /\ pc[p] \in {"dividir", "dividirC"} /\ pc'[p] \in {"guardar", "guardarC"}
        /\ temp'[p] = ParteASaldo(k)
    BY <1>1, <1>10 DEF Dividir, Va, En, TypeOK
  <2>2. ParteASaldo(k) <= reg[k].monto
    BY <1>1, Recorta DEF ParteASaldo, Menor, Monto, Registro
  <2>3. Cuenta(k)'
    BY <1>7, <2>1
  <2>4. PasoDe(p)'
    BY <1>2, <1>4, <2>1, <2>2 DEF PasoDe, SinMover
  <2> QED
    BY <2>3, <2>4
<1>11. CASE Guardar(p)
  <2>1. /\ UNCHANGED <<entradas, salidas, abonado>>
        /\ reg'[k].monto = reg[k].monto /\ reg'[k].aSaldo = temp[p]
        /\ reg'[k].cartera /\ reg'[k].stock = reg[k].stock
        /\ reg'[k].caja = reg[k].caja /\ reg'[k].libro = reg[k].libro
        /\ reg'[k].estado = reg[k].estado /\ reg'[k].turno = p
        /\ pc[p] \in {"guardar", "guardarC"} /\ pc'[p] = TrasCartera(reg'[k])
    BY <1>1, <1>11 DEF Guardar, Va, TypeOK, Registro
  <2>2. ~reg[k].cartera /\ temp[p] <= reg[k].monto
    BY <1>2, <2>1 DEF PasoDe
  <2>3. /\ ~reg[k].caja /\ ~reg[k].libro /\ salidas[k] = 0 /\ abonado[k] = 0
        /\ entradas[k] = IF Clase[k] = "devolucion" /\ reg[k].stock THEN 1 ELSE 0
        /\ Clase[k] = "rebaja" => reg[k].stock
        /\ reg[k].estado # "completa"
    BY <1>2, <1>3, <2>1, <2>2 DEF Cuenta
  <2>4. /\ pc'[p] \in {"notaC", "stock", "caja", "libro", "cerrar"}
        /\ pc'[p] = "stock" => ~reg'[k].stock
        /\ pc'[p] = "caja" => ~reg'[k].caja
    BY <2>1 DEF TrasCartera, Completar, SinCaja
  <2>5. ~EnMano(k, "marcaStock")' /\ ~EnMano(k, "marcaCaja")' /\ ~EnMano(k, "marcaLibro")'
    BY <1>5, <2>1, <2>4
  <2>6. Cuenta(k)'
    BY <2>1, <2>2, <2>3, <2>5 DEF Cuenta
  <2>7. PasoDe(p)'
    BY <1>4, <2>1, <2>4 DEF PasoDe, SinMover
  <2> QED
    BY <2>6, <2>7
<1>12. CASE EmitirNotaC(p)
  <2>1. /\ UNCHANGED <<entradas, salidas, abonado>>
        /\ Igual /\ reg'[k].stock = reg[k].stock /\ reg'[k].libro = reg[k].libro
        /\ reg'[k].estado = reg[k].estado
    BY <1>1, <1>12, SMTT(30) DEF EmitirNotaC, TypeOK, Registro
  <2>2. pc[p] = "notaC" /\ (pc'[p] = "soltar" \/ pc'[p] = Completar(reg[k]))
    BY <1>1, <1>12 DEF EmitirNotaC, Va, En, TypeOK
  <2>3. /\ pc'[p] \in {"soltar", "stock", "caja", "libro", "cerrar"}
        /\ pc'[p] = "stock" => ~reg[k].stock
        /\ pc'[p] = "caja" => ~reg[k].caja
    BY <2>2 DEF Completar, SinCaja
  <2>4. Cuenta(k)'
    BY <1>1, <1>2, <1>3, <1>5, <2>1, <2>2, <2>3, CuentaIgual
  <2>5. PasoDe(p)'
    BY <1>2, <1>4, <2>1, <2>2, <2>3 DEF PasoDe, SinMover
  <2> QED
    BY <2>4, <2>5
<1>13. CASE ReponerStock(p)
  <2>1. /\ reg' = reg /\ UNCHANGED <<salidas, abonado>> /\ entradas'[k] = entradas[k] + 1
        /\ pc[p] = "stock" /\ pc'[p] = "marcaStock"
    BY <1>1, <1>13 DEF ReponerStock, Va, En, TypeOK
  <2>2. ~reg[k].stock /\ reg[k].cartera
    BY <1>2, <2>1 DEF PasoDe
  <2>3. Clase[k] = "devolucion" /\ entradas[k] = 0
    BY <1>1, <1>2, <1>3, <2>1, <2>2 DEF Cuenta
  <2>4. EnPlata(k)' = EnPlata(k) /\ AlSaldo(k)' = AlSaldo(k)
    BY <2>1 DEF EnPlata, AlSaldo, Monto
  <2>5. EnMano(k, "marcaStock")' /\ ~EnMano(k, "marcaCaja")' /\ ~EnMano(k, "marcaLibro")'
    BY <1>1, <1>5, <2>1
  <2>6. ~EnMano(k, "marcaStock") /\ ~EnMano(k, "marcaCaja") /\ ~EnMano(k, "marcaLibro")
    BY <1>3, <2>1
  <2>7. Cuenta(k)'
    BY <1>2, <2>1, <2>2, <2>3, <2>4, <2>5, <2>6 DEF Cuenta
  <2>8. PasoDe(p)'
    BY <1>4, <2>1, <2>2 DEF PasoDe, SinMover
  <2> QED
    BY <2>7, <2>8
<1>14. CASE MarcarStock(p)
  <2>1. /\ UNCHANGED <<entradas, salidas, abonado>> /\ Igual /\ reg'[k].stock
        /\ reg'[k].libro = reg[k].libro /\ reg'[k].estado = reg[k].estado
        /\ pc[p] = "marcaStock" /\ pc'[p] = Completar(reg'[k])
    BY <1>1, <1>14 DEF MarcarStock, Va, En, TypeOK, Registro
  <2>2. ~reg[k].stock /\ reg[k].cartera
    BY <1>2, <2>1 DEF PasoDe
  <2>3. pc'[p] \in {"caja", "libro", "cerrar"} /\ (pc'[p] = "caja" => ~reg'[k].caja)
    BY <2>1 DEF Completar, SinCaja
  <2>4. EnPlata(k)' = EnPlata(k) /\ AlSaldo(k)' = AlSaldo(k)
    BY <2>1 DEF EnPlata, AlSaldo, Monto
  <2>5. ~EnMano(k, "marcaStock")' /\ ~EnMano(k, "marcaCaja")' /\ ~EnMano(k, "marcaLibro")'
    BY <1>1, <1>5, <2>1, <2>3
  <2>6. EnMano(k, "marcaStock") /\ ~EnMano(k, "marcaCaja") /\ ~EnMano(k, "marcaLibro")
    BY <1>3, <2>1
  <2>7. Cuenta(k)'
    BY <1>2, <2>1, <2>2, <2>4, <2>5, <2>6 DEF Cuenta
  <2>8. PasoDe(p)'
    BY <1>4, <2>1, <2>2, <2>3 DEF PasoDe, SinMover
  <2> QED
    BY <2>7, <2>8
<1>15. CASE SacarDeCaja(p)
  <2>1. /\ reg' = reg /\ UNCHANGED <<entradas, abonado>> /\ pc[p] = "caja"
        /\ \/ pc'[p] = "marcaCaja" /\ salidas'[k] = salidas[k] + EnPlata(k)
           \/ pc'[p] \in {"libro", "cerrar", "soltar"} /\ salidas' = salidas
    BY <1>1, <1>6, <1>15 DEF SacarDeCaja, SinCaja, Va, En, TypeOK
  <2>2. ~reg[k].caja /\ reg[k].cartera
    BY <1>2, <2>1 DEF PasoDe
  <2>3. salidas[k] = 0
    BY <1>2, <1>3, <2>1, <2>2 DEF Cuenta
  <2>4. EnPlata(k)' = EnPlata(k) /\ AlSaldo(k)' = AlSaldo(k)
    BY <2>1 DEF EnPlata, AlSaldo, Monto
  <2>5. ~EnMano(k, "marcaStock")' /\ ~EnMano(k, "marcaLibro")'
        /\ (EnMano(k, "marcaCaja")' <=> pc'[p] = "marcaCaja")
    BY <1>1, <1>5, <2>1
  <2>6. ~EnMano(k, "marcaStock") /\ ~EnMano(k, "marcaCaja") /\ ~EnMano(k, "marcaLibro")
    BY <1>3, <2>1
  <2>7. salidas'[k] = IF pc'[p] = "marcaCaja" THEN EnPlata(k) ELSE 0
    BY <1>6, <2>1, <2>3
  <2>8. Cuenta(k)'
    BY <1>2, <2>1, <2>2, <2>4, <2>5, <2>6, <2>7 DEF Cuenta
  <2>9. PasoDe(p)'
    BY <1>4, <2>1, <2>2 DEF PasoDe, SinMover
  <2> QED
    BY <2>8, <2>9
<1>16. CASE MarcarCaja(p)
  <2>1. /\ UNCHANGED <<entradas, salidas, abonado>> /\ reg'[k].caja
        /\ reg'[k].monto = reg[k].monto /\ reg'[k].aSaldo = reg[k].aSaldo
        /\ reg'[k].cartera = reg[k].cartera /\ reg'[k].stock = reg[k].stock
        /\ reg'[k].libro = reg[k].libro /\ reg'[k].estado = reg[k].estado
        /\ reg'[k].turno = p /\ pc[p] = "marcaCaja" /\ pc'[p] = SinCaja(reg[k])
    BY <1>1, <1>16 DEF MarcarCaja, Va, En, TypeOK, Registro
  <2>2. ~reg[k].caja /\ reg[k].cartera
    BY <1>2, <2>1 DEF PasoDe
  <2>3. pc'[p] \in {"libro", "cerrar"}
    BY <2>1 DEF SinCaja
  <2>4. EnPlata(k)' = EnPlata(k) /\ AlSaldo(k)' = AlSaldo(k)
    BY <2>1 DEF EnPlata, AlSaldo, Monto
  <2>5. ~EnMano(k, "marcaStock")' /\ ~EnMano(k, "marcaCaja")' /\ ~EnMano(k, "marcaLibro")'
    BY <1>1, <1>5, <2>1, <2>3
  <2>6. ~EnMano(k, "marcaStock") /\ EnMano(k, "marcaCaja") /\ ~EnMano(k, "marcaLibro")
    BY <1>3, <2>1
  <2>7. Cuenta(k)'
    BY <1>2, <2>1, <2>2, <2>4, <2>5, <2>6 DEF Cuenta
  <2>8. PasoDe(p)'
    BY <1>4, <2>1, <2>2, <2>3 DEF PasoDe, SinMover
  <2> QED
    BY <2>7, <2>8
<1>17. CASE Asentar(p)
  <2>1. /\ reg' = reg /\ UNCHANGED <<entradas, salidas>>
        /\ abonado'[k] = (IF abonado[k] = 0 THEN AlSaldo(k) ELSE abonado[k])
        /\ pc[p] = "libro" /\ pc'[p] = "marcaLibro"
    BY <1>1, <1>17 DEF Asentar, Va, En, TypeOK
  <2>2. reg[k].cartera
    BY <1>2, <2>1 DEF PasoDe
  <2>3. abonado'[k] = AlSaldo(k)
    BY <1>2, <2>1 DEF Cuenta
  <2>4. EnPlata(k)' = EnPlata(k) /\ AlSaldo(k)' = AlSaldo(k)
    BY <2>1 DEF EnPlata, AlSaldo, Monto
  <2>5. ~EnMano(k, "marcaStock")' /\ ~EnMano(k, "marcaCaja")'
    BY <1>1, <1>5, <2>1
  <2>6. ~EnMano(k, "marcaStock") /\ ~EnMano(k, "marcaCaja")
    BY <1>3, <2>1
  <2>7. Cuenta(k)'
    BY <1>2, <2>1, <2>2, <2>3, <2>4, <2>5, <2>6 DEF Cuenta
  <2>8. PasoDe(p)'
    BY <1>4, <2>1, <2>2 DEF PasoDe, SinMover
  <2> QED
    BY <2>7, <2>8
<1>18. CASE MarcarLibro(p)
  <2>1. /\ UNCHANGED <<entradas, salidas, abonado>> /\ Igual /\ reg'[k].libro
        /\ reg'[k].stock = reg[k].stock /\ reg'[k].estado = reg[k].estado
        /\ pc[p] = "marcaLibro" /\ pc'[p] = "cerrar"
    BY <1>1, <1>18 DEF MarcarLibro, Va, En, TypeOK, Registro
  <2>2. reg[k].cartera
    BY <1>2, <2>1 DEF PasoDe
  <2>3. EnPlata(k)' = EnPlata(k) /\ AlSaldo(k)' = AlSaldo(k)
    BY <2>1 DEF EnPlata, AlSaldo, Monto
  <2>4. ~EnMano(k, "marcaStock")' /\ ~EnMano(k, "marcaCaja")' /\ ~EnMano(k, "marcaLibro")'
    BY <1>1, <1>5, <2>1
  <2>5. ~EnMano(k, "marcaStock") /\ ~EnMano(k, "marcaCaja") /\ EnMano(k, "marcaLibro")
    BY <1>3, <2>1
  <2>6. Cuenta(k)'
    BY <1>2, <2>1, <2>2, <2>3, <2>4, <2>5 DEF Cuenta
  <2>7. PasoDe(p)'
    BY <1>4, <2>1, <2>2 DEF PasoDe, SinMover
  <2> QED
    BY <2>6, <2>7
<1>19. CASE Cerrar(p)
  <2>1. /\ UNCHANGED <<entradas, salidas, abonado>> /\ Igual
        /\ reg'[k].stock = reg[k].stock /\ reg'[k].libro = reg[k].libro
        /\ \/ reg'[k].estado = reg[k].estado
           \/ reg'[k].estado # "completa"
           \/ reg[k].stock /\ reg[k].caja /\ reg[k].libro
    BY <1>1, <1>19 DEF Cerrar, TypeOK, Registro
  <2>2. pc[p] = "cerrar" /\ pc'[p] = "soltar"
    BY <1>1, <1>19 DEF Cerrar, Va, En, TypeOK
  <2>3. EnPlata(k)' = EnPlata(k) /\ AlSaldo(k)' = AlSaldo(k)
    BY <2>1 DEF EnPlata, AlSaldo, Monto
  <2>4. ~EnMano(k, "marcaStock")' /\ ~EnMano(k, "marcaCaja")' /\ ~EnMano(k, "marcaLibro")'
    BY <1>1, <1>5, <2>1, <2>2
  <2>5. ~EnMano(k, "marcaStock") /\ ~EnMano(k, "marcaCaja") /\ ~EnMano(k, "marcaLibro")
    BY <1>3, <2>2
  <2>6. Cuenta(k)'
    BY <1>2, <2>1, <2>3, <2>4, <2>5 DEF Cuenta
  <2>7. PasoDe(p)'
    BY <1>4, <2>2 DEF PasoDe, SinMover
  <2> QED
    BY <2>6, <2>7
<1>20. CASE SoltarTurno(p)
  <2>1. /\ UNCHANGED <<entradas, salidas, abonado>>
        /\ reg' = [reg EXCEPT ![k] = [reg[k] EXCEPT !.turno = Nadie]]
        /\ pc[p] = "soltar" /\ pc'[p] = "libre"
    BY <1>1, <1>20 DEF SoltarTurno, Va, En, TypeOK
  <2>2. /\ reg'[k].monto = reg[k].monto /\ reg'[k].aSaldo = reg[k].aSaldo
        /\ reg'[k].cartera = reg[k].cartera /\ reg'[k].stock = reg[k].stock
        /\ reg'[k].caja = reg[k].caja /\ reg'[k].libro = reg[k].libro
        /\ reg'[k].estado = reg[k].estado /\ reg'[k].turno = Nadie
    BY <1>1, <2>1 DEF TypeOK, Registro
  <2>3. \A x : ~EnMano(k, x)'
    BY <2>2 DEF EnMano, Actores
  <2>4. ~EnMano(k, "marcaStock") /\ ~EnMano(k, "marcaCaja") /\ ~EnMano(k, "marcaLibro")
    BY <1>3, <2>1
  <2>5. Cuenta(k)'
    BY <1>1, <1>2, <2>1, <2>2, <2>3, <2>4, CuentaIgual
  <2>6. PasoDe(p)'
    BY <1>4, <2>1 DEF PasoDe, SinMover
  <2> QED
    BY <2>5, <2>6
<1>21. ~(Pedir(p) \/ CompletarPendiente(p) \/ BarrerVarada(p) \/ Buscar(p) \/ Leer(p)
         \/ Crear(p) \/ TomarTurno(p))
  BY
  DEF Pedir, CompletarPendiente, BarrerVarada, Buscar, Leer, Crear, TomarTurno, En, ConTurno,
     PasosRegistro
<1> QED
  BY <1>8, <1>9, <1>10, <1>11, <1>12, <1>13, <1>14, <1>15, <1>16, <1>17, <1>18, <1>19, <1>20,
     <1>21 DEF Paso, Sigue

LEMMA CuentasPaso ==
    ASSUME Cortan \cap {"marcaStock", "marcaCaja"} = {}
    PROVE  TypeOK /\ ConDueno /\ MovidoConRegistro /\ Cuentas /\ [Next]_vars => Cuentas'
<1> SUFFICES ASSUME TypeOK, ConDueno, MovidoConRegistro, Cuentas, [Next]_vars PROVE Cuentas'
  OBVIOUS
<1>1. /\ Registradores \subseteq Actores /\ Anuladores \subseteq Actores
      /\ Registradores \cap Anuladores = {} /\ Nadie \notin Registradores
      /\ \A p \in Registradores : obj[p] \in Ops
      /\ \A k \in Ops : reg[k] \in Registro
  BY DEF TypeOK, Actores, Registradores
\* Nobody's record, account nor step changes.
<1>2. ASSUME reg' = reg, obj' = obj, temp' = temp, UNCHANGED <<entradas, salidas, abonado>>,
             \A p \in Registradores : pc'[p] = pc[p]
      PROVE  Cuentas'
  <2>1. ASSUME NEW k \in Ops, Existe(k)' PROVE Cuenta(k)'
    <3>1. Cuenta(k) /\ \A x : EnMano(k, x)' <=> EnMano(k, x)
      BY <1>2, <2>1 DEF Cuentas, Existe, EnMano
    <3> QED
      BY <1>2, <3>1, CuentaIgual
  <2>2. ASSUME NEW p \in Registradores PROVE PasoDe(p)'
    BY <1>2 DEF Cuentas, PasoDe
  <2> QED
    BY <2>1, <2>2 DEF Cuentas
<1>3. ASSUME NEW p \in Registradores, Paso(p), pc[p] \in ConTurno PROVE Cuentas'
  <2>1. \A q \in Registradores \ {p} : pc[q] \in ConTurno => obj[q] # obj[p]
    BY <1>3 DEF ConDueno
  <2>2. PICK k \in Ops : obj[p] = k
    BY <1>1
  <2>3. (Existe(k)' => Cuenta(k)') /\ PasoDe(p)'
    BY <1>3, <2>2, CuentaPropia
  <2>4. ASSUME NEW q \in Registradores PROVE PasoDe(q)'
    BY <1>3, <2>1, <2>3, CuentaAjena
  <2>5. ASSUME NEW o \in Ops, Existe(o)' PROVE Cuenta(o)'
    BY <1>3, <2>2, <2>3, <2>5, CuentaAjena
  <2> QED
    BY <2>4, <2>5 DEF Cuentas
<1>4. ASSUME NEW p \in Registradores, Paso(p), pc[p] \notin ConTurno PROVE Cuentas'
  <2> DEFINE k == obj[p]
  \* The steps with nothing in hand leave every record as it was.
  <2>1. ASSUME reg' = reg, UNCHANGED <<entradas, salidas, abonado>>, pc'[p] \notin ConTurno
        PROVE  Cuentas'
    <3>1. ASSUME NEW o \in Ops, Existe(o)' PROVE Cuenta(o)'
      <4>1. Cuenta(o)
        BY <2>1, <3>1 DEF Cuentas, Existe
      <4>2. /\ \A q \in Actores \ {p} : pc'[q] = pc[q]
            /\ \A q \in Registradores \ {p} : obj'[q] = obj[q]
        BY <1>4, RegistroNoAnula DEF Paso
      <4>3. \A x \in ConTurno : EnMano(o, x)' <=> EnMano(o, x)
        BY <1>1, <1>4, <2>1, <4>2 DEF EnMano
      <4>4. \A x \in {"marcaStock", "marcaCaja", "marcaLibro"} : EnMano(o, x)' <=> EnMano(o, x)
        BY <4>3 DEF ConTurno, PasosRegistro
      <4> QED
        BY <2>1, <4>1, <4>4, CuentaIgual
    <3>2. PasoDe(p)'
      BY <2>1 DEF PasoDe, ConTurno, PasosRegistro, SinMover
    <3>3. ASSUME NEW q \in Registradores \ {p} PROVE PasoDe(q)'
      <4>1. pc'[q] = pc[q] /\ obj'[q] = obj[q]
        BY <1>1, <1>4, RegistroNoAnula DEF Paso
      <4>2. CASE obj[q] # k \/ pc[q] \notin ConTurno
        BY <1>4, <4>2, CuentaAjena
      <4>3. temp'[q] = temp[q]
        BY <1>4 DEF Paso, Sigue, Pedir, CompletarPendiente, BarrerVarada, Buscar, Leer, Crear,
           RevisarEstado, RevisarSuma, Retirar, EmitirNota, TomarTurno, Dividir, Guardar,
           EmitirNotaC, ReponerStock, MarcarStock, SacarDeCaja, MarcarCaja, Asentar,
           MarcarLibro, Cerrar, SoltarTurno, TypeOK
      <4> QED
        BY <2>1, <4>1, <4>3 DEF PasoDe, Cuentas
    <3>4. ASSUME NEW q \in Registradores PROVE PasoDe(q)'
      BY <3>2, <3>3
    <3> QED
      BY <3>1, <3>4 DEF Cuentas
  <2>2. CASE Pedir(p) \/ CompletarPendiente(p) \/ BarrerVarada(p) \/ Buscar(p) \/ Leer(p)
    <3>1. reg' = reg /\ UNCHANGED <<entradas, salidas, abonado>> /\ pc'[p] \notin ConTurno
      BY <1>1, <2>2 DEF Pedir, CompletarPendiente, BarrerVarada, Buscar, Leer, Va, ConTurno,
         PasosRegistro, TypeOK
    <3> QED
      BY <2>1, <3>1
  <2>3. CASE Crear(p) /\ Existe(k)
    <3>1. reg' = reg /\ UNCHANGED <<entradas, salidas, abonado>> /\ pc'[p] \notin ConTurno
      BY <1>1, <2>3 DEF Crear, Va, ConTurno, PasosRegistro, TypeOK
    <3> QED
      BY <2>1, <3>1
  <2>4. CASE Crear(p) /\ ~Existe(k)
    <3>1. PICK o \in Ops : obj[p] = o
      BY <1>1
    <3> DEFINE nuevo == [SinRegistro EXCEPT !.estado = "en_curso", !.turno = p, !.monto = temp[p],
                                            !.stock = Clase[o] = "rebaja"]
    <3>2. /\ obj' = obj /\ reg' = [reg EXCEPT ![o] = nuevo]
          /\ UNCHANGED <<entradas, salidas, abonado, temp>> /\ pc'[p] = "revisarEstado"
      BY <1>1, <2>4, <3>1 DEF Crear, Va, TypeOK
    <3>3. /\ nuevo.estado = "en_curso" /\ nuevo.turno = p /\ nuevo.monto = temp[p]
          /\ nuevo.aSaldo = 0 /\ nuevo.cartera = FALSE /\ nuevo.caja = FALSE
          /\ nuevo.libro = FALSE /\ (nuevo.stock <=> Clase[o] = "rebaja") /\ temp[p] \in Nat
      BY DEF SinRegistro, TypeOK
    <3>4. reg'[o] = nuevo
      BY <3>2 DEF TypeOK
    <3> HIDE DEF nuevo
    <3>5. entradas[o] = 0 /\ salidas[o] = 0 /\ abonado[o] = 0
      BY <2>4, <3>1 DEF MovidoConRegistro, Movio, TypeOK
    <3>6. \A x \in {"marcaStock", "marcaCaja", "marcaLibro"} : ~EnMano(o, x)'
      BY <3>2, <3>3, <3>4 DEF EnMano
    <3>7. Cuenta(o)'
      <4>1. reg'[o].stock <=> Clase[o] = "rebaja"
        BY <3>3, <3>4
      <4>2. /\ ~reg'[o].caja /\ ~reg'[o].libro /\ reg'[o].estado # "completa"
            /\ reg'[o].aSaldo <= reg'[o].monto
        BY <3>3, <3>4
      <4>3. entradas'[o] = 0 /\ salidas'[o] = 0 /\ abonado'[o] = 0
        BY <3>2, <3>5
      <4> QED
        BY <3>6, <4>1, <4>2, <4>3 DEF Cuenta
    <3>8. PasoDe(p)'
      BY <3>1, <3>2, <3>3, <3>4 DEF PasoDe, SinMover
    <3>9. \A q \in Registradores \ {p} : pc[q] \in ConTurno => obj[q] # obj[p]
      BY <2>4 DEF ConDueno
    <3>10. ASSUME NEW q \in Registradores PROVE PasoDe(q)'
      BY <1>4, <3>8, <3>9, CuentaAjena
    <3>11. ASSUME NEW j \in Ops, Existe(j)' PROVE Cuenta(j)'
      BY <1>4, <3>1, <3>7, <3>11, CuentaAjena
    <3> QED
      BY <3>10, <3>11 DEF Cuentas
  <2>5. CASE TomarTurno(p)
    <3>1. CASE ~(Abierta(k) /\ reg[k].turno = Nadie)
      <4>1. reg' = reg /\ UNCHANGED <<entradas, salidas, abonado>> /\ pc'[p] \notin ConTurno
        BY <1>1, <2>5, <3>1 DEF TomarTurno, Va, ConTurno, PasosRegistro, TypeOK
      <4> QED
        BY <2>1, <4>1
    <3>2. CASE Abierta(k) /\ reg[k].turno = Nadie
      <4>1. PICK o \in Ops : obj[p] = o
        BY <1>1
      <4>2. /\ reg' = [reg EXCEPT ![o] = [reg[o] EXCEPT !.turno = p]]
            /\ obj' = obj /\ UNCHANGED <<entradas, salidas, abonado, temp>>
            /\ pc'[p] = IF ~reg[o].cartera THEN "dividirC" ELSE TrasCartera(reg[o])
        BY <1>1, <2>5, <3>2, <4>1 DEF TomarTurno, Va, TypeOK
      <4>3. /\ reg'[o].monto = reg[o].monto /\ reg'[o].aSaldo = reg[o].aSaldo
            /\ reg'[o].cartera = reg[o].cartera /\ reg'[o].stock = reg[o].stock
            /\ reg'[o].caja = reg[o].caja /\ reg'[o].libro = reg[o].libro
            /\ reg'[o].estado = reg[o].estado /\ reg'[o].turno = p
        BY <1>1, <4>2 DEF TypeOK, Registro
      <4>4. /\ pc'[p] \in {"dividirC", "notaC", "stock", "caja", "libro", "cerrar"}
            /\ pc'[p] = "dividirC" <=> ~reg[o].cartera
            /\ pc'[p] = "stock" => ~reg[o].stock
            /\ pc'[p] = "caja" => ~reg[o].caja
        BY <4>2 DEF TrasCartera, Completar, SinCaja
      <4>5. \A x \in {"marcaStock", "marcaCaja", "marcaLibro"} : ~EnMano(o, x)'
        BY <4>1, <4>2, <4>3, <4>4 DEF EnMano
      <4>6. \A x : ~EnMano(o, x)
        BY <1>1, <3>2, <4>1 DEF EnMano
      <4>7. Cuenta(o)
        BY <3>2, <4>1 DEF Cuentas, Abierta, Existe
      <4>8. Cuenta(o)'
        BY <4>2, <4>3, <4>5, <4>6, <4>7, CuentaIgual
      <4>9. PasoDe(p)'
        BY <4>1, <4>2, <4>3, <4>4 DEF PasoDe, SinMover
      <4>10. \A q \in Registradores \ {p} : pc[q] \in ConTurno => obj[q] # obj[p]
        BY <1>1, <3>2 DEF ConDueno
      <4>11. ASSUME NEW q \in Registradores PROVE PasoDe(q)'
        BY <1>4, <4>9, <4>10, CuentaAjena
      <4>12. ASSUME NEW j \in Ops, Existe(j)' PROVE Cuenta(j)'
        BY <1>4, <4>1, <4>8, <4>12, CuentaAjena
      <4> QED
        BY <4>11, <4>12 DEF Cuentas
    <3> QED
      BY <3>1, <3>2
  <2> QED
    BY <1>4, <2>2, <2>3, <2>4, <2>5 DEF Paso, Sigue, Pedir, CompletarPendiente, BarrerVarada,
       Buscar, Leer, Crear, RevisarEstado, RevisarSuma, Retirar, EmitirNota, TomarTurno, Dividir,
       Guardar, EmitirNotaC, ReponerStock, MarcarStock, SacarDeCaja, MarcarCaja, Asentar,
       MarcarLibro, Cerrar, SoltarTurno, En, ConTurno, PasosRegistro
<1>5. ASSUME NEW v \in Anuladores, ContarDevoluciones(v) \/ Anula(v) PROVE Cuentas'
  <2>1. /\ reg' = reg /\ obj' = obj /\ temp' = temp /\ UNCHANGED <<entradas, salidas, abonado>>
        /\ \A p \in Registradores : pc'[p] = pc[p]
    BY <1>1, <1>5 DEF ContarDevoluciones, Anula, TomarVenta, Recontar, DeshacerFlip,
       EmitirNotaAnulacion, ReponerVenta, ReversarLibro, RevertirSaldo, SacarAnulacion, Va, TypeOK
  <2> QED
    BY <1>2, <2>1
<1>6. ASSUME NEW p \in Actores, Corte(p) PROVE Cuentas'
  <2>1. /\ obj' = obj /\ temp' = temp /\ UNCHANGED <<entradas, salidas, abonado>>
        /\ pc' = [pc EXCEPT ![p] = "libre"] /\ pc[p] \notin {"marcaStock", "marcaCaja"}
    BY <1>6 DEF Corte, Va
  <2>2. ASSUME NEW k \in Ops
        PROVE  /\ reg'[k].monto = reg[k].monto /\ reg'[k].aSaldo = reg[k].aSaldo
               /\ reg'[k].cartera = reg[k].cartera /\ reg'[k].stock = reg[k].stock
               /\ reg'[k].caja = reg[k].caja /\ reg'[k].libro = reg[k].libro
               /\ reg'[k].estado = reg[k].estado
               /\ reg'[k].turno = IF reg[k].turno = p THEN Nadie ELSE reg[k].turno
    BY <1>1, <1>6 DEF Corte, Registro
  <2>3. ASSUME NEW k \in Ops, NEW x \in {"marcaStock", "marcaCaja", "marcaLibro"}
        PROVE  EnMano(k, x)' <=> EnMano(k, x) /\ reg[k].turno # p
    BY <1>1, <2>1, <2>2 DEF EnMano, TypeOK
  <2>4. ASSUME NEW k \in Ops, Existe(k)' PROVE Cuenta(k)'
    <3>1. Cuenta(k)
      BY <2>2, <2>4 DEF Cuentas, Existe
    <3>2. EnMano(k, "marcaStock")' <=> EnMano(k, "marcaStock")
      BY <2>1, <2>3 DEF EnMano
    <3>3. EnMano(k, "marcaCaja")' <=> EnMano(k, "marcaCaja")
      BY <2>1, <2>3 DEF EnMano
    <3>4. EnMano(k, "marcaLibro")' => EnMano(k, "marcaLibro")
      BY <2>3
    <3> QED
      BY <2>1, <2>2, <3>1, <3>2, <3>3, <3>4, CuentaIgual
  <2>5. ASSUME NEW q \in Registradores PROVE PasoDe(q)'
    <3>1. CASE q = p
      BY <1>1, <2>1, <3>1 DEF PasoDe, SinMover, TypeOK
    <3>2. CASE q # p
      <4>1. pc'[q] = pc[q] /\ obj[q] \in Ops
        BY <1>1, <2>1, <3>2 DEF TypeOK
      <4> QED
        BY <2>1, <2>2, <4>1 DEF PasoDe, Cuentas
    <3> QED
      BY <3>1, <3>2
  <2> QED
    BY <2>4, <2>5 DEF Cuentas
<1>7. CASE UNCHANGED vars
  BY <1>2, <1>7 DEF vars
<1> QED
  BY <1>3, <1>4, <1>5, <1>6, <1>7 DEF Next, Paso

LEMMA CuentasSiempre ==
    ASSUME Cortan \cap {"marcaStock", "marcaCaja"} = {}
    PROVE  Spec => [](TypeOK /\ ConDueno /\ MovidoConRegistro /\ Cuentas)
<1>1. Init => Cuentas
  BY DEF Init, Cuentas, Existe, SinRegistro, PasoDe, SinMover, Actores
<1>2. TypeOK /\ ConDueno /\ MovidoConRegistro /\ Cuentas /\ [Next]_vars => Cuentas'
  BY CuentasPaso
<1> QED
  BY <1>1, <1>2, MovidoSiempre, PTL DEF Spec

\* Cash and balance of a record add up to what it refunds.
LEMMA PartesDelMonto ==
    ASSUME TypeOK, NEW k \in Ops, reg[k].aSaldo <= reg[k].monto
    PROVE  EnPlata(k) + AlSaldo(k) = Monto(k)
<1>1. reg[k].aSaldo \in Nat /\ reg[k].monto \in Nat /\ Medio[k] \in {"cash", "credit_note"}
  BY DEF TypeOK, Registro
<1>2. NoNeg(Monto(k) - reg[k].aSaldo) = reg[k].monto - reg[k].aSaldo
  BY <1>1 DEF NoNeg, Monto
<1> QED
  BY <1>1, <1>2 DEF EnPlata, AlSaldo, Monto

\* A complete return moved its units once and exactly its money, whoever resumed
\* it and however often, when no process is lost between a movement and its mark.
THEOREM CompletaSiempre ==
    ASSUME Cortan \cap {"marcaStock", "marcaCaja"} = {}
    PROVE  Spec => []CompletaMovioTodo
<1>1. TypeOK /\ Cuentas => CompletaMovioTodo
  <2> SUFFICES ASSUME TypeOK, Cuentas, NEW k \in Ops, reg[k].estado = "completa"
               PROVE  /\ entradas[k] = IF Clase[k] = "devolucion" THEN 1 ELSE 0
                      /\ salidas[k] = EnPlata(k) /\ abonado[k] = AlSaldo(k)
                      /\ salidas[k] + abonado[k] = Monto(k)
    BY DEF CompletaMovioTodo
  <2>1. Cuenta(k)
    BY DEF Cuentas, Existe
  <2>2. EnPlata(k) + AlSaldo(k) = Monto(k)
    BY <2>1, PartesDelMonto DEF Cuenta
  <2> QED
    BY <2>1, <2>2 DEF Cuenta
<1> QED
  BY <1>1, CuentasSiempre, PTL

-----------------------------------------------------------------------------
(* What goes back.  A record counts against the sale from the moment its      *)
(* creator has summed everything again with it written; what is admitted in  *)
(* that way fits, because the sum saw every record that was admitted before. *)

EnRevision == {"revisarEstado", "revisarSuma", "retirar"}

Admitido(k) == Existe(k) /\ \A x \in EnRevision : ~EnMano(k, x)

UnidadesAdmitidas == [k \in Ops |-> IF Admitido(k) THEN Unidades(k) ELSE 0]
MontoAdmitido == [k \in Ops |-> IF Admitido(k) THEN Monto(k) ELSE 0]

AdmitidoCabe ==
    /\ SumFunctionOnSet(UnidadesAdmitidas, Ops) <= Vendido
    /\ SumFunctionOnSet(MontoAdmitido, Ops) <= Pagado

\* A record is admitted only by the second sum, and keeps its amount after it.
LEMMA SoloSumaAdmite ==
    ASSUME Cortan \cap EnRevision = {}, TypeOK, ConDueno, [Next]_vars,
           NEW k \in Ops, Admitido(k)'
    PROVE  \/ Admitido(k) /\ reg'[k].monto = reg[k].monto
           \/ \E p \in Registradores : RevisarSuma(p) /\ obj[p] = k /\ ~Excede(k)
<1> DEFINE Meta == \/ Admitido(k) /\ reg'[k].monto = reg[k].monto
                   \/ \E p \in Registradores : RevisarSuma(p) /\ obj[p] = k /\ ~Excede(k)
<1>1. /\ Registradores \subseteq Actores /\ Anuladores \subseteq Actores
      /\ Registradores \cap Anuladores = {} /\ Nadie \notin Registradores
      /\ \A p \in Registradores : obj[p] \in Ops
      /\ reg[k] \in Registro /\ EnRevision \subseteq ConTurno
  BY DEF TypeOK, Actores, Registradores, EnRevision, ConTurno, PasosRegistro
<1>2. ASSUME reg' = reg, \A x \in EnRevision : EnMano(k, x) => EnMano(k, x)' PROVE Meta
  BY <1>2 DEF Admitido, Existe
<1>3. ASSUME NEW p \in Registradores, Paso(p), k # obj[p] PROVE Meta
  <2>1. reg'[k] = reg[k] /\ \A x \in EnRevision : EnMano(k, x)' <=> EnMano(k, x)
    BY <1>1, <1>3, SoloSuRegistro, ManoAjena
  <2> QED
    BY <2>1 DEF Admitido, Existe
<1>4. ASSUME NEW p \in Registradores, Paso(p), k = obj[p], pc[p] \in ConTurno PROVE Meta
  <2>1. Existe(k) /\ reg[k].turno = p /\ \A x : EnMano(k, x) <=> pc[p] = x
    BY <1>4, ManoDe DEF ConDueno
  <2>2. CASE RevisarEstado(p)
    <3>1. reg' = reg /\ obj' = obj /\ pc'[p] \in {"retirar", "revisarSuma"}
      BY <1>1, <2>2 DEF RevisarEstado, Va, TypeOK
    <3>2. EnMano(k, "retirar")' \/ EnMano(k, "revisarSuma")'
      BY <1>4, <2>1, <3>1 DEF EnMano
    <3> QED
      BY <3>2 DEF Admitido, EnRevision
  <2>3. CASE RevisarSuma(p)
    <3>1. CASE ~Excede(k)
      BY <1>4, <2>3, <3>1
    <3>2. CASE Excede(k)
      <4>1. reg' = reg /\ obj' = obj /\ pc'[p] = "retirar"
        BY <1>1, <1>4, <2>3, <3>2 DEF RevisarSuma, Va, TypeOK
      <4>2. EnMano(k, "retirar")'
        BY <1>4, <2>1, <4>1 DEF EnMano
      <4> QED
        BY <4>2 DEF Admitido, EnRevision
    <3> QED
      BY <3>1, <3>2
  <2>4. CASE Retirar(p)
    BY <1>1, <1>4, <2>4 DEF Retirar, SinRegistro, Admitido, Existe, TypeOK
  <2>5. CASE ~RevisarEstado(p) /\ ~RevisarSuma(p) /\ ~Retirar(p)
    <3>1. pc[p] \notin EnRevision
      BY <1>4, <2>5
      DEF Paso, Sigue, Pedir, CompletarPendiente, BarrerVarada, Buscar, Leer, Crear,
         RevisarEstado, RevisarSuma, Retirar, EmitirNota, TomarTurno, Dividir, Guardar,
         EmitirNotaC, ReponerStock, MarcarStock, SacarDeCaja, MarcarCaja, Asentar,
         MarcarLibro, Cerrar, SoltarTurno, En, EnRevision
    <3>2. \A q \in Registradores : Retirar(q) => obj[q] # k
      <4> SUFFICES ASSUME NEW q \in Registradores, Retirar(q), obj[q] = k PROVE FALSE
        OBVIOUS
      <4>1. pc[q] = "retirar"
        BY DEF Retirar, En
      <4>2. q = p
        BY <2>1, <4>1 DEF ConDueno, ConTurno, PasosRegistro
      <4> QED
        BY <2>5, <4>2
    <3> QED
      BY <2>1, <3>1, <3>2, SoloRetirarBorra DEF Admitido
  <2> QED
    BY <2>2, <2>3, <2>4, <2>5
<1>5. ASSUME NEW p \in Registradores, Paso(p), k = obj[p], pc[p] \notin ConTurno PROVE Meta
  <2>1. \A x \in EnRevision : ~EnMano(k, x) \/ reg[k].turno # p
    BY <1>1, <1>5 DEF EnMano
  <2>2. /\ \A q \in Actores \ {p} : pc'[q] = pc[q]
        /\ \A q \in Registradores \ {p} : obj'[q] = obj[q]
    BY <1>5, RegistroNoAnula DEF Paso
  <2>3. CASE reg' = reg
    BY <1>1, <1>2, <2>1, <2>2, <2>3 DEF EnMano
  <2>4. CASE Crear(p) /\ ~Existe(k)
    <3> DEFINE nuevo == [SinRegistro EXCEPT !.estado = "en_curso", !.turno = p, !.monto = temp[p],
                                            !.stock = Clase[k] = "rebaja"]
    <3>1. obj' = obj /\ reg' = [reg EXCEPT ![k] = nuevo] /\ pc'[p] = "revisarEstado"
      BY <1>1, <1>5, <2>4 DEF Crear, Va, TypeOK
    <3>2. reg'[k] = nuevo /\ nuevo.turno = p
      BY <3>1 DEF TypeOK, SinRegistro
    <3> HIDE DEF nuevo
    <3>3. EnMano(k, "revisarEstado")'
      BY <1>5, <3>1, <3>2 DEF EnMano
    <3> QED
      BY <3>3 DEF Admitido, EnRevision
  <2>5. CASE TomarTurno(p) /\ Abierta(k) /\ reg[k].turno = Nadie
    <3>1. Existe(k) /\ \A q \in Registradores : Retirar(q) => obj[q] # k
      BY <1>1, <2>5 DEF Abierta, Existe, Retirar, En, ConDueno, ConTurno, PasosRegistro
    <3>2. \A x : ~EnMano(k, x)
      BY <1>1, <2>5 DEF EnMano
    <3> QED
      BY <3>1, <3>2, SoloRetirarBorra DEF Admitido
  <2> QED
    BY <1>5, <2>3, <2>4, <2>5 DEF Paso, Sigue, Pedir, CompletarPendiente, BarrerVarada,
       Buscar, Leer, Crear, RevisarEstado, RevisarSuma, Retirar, EmitirNota, TomarTurno, Dividir,
       Guardar, EmitirNotaC, ReponerStock, MarcarStock, SacarDeCaja, MarcarCaja, Asentar,
       MarcarLibro, Cerrar, SoltarTurno, En, ConTurno, PasosRegistro
<1>6. ASSUME NEW v \in Anuladores, ContarDevoluciones(v) \/ Anula(v) PROVE Meta
  <2>1. reg' = reg /\ obj' = obj /\ \A p \in Registradores : pc'[p] = pc[p]
    BY <1>1, <1>6 DEF ContarDevoluciones, Anula, TomarVenta, Recontar, DeshacerFlip,
       EmitirNotaAnulacion, ReponerVenta, ReversarLibro, RevertirSaldo, SacarAnulacion, Va, TypeOK
  <2> QED
    BY <1>2, <2>1 DEF EnMano
<1>7. ASSUME NEW p \in Actores, Corte(p) PROVE Meta
  <2>1. obj' = obj /\ pc' = [pc EXCEPT ![p] = "libre"] /\ pc[p] \notin EnRevision
    BY <1>7 DEF Corte, Va
  <2>2. /\ reg'[k].monto = reg[k].monto /\ reg'[k].estado = reg[k].estado
        /\ reg'[k].turno = IF reg[k].turno = p THEN Nadie ELSE reg[k].turno
    BY <1>1, <1>7 DEF Corte, Registro
  <2>3. \A x \in EnRevision : EnMano(k, x) => EnMano(k, x)'
    BY <1>1, <2>1, <2>2 DEF EnMano, TypeOK
  <2> QED
    BY <2>2, <2>3 DEF Admitido, Existe
<1>8. CASE UNCHANGED vars
  BY <1>2, <1>8 DEF vars, EnMano
<1> QED
  BY <1>3, <1>4, <1>5, <1>6, <1>7, <1>8 DEF Next, Paso

\* The second sum, over every record there is.
LEMMA SumaDeTodos ==
    ASSUME TypeOK
    PROVE  /\ YaReembolsado + YaRebajado
                = SumFunctionOnSet([k \in Ops |-> IF Existe(k) THEN Monto(k) ELSE 0], Ops)
           /\ YaDevuelto
                = SumFunctionOnSet([k \in Ops |-> IF Existe(k) THEN Unidades(k) ELSE 0], Ops)
<1>1. IsFiniteSet(Ops) /\ Devoluciones \in SUBSET Ops /\ Rebajas \in SUBSET Ops
  BY DEF Devoluciones, Rebajas
<1>2. \A k \in Ops : Monto(k) \in Nat /\ Unidades(k) \in Nat
                     /\ Clase[k] \in {"devolucion", "rebaja"}
  BY DEF TypeOK, Registro, Monto, Unidades
<1> DEFINE M == [k \in Ops |-> Monto(k)]
           MD == [k \in Ops |-> IF k \in Devoluciones THEN M[k] ELSE 0]
           MR == [k \in Ops |-> IF k \in Rebajas THEN M[k] ELSE 0]
           MT == [k \in Ops |-> IF Existe(k) THEN Monto(k) ELSE 0]
           U == [k \in Ops |-> Unidades(k)]
           UD == [k \in Ops |-> IF k \in Devoluciones THEN U[k] ELSE 0]
           UT == [k \in Ops |-> IF Existe(k) THEN Unidades(k) ELSE 0]
<1>3. YaReembolsado = SumFunctionOnSet(MD, Ops)
  <2>1. \A k \in Ops : M[k] \in Int /\ MD[k] = IF k \in Devoluciones THEN M[k] ELSE 0
    BY <1>2
  <2> HIDE DEF MD
  <2>2. SumFunctionOnSet(M, Devoluciones) = SumFunctionOnSet(MD, Ops)
    BY <1>1, <2>1, SumaDeParte
  <2> QED
    BY <2>2 DEF YaReembolsado
<1>4. YaRebajado = SumFunctionOnSet(MR, Ops)
  <2>1. \A k \in Ops : M[k] \in Int /\ MR[k] = IF k \in Rebajas THEN M[k] ELSE 0
    BY <1>2
  <2> HIDE DEF MR
  <2>2. SumFunctionOnSet(M, Rebajas) = SumFunctionOnSet(MR, Ops)
    BY <1>1, <2>1, SumaDeParte
  <2> QED
    BY <2>2 DEF YaRebajado
<1>5. SumFunctionOnSet(MT, Ops) = SumFunctionOnSet(MD, Ops) + SumFunctionOnSet(MR, Ops)
  <2>1. \A k \in Ops : MD[k] \in Int /\ MR[k] \in Int /\ MT[k] = MD[k] + MR[k]
    BY <1>2 DEF Devoluciones, Rebajas
  <2> HIDE DEF MD, MR, MT
  <2> QED
    BY <1>1, <2>1, SumaDeDos
<1>6. YaDevuelto = SumFunctionOnSet(UT, Ops)
  <2>1. \A k \in Ops : U[k] \in Int /\ UT[k] = IF k \in Devoluciones THEN U[k] ELSE 0
    BY <1>2 DEF Devoluciones, Unidades
  <2> HIDE DEF UT
  <2>2. SumFunctionOnSet(U, Devoluciones) = SumFunctionOnSet(UT, Ops)
    BY <1>1, <2>1, SumaDeParte
  <2> QED
    BY <2>2 DEF YaDevuelto
<1> QED
  BY <1>3, <1>4, <1>5, <1>6

LEMMA AdmitidoPaso ==
    ASSUME Cortan \cap EnRevision = {}
    PROVE  TypeOK /\ ConDueno /\ AdmitidoCabe /\ [Next]_vars => AdmitidoCabe'
<1> SUFFICES ASSUME TypeOK, ConDueno, AdmitidoCabe, [Next]_vars PROVE AdmitidoCabe'
  OBVIOUS
<1>1. TypeOK'
  BY TiposPaso
<1>2. ASSUME NEW k \in Ops
      PROVE  /\ UnidadesAdmitidas[k] \in Nat /\ UnidadesAdmitidas'[k] \in Nat
             /\ MontoAdmitido[k] \in Nat /\ MontoAdmitido'[k] \in Nat
             /\ Unidades(k) \in Nat /\ Monto(k) \in Nat
             /\ UnidadesAdmitidas[k] = (IF Admitido(k) THEN Unidades(k) ELSE 0)
             /\ MontoAdmitido[k] = (IF Admitido(k) THEN Monto(k) ELSE 0)
             /\ UnidadesAdmitidas'[k] = (IF Admitido(k)' THEN Unidades(k) ELSE 0)
             /\ MontoAdmitido'[k] = (IF Admitido(k)' THEN Monto(k)' ELSE 0)
  <2>1. Monto(k) \in Nat /\ Monto(k)' \in Nat /\ Unidades(k) \in Nat
    BY <1>1 DEF TypeOK, Registro, Monto, Unidades
  <2> QED
    BY <2>1 DEF UnidadesAdmitidas, MontoAdmitido, Unidades
<1>3. IsFiniteSet(Ops) /\ Vendido \in Nat /\ Pagado \in Nat
  OBVIOUS
\* A sum over at most the same values still fits.
<1>4. ASSUME NEW u, \A k \in Ops : u[k] \in Nat /\ UnidadesAdmitidas'[k] <= u[k],
             SumFunctionOnSet(u, Ops) <= Vendido
      PROVE  SumFunctionOnSet(UnidadesAdmitidas', Ops) <= Vendido
  <2>1. SumFunctionOnSet(UnidadesAdmitidas', Ops) <= SumFunctionOnSet(u, Ops)
    BY <1>2, <1>3, <1>4, SumaMonotona
  <2>2. SumFunctionOnSet(u, Ops) \in Nat /\ SumFunctionOnSet(UnidadesAdmitidas', Ops) \in Nat
    BY <1>2, <1>3, <1>4, SumaNatural
  <2> QED
    BY <1>3, <1>4, <2>1, <2>2
<1>5. ASSUME NEW m, \A k \in Ops : m[k] \in Nat /\ MontoAdmitido'[k] <= m[k],
             SumFunctionOnSet(m, Ops) <= Pagado
      PROVE  SumFunctionOnSet(MontoAdmitido', Ops) <= Pagado
  <2>1. SumFunctionOnSet(MontoAdmitido', Ops) <= SumFunctionOnSet(m, Ops)
    BY <1>2, <1>3, <1>5, SumaMonotona
  <2>2. SumFunctionOnSet(m, Ops) \in Nat /\ SumFunctionOnSet(MontoAdmitido', Ops) \in Nat
    BY <1>2, <1>3, <1>5, SumaNatural
  <2> QED
    BY <1>3, <1>5, <2>1, <2>2
<1>6. CASE \A p \in Registradores : ~(RevisarSuma(p) /\ ~Excede(obj[p]))
  <2>1. \A k \in Ops : Admitido(k)' => Admitido(k) /\ reg'[k].monto = reg[k].monto
    BY <1>6, SoloSumaAdmite
  <2>2. \A k \in Ops : /\ UnidadesAdmitidas'[k] <= UnidadesAdmitidas[k]
                       /\ MontoAdmitido'[k] <= MontoAdmitido[k]
    BY <1>2, <2>1 DEF Monto
  <2> QED
    BY <1>2, <1>4, <1>5, <2>2 DEF AdmitidoCabe
<1>7. ASSUME NEW p \in Registradores, RevisarSuma(p), ~Excede(obj[p]) PROVE AdmitidoCabe'
  <2>1. reg' = reg /\ obj[p] \in Ops
    BY <1>7 DEF RevisarSuma, TypeOK
  <2> DEFINE MT == [k \in Ops |-> IF Existe(k) THEN Monto(k) ELSE 0]
             UT == [k \in Ops |-> IF Existe(k) THEN Unidades(k) ELSE 0]
  <2>2. \A k \in Ops : /\ UT[k] \in Nat /\ UnidadesAdmitidas'[k] <= UT[k]
                       /\ MT[k] \in Nat /\ MontoAdmitido'[k] <= MT[k]
    BY <1>2, <2>1 DEF Admitido, Existe, Monto
  <2>3. SumFunctionOnSet(MT, Ops) <= Pagado
    <3>1. SumFunctionOnSet(MT, Ops) \in Nat
      <4> HIDE DEF MT
      <4> QED
        BY <1>3, <2>2, SumaNatural
    <3>2. ~ (SumFunctionOnSet(MT, Ops) > Pagado)
      BY <1>7, SumaDeTodos DEF Excede
    <3> HIDE DEF MT
    <3> QED
      BY <1>3, <3>1, <3>2
  <2>4. SumFunctionOnSet(MontoAdmitido', Ops) <= Pagado
    <3> HIDE DEF MT
    <3> QED
      BY <1>5, <2>2, <2>3
  <2>5. SumFunctionOnSet(UnidadesAdmitidas', Ops) <= Vendido
    <3>1. CASE Clase[obj[p]] = "devolucion"
      <4>1. YaDevuelto <= Vendido
        <5>1. YaDevuelto \in Nat
          <6> HIDE DEF UT
          <6> QED
            BY <1>3, <2>2, SumaNatural, SumaDeTodos DEF UT
        <5> QED
          BY <1>3, <1>7, <3>1, <5>1 DEF Excede
      <4>2. SumFunctionOnSet(UT, Ops) <= Vendido
        BY <4>1, SumaDeTodos
      <4> HIDE DEF UT
      <4> QED
        BY <1>4, <2>2, <4>2
    <3>2. CASE Clase[obj[p]] # "devolucion"
      <4>1. Unidades(obj[p]) = 0
        BY <3>2 DEF Unidades
      <4>2. \A q \in Registradores : RevisarSuma(q) => q = p
        BY <1>7, <2>1 DEF RevisarSuma, Va, En, TypeOK, Actores
      <4>3. \A k \in Ops : Admitido(k)' => Admitido(k) \/ k = obj[p]
        BY <4>2, SoloSumaAdmite
      <4>4. \A k \in Ops : UnidadesAdmitidas'[k] <= UnidadesAdmitidas[k]
        BY <1>2, <4>1, <4>3
      <4> QED
        BY <1>2, <1>4, <4>4 DEF AdmitidoCabe
    <3> QED
      BY <3>1, <3>2
  <2> QED
    BY <2>4, <2>5 DEF AdmitidoCabe
<1> QED
  BY <1>6, <1>7

\* No more units come back than were sold and no more pesos than were paid, with
\* any number of returns, rebates, retries, cashiers, sweeps and voids of a sale,
\* when no process is lost between writing its record and having summed again,
\* nor between a movement and its mark.
THEOREM NadaDeMasSiempre ==
    ASSUME Cortan \cap {"revisarEstado", "revisarSuma", "retirar", "marcaStock", "marcaCaja"} = {}
    PROVE  Spec => []NadaVuelveDeMas
<1> DEFINE Inv == /\ TypeOK /\ ConDueno /\ MovidoConRegistro /\ Cuentas
                  /\ UnaAnula /\ AnuladaODevuelta /\ AdmitidoCabe /\ anulado.stock <= 1
<1>1. /\ Cortan \cap EnRevision = {} /\ Cortan \cap {"marcaStock", "marcaCaja"} = {}
      /\ Cortan \cap {"revisarEstado", "retirar"} = {}
  BY DEF EnRevision
<1>2. Init => UnaAnula /\ AdmitidoCabe /\ anulado.stock <= 1
  <2> SUFFICES ASSUME Init PROVE UnaAnula /\ AdmitidoCabe /\ anulado.stock <= 1
    OBVIOUS
  <2>1. UnaAnula /\ anulado.stock <= 1
    BY DEF Init, UnaAnula, EnAnulacion, Actores
  <2>2. \A k \in Ops : UnidadesAdmitidas[k] = 0 /\ MontoAdmitido[k] = 0
    BY DEF Init, UnidadesAdmitidas, MontoAdmitido, Admitido, Existe, SinRegistro
  <2>3. SumFunctionOnSet(UnidadesAdmitidas, Ops) = 0 /\ SumFunctionOnSet(MontoAdmitido, Ops) = 0
    BY <2>2, SumaDeCeros
  <2> QED
    BY <2>1, <2>3 DEF AdmitidoCabe
<1>3. TypeOK /\ UnaAnula /\ anulado.stock <= 1 /\ [Next]_vars => (anulado.stock <= 1)'
  <2> SUFFICES ASSUME TypeOK, UnaAnula, anulado.stock <= 1, [Next]_vars
               PROVE  anulado'.stock <= 1
    OBVIOUS
  <2>1. anulado \in [stock: Nat, libro: BOOLEAN, saldo: BOOLEAN, caja: BOOLEAN]
    BY DEF TypeOK
  <2>2. ASSUME NEW v \in Anuladores, ContarDevoluciones(v) \/ Anula(v)
        PROVE  anulado'.stock <= 1
    <3>1. CASE ReponerVenta(v)
      BY <2>1, <3>1 DEF ReponerVenta, UnaAnula, EnAnulacion, En
    <3>2. CASE ~ReponerVenta(v)
      BY <2>1, <2>2, <3>2 DEF ContarDevoluciones, Anula, TomarVenta, Recontar, DeshacerFlip,
         EmitirNotaAnulacion, ReversarLibro, RevertirSaldo, SacarAnulacion
    <3> QED
      BY <3>1, <3>2
  <2>3. ASSUME NEW p \in Registradores, Paso(p) PROVE anulado' = anulado
    BY <2>3, RegistroNoAnula DEF Paso
  <2> QED
    BY <2>2, <2>3 DEF Next, Paso, Corte, vars
<1>4. Inv => NadaVuelveDeMas
  <2> SUFFICES ASSUME Inv PROVE NoSaleMasDeLoPagado /\ NoVuelveMasDeLoVendido
    BY DEF NadaVuelveDeMas
  <2> DEFINE E == [k \in Ops |-> entradas[k] * Unidades(k)]
             S == [k \in Ops |-> salidas[k] + abonado[k]]
  <2>1. /\ IsFiniteSet(Ops) /\ Vendido \in Nat /\ Pagado \in Nat /\ anulado.stock \in Nat
        /\ Registradores \subseteq Actores
    BY DEF TypeOK, Actores
  <2>2. ASSUME NEW k \in Ops
        PROVE  /\ entradas[k] \in Nat /\ salidas[k] \in Nat /\ abonado[k] \in Nat
               /\ Unidades(k) \in Nat /\ Monto(k) \in Nat
               /\ EnPlata(k) \in Nat /\ AlSaldo(k) \in Nat
    BY TiposDatos DEF TypeOK, Registro, Unidades, Monto
  <2>3. ASSUME NEW k \in Ops, Movio(k) PROVE Admitido(k) /\ Cuenta(k)
    BY <2>3 DEF MovidoConRegistro, Admitido, EnMano, SinMover, EnRevision, Cuentas
  <2>4. ASSUME NEW k \in Ops
        PROVE  E[k] \in Nat /\ UnidadesAdmitidas[k] \in Nat /\ E[k] <= UnidadesAdmitidas[k]
    <3>1. CASE Movio(k)
      <4>1. entradas[k] \in {0, 1} /\ UnidadesAdmitidas[k] = Unidades(k)
        BY <2>3, <3>1 DEF Cuenta, UnidadesAdmitidas
      <4> QED
        BY <2>2, <4>1
    <3>2. CASE ~Movio(k)
      BY <2>2, <3>2 DEF Movio, UnidadesAdmitidas
    <3> QED
      BY <3>1, <3>2
  <2>5. ASSUME NEW k \in Ops
        PROVE  S[k] \in Nat /\ MontoAdmitido[k] \in Nat /\ S[k] <= MontoAdmitido[k]
    <3>1. CASE Movio(k)
      <4>1. /\ salidas[k] \in {0, EnPlata(k)} /\ abonado[k] \in {0, AlSaldo(k)}
            /\ MontoAdmitido[k] = Monto(k) /\ reg[k].aSaldo <= reg[k].monto
        BY <2>3, <3>1 DEF Cuenta, MontoAdmitido
      <4>2. EnPlata(k) + AlSaldo(k) = Monto(k)
        BY <4>1, PartesDelMonto
      <4> QED
        BY <2>2, <4>1, <4>2
    <3>2. CASE ~Movio(k)
      BY <2>2, <3>2 DEF Movio, MontoAdmitido
    <3> QED
      BY <3>1, <3>2
  <2>6. anulado.stock > 0 => \A k \in Ops : E[k] = 0 /\ S[k] = 0
    BY <2>2 DEF AnuladaODevuelta, Movio
  <2> HIDE DEF E, S
  <2>7. /\ SumFunctionOnSet(E, Ops) \in Nat /\ SumFunctionOnSet(S, Ops) \in Nat
        /\ SumFunctionOnSet(E, Ops) <= Vendido /\ SumFunctionOnSet(S, Ops) <= Pagado
    <3>1. /\ SumFunctionOnSet(E, Ops) <= SumFunctionOnSet(UnidadesAdmitidas, Ops)
          /\ SumFunctionOnSet(S, Ops) <= SumFunctionOnSet(MontoAdmitido, Ops)
      BY <2>1, <2>4, <2>5, SumaMonotona
    <3>2. /\ SumFunctionOnSet(E, Ops) \in Nat /\ SumFunctionOnSet(S, Ops) \in Nat
          /\ SumFunctionOnSet(UnidadesAdmitidas, Ops) \in Nat
          /\ SumFunctionOnSet(MontoAdmitido, Ops) \in Nat
      BY <2>1, <2>4, <2>5, SumaNatural
    <3> QED
      BY <2>1, <3>1, <3>2 DEF AdmitidoCabe
  <2>8. anulado.stock > 0 => SumFunctionOnSet(E, Ops) = 0 /\ SumFunctionOnSet(S, Ops) = 0
    BY <2>1, <2>6, SumaDeCeros
  <2>9. anulado.stock * Vendido = IF anulado.stock = 0 THEN 0 ELSE Vendido
    BY <2>1
  <2>10. SumFunctionOnSet(E, Ops) + anulado.stock * Vendido <= Vendido
    BY <2>1, <2>7, <2>8, <2>9
  <2>11. SumFunctionOnSet(S, Ops) + (IF anulado.stock > 0 THEN Pagado ELSE 0) <= Pagado
    BY <2>1, <2>7, <2>8
  <2> QED
    BY <2>10, <2>11 DEF E, S, NoSaleMasDeLoPagado, NoVuelveMasDeLoVendido
<1>5. TypeOK /\ ConDueno /\ AdmitidoCabe /\ [Next]_vars => AdmitidoCabe'
  BY <1>1, AdmitidoPaso
<1>6. Spec => []AnuladaODevuelta
  BY <1>1, AnuladaODevueltaSiempre
<1>7. Spec => [](TypeOK /\ ConDueno /\ MovidoConRegistro /\ Cuentas)
  BY <1>1, CuentasSiempre
<1>8. TypeOK /\ UnaAnula /\ [Next]_vars => UnaAnula'
  BY AnulaPaso
<1> QED
  BY <1>2, <1>3, <1>4, <1>5, <1>6, <1>7, <1>8, PTL DEF Spec

-----------------------------------------------------------------------------
(* A note without reference, NotaSinReferencia, is N! *)

HIDE DevolucionAssumption

CONSTANTS
    Descuentos, nMonto, nMedio, nCuentas, Debe, Pagos, PagoDe, Importe, nCajeros,
    nBarridos, nNadie, Fallan, nCortan, nMaxFallas, nMaxCortes

VARIABLES
    cxc, nReg, notas, salida, aFavor, libro, nPc, nObj, leido, nFallas, nCortes

N == INSTANCE NotaSinReferencia WITH
    MontoDe <- nMonto, Medio <- nMedio, Cuentas <- nCuentas, Cajeros <- nCajeros,
    Barridos <- nBarridos, Nadie <- nNadie, Cortan <- nCortan, MaxFallas <- nMaxFallas,
    MaxCortes <- nMaxCortes, reg <- nReg, pc <- nPc, obj <- nObj, fallas <- nFallas,
    cortes <- nCortes

\* The instance's finite sets and sums are the library's.
LEMMA MismasFinitas == \A S : N!IsFiniteSet(S) <=> IsFiniteSet(S)
BY DEF N!IsFiniteSet, IsFiniteSet

LEMMA MismasSumas == \A f, S : N!SumFunctionOnSet(f, S) = SumFunctionOnSet(f, S)
BY DEF N!SumFunctionOnSet, N!FoldFunctionOnSet, N!MapThenFoldSet,
       SumFunctionOnSet, FoldFunctionOnSet, MapThenFoldSet

Copias == [cuentas : [N!Numeros -> [monto : Nat, pagado : Nat]], i : Nat, abono : Nat,
           estado : [monto : Nat, pagado : Nat]]
Formas ==
    /\ cxc \in [N!Numeros -> [monto : Nat, pagado : Nat, estado : {"open", "partial", "paid"},
                            ajustes : [Descuentos -> Nat]]]
    /\ nReg \in [Descuentos ->
         [estado : {"no", "en_curso", "pendiente_caja", "completa", "retirada"},
          turno : N!Trabajan \cup {nNadie}, abono : Nat, cartera : BOOLEAN, caja : BOOLEAN,
          asiento : BOOLEAN]]
    /\ leido \in [N!Trabajan -> Copias]
    /\ notas \subseteq Descuentos
    /\ salida \in [Descuentos -> Nat] /\ aFavor \in [Descuentos -> Nat]
    /\ libro \in [Descuentos -> Nat \cup {-1}]
    /\ nPc \in [N!Actores -> {"libre", "fin", "error"} \cup N!Pasos]
    /\ nObj \in [N!Trabajan -> Descuentos]
    /\ nFallas \in 0..nMaxFallas /\ nCortes \in 0..nMaxCortes

\* Who works on a discount has its turn; the first request works on its own, once.
Turnos ==
    /\ \A a \in N!Trabajan : nPc[a] \in N!Pasos =>
         nReg[nObj[a]].turno = a /\ nReg[nObj[a]].estado \notin {"no", "retirada"}
    /\ \A d \in Descuentos : nObj[d] = d /\ (nPc[d] = "libre" <=> nReg[d].estado = "no")
    /\ \A p \in Pagos : nPc[p] \in {"libre", "fin"}

\* What is given of a discount beside what its receivables went down.
EnCaja(d) == IF nMedio[d] = "cash" THEN nMonto[d] - N!Ajustado(d) ELSE 0
AlFavor(d) == IF nMedio[d] = "credit_note" THEN nMonto[d] - N!Ajustado(d) ELSE 0

\* At each step, what who works carries and what is done of its discount.
Carga(a) ==
    LET d == nObj[a] IN
    /\ nPc[a] \in {"abonar", "guardarCartera", "nota", "guardar"} => leido[a].abono = N!Ajustado(d)
    /\ nPc[a] \in {"leer", "abonar", "revertir", "revertir2", "guardarCartera", "borrar"} =>
         ~nReg[d].cartera
    /\ nPc[a] = "guardarCartera" => a \notin Descuentos
    /\ nPc[a] = "borrar" => a \in Descuentos /\ N!Ajustado(d) = 0
    /\ a \in Descuentos /\ nPc[a] \in {"leer", "abonar", "revertir", "revertir2", "nota", "borrar"} =>
         d \notin notas /\ ~nReg[d].cartera
    /\ nPc[a] = "revertir2" => leido[a].i \in N!Numeros
    /\ nPc[a] \in {"guardar", "caja", "marcaCaja", "favor", "libro", "marcaLibro", "cerrar"} => d \in notas
    /\ nPc[a] \in {"caja", "marcaCaja", "favor", "libro", "marcaLibro", "cerrar"} => nReg[d].cartera
    /\ nPc[a] \in {"caja", "marcaCaja"} => ~nReg[d].caja
    /\ nPc[a] = "caja" => salida[d] = 0
    /\ nPc[a] = "marcaCaja" => salida[d] = EnCaja(d)
    /\ nPc[a] \in {"libro", "marcaLibro"} => aFavor[d] = AlFavor(d)
    /\ nPc[a] = "marcaLibro" => libro[d] # -1
    /\ nPc[a] = "cerrar" => nReg[d].asiento
Cargas == \A a \in N!Trabajan : Carga(a)

\* The cash of a discount has left, and who works on it is about to say so.
EnMarca(d) ==
    LET t == nReg[d].turno IN t \in N!Trabajan /\ nPc[t] = "marcaCaja" /\ nObj[t] = d

\* What the record of a discount says is what is done of it.
Consta(d) ==
    /\ N!Ajustado(d) <= nMonto[d]
    /\ nReg[d].abono <= nMonto[d]
    /\ nReg[d].cartera => nReg[d].abono = N!Ajustado(d)
    /\ ~nReg[d].cartera =>
         salida[d] = 0 /\ aFavor[d] = 0 /\ libro[d] = -1 /\ ~nReg[d].caja /\ ~nReg[d].asiento
    /\ nReg[d].caja => salida[d] = EnCaja(d)
    /\ salida[d] \in {0, EnCaja(d)} /\ aFavor[d] \in {0, AlFavor(d)}
    /\ salida[d] # 0 /\ ~nReg[d].caja => EnMarca(d)
    /\ nReg[d].asiento => aFavor[d] = AlFavor(d) /\ libro[d] # -1
    /\ libro[d] # -1 => libro[d] = N!Ajustado(d) /\ d \in notas
    /\ nReg[d].estado = "completa" => d \in notas /\ nReg[d].caja /\ nReg[d].asiento
    /\ nReg[d].estado \in {"no", "retirada"} =>
         nReg[d].turno = nNadie /\ ~nReg[d].cartera /\ N!Ajustado(d) = 0 /\ d \notin notas
Registros == \A d \in Descuentos : Consta(d)

\* Each receivable is what it was less what it went down.
Rebajada(i) == cxc[i].monto = Debe[nCuentas[i]] - SumFunctionOnSet(cxc[i].ajustes, Descuentos)
Rebajadas == \A i \in N!Numeros : Rebajada(i)

IInv == Formas /\ Turnos /\ Cargas /\ Registros /\ Rebajadas

Regs == [estado : {"no", "en_curso", "pendiente_caja", "completa", "retirada"},
         turno : N!Trabajan \cup {nNadie}, abono : Nat, cartera : BOOLEAN, caja : BOOLEAN,
         asiento : BOOLEAN]
CxCs == [monto : Nat, pagado : Nat, estado : {"open", "partial", "paid"},
         ajustes : [Descuentos -> Nat]]
Sitios == {"libre", "fin", "error"} \cup N!Pasos

\* A step of one who works leaves the others, and a step on one discount the rest.
Solo(a) == \A b \in N!Actores : b # a =>
    nPc'[b] = nPc[b] /\ (b \in N!Trabajan => leido'[b] = leido[b] /\ nObj'[b] = nObj[b])
SoloDe(d) == \A e \in Descuentos : e # d =>
    /\ nReg'[e] = nReg[e] /\ salida'[e] = salida[e] /\ aFavor'[e] = aFavor[e]
    /\ libro'[e] = libro[e] /\ (e \in notas' <=> e \in notas) /\ N!Ajustado(e)' = N!Ajustado(e)

-----------------------------------------------------------------------------
(* What a step changes *)

LEMMA VaHace ==
    ASSUME Formas, NEW a \in N!Actores, NEW s \in Sitios, N!Va(a, s)
    PROVE  nPc' \in [N!Actores -> Sitios] /\ nPc'[a] = s /\ \A b \in N!Actores : b # a => nPc'[b] = nPc[b]
BY DEF Formas, N!Va, Sitios

LEMMA PoneReg ==
    ASSUME Formas, NEW d \in Descuentos, NEW r \in Regs, nReg' = [nReg EXCEPT ![d] = r]
    PROVE  nReg' \in [Descuentos -> Regs] /\ nReg'[d] = r
           /\ \A e \in Descuentos : e # d => nReg'[e] = nReg[e]
BY DEF Formas, Regs

LEMMA PoneMem ==
    ASSUME Formas, NEW a \in N!Trabajan, NEW l \in Copias, leido' = [leido EXCEPT ![a] = l]
    PROVE  leido' \in [N!Trabajan -> Copias] /\ leido'[a] = l
           /\ \A b \in N!Trabajan : b # a => leido'[b] = leido[b]
BY DEF Formas, Copias

LEMMA PoneCxc ==
    ASSUME Formas, NEW i \in N!Numeros, NEW c \in CxCs, cxc' = [cxc EXCEPT ![i] = c]
    PROVE  cxc' \in [N!Numeros -> CxCs] /\ cxc'[i] = c
           /\ \A j \in N!Numeros : j # i => cxc'[j] = cxc[j]
BY DEF Formas, CxCs

LEMMA MinDeDos ==
    ASSUME NEW x \in Int, NEW y \in Int
    PROVE  N!Min({x, y}) \in {x, y} /\ N!Min({x, y}) <= x /\ N!Min({x, y}) <= y
<1>1. \E z \in {x, y} : \A w \in {x, y} : z =< w
  OBVIOUS
<1> QED
  BY <1>1 DEF N!Min

LEMMA MaxDeDos ==
    ASSUME NEW x \in Int, NEW y \in Int
    PROVE  N!Max({x, y}) \in {x, y} /\ N!Max({x, y}) >= x /\ N!Max({x, y}) >= y
<1>1. \E z \in {x, y} : \A w \in {x, y} : z >= w
  OBVIOUS
<1> QED
  BY <1>1 DEF N!Max

LEMMA EstadoTipo ==
    ASSUME NEW c
    PROVE  N!EstadoSegun(c) \in {"open", "partial", "paid"}
BY DEF N!EstadoSegun

LEMMA FallaTipo ==
    ASSUME N!Supuestos, Formas, NEW s, N!Bien \/ N!Falla(s)
    PROVE  nFallas' \in 0..nMaxFallas
<1>1. nMaxFallas \in Nat /\ nFallas \in 0..nMaxFallas
  BY DEF N!Supuestos, Formas
<1> QED
  BY <1>1 DEF N!Bien, N!Falla

LEMMA Finitos ==
    ASSUME N!Supuestos
    PROVE  IsFiniteSet(N!Numeros) /\ IsFiniteSet(Descuentos) /\ \A i \in N!Numeros : i \in Nat \ {0}
<1>1. nCuentas \in Seq(DOMAIN Debe)
  BY DEF N!Supuestos
<1>2. N!Numeros = 1..Len(nCuentas) /\ Len(nCuentas) \in Nat
  BY <1>1 DEF N!Numeros
<1>3. IsFiniteSet(1..Len(nCuentas))
  BY <1>2, FS_Interval
<1> QED
  BY <1>2, <1>3, MismasFinitas DEF N!Supuestos

LEMMA AjustadoNatural ==
    ASSUME N!Supuestos, Formas, NEW d \in Descuentos
    PROVE  N!Ajustado(d) \in Nat
<1> DEFINE f == [i \in N!Numeros |-> cxc[i].ajustes[d]]
<1>1. \A i \in N!Numeros : f[i] \in Nat
  BY DEF Formas
<1>2. SumFunctionOnSet(f, N!Numeros) \in Nat
  <2> HIDE DEF f
  <2> QED
    BY <1>1, Finitos, SumaNatural
<1> QED
  BY <1>2, MismasSumas DEF N!Ajustado

LEMMA AjustadoDespues ==
    ASSUME N!Supuestos, Formas', NEW d \in Descuentos
    PROVE  N!Ajustado(d)' \in Nat
<1> DEFINE f == [i \in N!Numeros |-> cxc'[i].ajustes[d]]
<1>1. \A i \in N!Numeros : f[i] \in Nat
  BY DEF Formas
<1>2. SumFunctionOnSet(f, N!Numeros) \in Nat
  <2> HIDE DEF f
  <2> QED
    BY <1>1, Finitos, SumaNatural
<1> QED
  BY <1>2, MismasSumas DEF N!Ajustado

\* A step that does not touch what went down of any receivable.
LEMMA AjusteQuieto ==
    ASSUME \A i \in N!Numeros : cxc'[i].ajustes = cxc[i].ajustes /\ cxc'[i].monto = cxc[i].monto
    PROVE  /\ \A e \in Descuentos : N!Ajustado(e)' = N!Ajustado(e)
           /\ Rebajadas => Rebajadas'
<1>1. ASSUME NEW e \in Descuentos PROVE N!Ajustado(e)' = N!Ajustado(e)
  <2>1. [i \in N!Numeros |-> cxc'[i].ajustes[e]] = [i \in N!Numeros |-> cxc[i].ajustes[e]]
    OBVIOUS
  <2> QED
    BY <2>1 DEF N!Ajustado
<1>2. Rebajadas => Rebajadas'
  BY DEF Rebajadas, Rebajada
<1> QED
  BY <1>1, <1>2

\* One discount lowers one receivable, or gives it back.
LEMMA AjusteCambia ==
    ASSUME N!Supuestos, Formas, Formas', Rebajadas, NEW d \in Descuentos, NEW i \in N!Numeros, NEW v \in Nat,
           \A j \in N!Numeros : j # i => cxc'[j] = cxc[j],
           cxc'[i].ajustes = [cxc[i].ajustes EXCEPT ![d] = v],
           cxc'[i].monto = cxc[i].monto - (v - cxc[i].ajustes[d])
    PROVE  /\ N!Ajustado(d)' = N!Ajustado(d) - cxc[i].ajustes[d] + v
           /\ \A e \in Descuentos : e # d => N!Ajustado(e)' = N!Ajustado(e)
           /\ Rebajadas'
<1>1. /\ \A j \in N!Numeros : cxc[j].ajustes \in [Descuentos -> Nat] /\ cxc'[j].ajustes \in [Descuentos -> Nat]
      /\ cxc[i].monto \in Nat
  BY DEF Formas
<1>2. cxc'[i].ajustes[d] = v /\ \A e \in Descuentos : e # d => cxc'[i].ajustes[e] = cxc[i].ajustes[e]
  BY <1>1
<1>3. N!Ajustado(d)' = N!Ajustado(d) - cxc[i].ajustes[d] + v
  <2> DEFINE f == [j \in N!Numeros |-> cxc[j].ajustes[d]]
             g == [j \in N!Numeros |-> cxc'[j].ajustes[d]]
  <2>1. /\ \A j \in N!Numeros : f[j] \in Int /\ g[j] \in Int
        /\ \A j \in N!Numeros \ {i} : g[j] = f[j]
        /\ f[i] = cxc[i].ajustes[d] /\ g[i] = v
    BY <1>1, <1>2
  <2>2. N!Ajustado(d) = SumFunctionOnSet(f, N!Numeros) /\ N!Ajustado(d)' = SumFunctionOnSet(g, N!Numeros)
    BY MismasSumas DEF N!Ajustado
  <2>3. SumFunctionOnSet(g, N!Numeros) = SumFunctionOnSet(f, N!Numeros) - f[i] + g[i]
    <3> HIDE DEF f, g
    <3>1. \A j \in N!Numeros : f[j] \in Int /\ g[j] \in Int
      BY <2>1
    <3>2. \A j \in N!Numeros \ {i} : g[j] = f[j]
      BY <2>1
    <3>3. IsFiniteSet(N!Numeros)
      BY Finitos
    <3> QED
      BY <3>1, <3>2, <3>3, SumaCambia
  <2> QED
    BY <2>1, <2>2, <2>3
<1>4. ASSUME NEW e \in Descuentos, e # d PROVE N!Ajustado(e)' = N!Ajustado(e)
  <2>1. \A j \in N!Numeros : cxc'[j].ajustes[e] = cxc[j].ajustes[e]
    BY <1>2, <1>4
  <2>2. [j \in N!Numeros |-> cxc'[j].ajustes[e]] = [j \in N!Numeros |-> cxc[j].ajustes[e]]
    BY <2>1
  <2> QED
    BY <2>2 DEF N!Ajustado
<1>5. Rebajada(i)'
  <2> DEFINE f == cxc[i].ajustes
             g == cxc'[i].ajustes
             D == Debe[nCuentas[i]]
  <2>1. /\ \A e \in Descuentos : f[e] \in Int /\ g[e] \in Int
        /\ \A e \in Descuentos \ {d} : g[e] = f[e]
        /\ g[d] = v /\ f[d] \in Nat
    BY <1>1, <1>2
  <2>2. cxc[i].monto = D - SumFunctionOnSet(f, Descuentos)
    BY DEF Rebajadas, Rebajada
  <2>3. cxc'[i].monto = cxc[i].monto - (v - f[d])
    OBVIOUS
  <2>4. D \in Nat
    <3>1. nCuentas \in Seq(DOMAIN Debe) /\ i \in DOMAIN nCuentas
      BY DEF N!Supuestos, N!Numeros
    <3>2. nCuentas[i] \in DOMAIN Debe
      BY <3>1
    <3> QED
      BY <3>2 DEF N!Supuestos
  <2> HIDE DEF f, g, D
  <2>8. IsFiniteSet(Descuentos)
    BY Finitos
  <2>5. SumFunctionOnSet(g, Descuentos) = SumFunctionOnSet(f, Descuentos) - f[d] + g[d]
    <3>1. \A e \in Descuentos : f[e] \in Int /\ g[e] \in Int
      BY <2>1
    <3>2. \A e \in Descuentos \ {d} : g[e] = f[e]
      BY <2>1
    <3> QED
      BY <2>8, <3>1, <3>2, SumaCambia
  <2>6. SumFunctionOnSet(f, Descuentos) \in Int
    BY <2>1, <2>8, SumaEntera
  <2>7. cxc'[i].monto = D - SumFunctionOnSet(g, Descuentos)
    BY <2>1, <2>2, <2>3, <2>4, <2>5, <2>6
  <2> QED
    BY <2>7 DEF Rebajada, f, g, D
<1>6. \A j \in N!Numeros : j # i => Rebajada(j)'
  BY DEF Rebajadas, Rebajada
<1> QED
  BY <1>3, <1>4, <1>5, <1>6 DEF Rebajadas

-----------------------------------------------------------------------------
(* What is known before a step, and what it has to keep *)

LEMMA Antes ==
    ASSUME N!Supuestos, IInv, NEW a \in N!Trabajan, NEW d, nObj[a] = d
    PROVE  /\ a \in N!Actores /\ d \in Descuentos /\ leido[a] \in Copias /\ nReg[d] \in Regs
           /\ Carga(a) /\ Consta(d) /\ Formas /\ Rebajadas
           /\ nMonto[d] \in Nat /\ N!Ajustado(d) \in Nat
           /\ leido[a].abono \in Nat /\ nReg[d].abono \in Nat
           /\ salida[d] \in Nat /\ aFavor[d] \in Nat /\ libro[d] \in Nat \cup {-1}
           /\ nPc[a] \in N!Pasos => nReg[d].turno = a /\ nReg[d].estado \notin {"no", "retirada"}
           /\ a \in Descuentos => d = a
           /\ \A b \in N!Trabajan : b # a /\ nPc[a] \in N!Pasos /\ nPc[b] \in N!Pasos => nObj[b] # d
<1>1. /\ a \in N!Actores /\ d \in Descuentos /\ leido[a] \in Copias /\ nReg[d] \in Regs
      /\ salida[d] \in Nat /\ aFavor[d] \in Nat /\ libro[d] \in Nat \cup {-1}
  BY DEF IInv, Formas, N!Actores, Regs
<1>2. Carga(a) /\ Consta(d) /\ Formas /\ Rebajadas
  BY <1>1 DEF IInv, Cargas, Registros
<1>3. nMonto[d] \in Nat /\ N!Ajustado(d) \in Nat
  BY <1>1, <1>2, AjustadoNatural DEF N!Supuestos
<1>4. leido[a].abono \in Nat /\ nReg[d].abono \in Nat
  BY <1>1 DEF Copias, Regs
<1>5. /\ nPc[a] \in N!Pasos => nReg[d].turno = a /\ nReg[d].estado \notin {"no", "retirada"}
      /\ a \in Descuentos => d = a
      /\ \A b \in N!Trabajan : b # a /\ nPc[a] \in N!Pasos /\ nPc[b] \in N!Pasos => nObj[b] # d
  BY DEF IInv, Turnos
<1> QED
  BY <1>1, <1>2, <1>3, <1>4, <1>5

LEMMA CargaOciosa ==
    ASSUME NEW b \in N!Trabajan, nPc'[b] \notin N!Pasos
    PROVE  Carga(b)'
BY DEF Carga, N!Pasos

LEMMA CargaDeOtro ==
    ASSUME NEW b \in N!Trabajan, NEW e, Carga(b), nPc'[b] = nPc[b], leido'[b] = leido[b], nObj'[b] = nObj[b],
           nObj[b] = e, nReg'[e] = nReg[e], salida'[e] = salida[e], aFavor'[e] = aFavor[e],
           libro'[e] = libro[e], (e \in notas' <=> e \in notas), N!Ajustado(e)' = N!Ajustado(e)
    PROVE  Carga(b)'
<1>1. EnCaja(e)' = EnCaja(e) /\ AlFavor(e)' = AlFavor(e)
  BY DEF EnCaja, AlFavor
<1> QED
  BY <1>1 DEF Carga

\* The discounts and those who work beside a and d do not change: what remains is their own.
LEMMA PasoEn ==
    ASSUME N!Supuestos, IInv, NEW a \in N!Trabajan, NEW d \in Descuentos, Formas', Rebajadas',
           Solo(a), SoloDe(d), nObj'[a] = d, nObj[a] = d \/ (nPc[a] = "libre" /\ a \notin Descuentos),
           \A b \in N!Trabajan : b # a /\ nPc[b] \in N!Pasos => nObj[b] # d,
           nPc'[a] \in N!Pasos => nReg'[d].turno = a /\ nReg'[d].estado \notin {"no", "retirada"},
           nPc'[d] = "libre" <=> nReg'[d].estado = "no",
           Carga(a)', Consta(d)'
    PROVE  IInv'
<1>1. Turnos'
  <2>1. ASSUME NEW b \in N!Trabajan, nPc'[b] \in N!Pasos
        PROVE  nReg'[nObj'[b]].turno = b /\ nReg'[nObj'[b]].estado \notin {"no", "retirada"}
    <3>1. CASE b = a
      BY <2>1, <3>1
    <3>2. CASE b # a
      <4>1. nPc[b] \in N!Pasos /\ nObj'[b] = nObj[b] /\ nObj[b] \in Descuentos
        BY <2>1, <3>2 DEF Solo, N!Actores, IInv, Formas
      <4>2. nObj[b] # d
        BY <3>2, <4>1
      <4> QED
        BY <4>1, <4>2 DEF SoloDe, IInv, Turnos
    <3> QED
      BY <3>1, <3>2
  <2>2. ASSUME NEW e \in Descuentos
        PROVE  nObj'[e] = e /\ (nPc'[e] = "libre" <=> nReg'[e].estado = "no")
    <3>1. nObj[e] = e /\ (nPc[e] = "libre" <=> nReg[e].estado = "no") /\ e \in N!Trabajan /\ e \in N!Actores
      BY DEF IInv, Turnos, N!Trabajan, N!Actores
    <3>2. CASE e = d
      BY <3>1, <3>2 DEF Solo
    <3>3. CASE e # d
      <4>1. e # a
        BY <3>1, <3>3
      <4> QED
        BY <3>1, <3>3, <4>1 DEF Solo, SoloDe
    <3> QED
      BY <3>2, <3>3
  <2>3. \A p \in Pagos : nPc'[p] \in {"libre", "fin"}
    <3>1. \A p \in Pagos : p # a /\ p \in N!Actores /\ nPc[p] \in {"libre", "fin"}
      BY DEF N!Supuestos, N!Actores, IInv, Turnos
    <3> QED
      BY <3>1 DEF Solo
  <2> QED
    BY <2>1, <2>2, <2>3 DEF Turnos
<1>2. Cargas'
  <2>1. SUFFICES ASSUME NEW b \in N!Trabajan, b # a PROVE Carga(b)'
    BY DEF Cargas
  <2>2. nPc'[b] = nPc[b] /\ leido'[b] = leido[b] /\ nObj'[b] = nObj[b]
    BY <2>1 DEF Solo, N!Actores
  <2>3. CASE nPc[b] \notin N!Pasos
    BY <2>2, <2>3, CargaOciosa
  <2>4. CASE nPc[b] \in N!Pasos
    <3>1. PICK e : e = nObj[b]
      OBVIOUS
    <3>2. e # d /\ e \in Descuentos /\ Carga(b)
      BY <2>1, <2>4, <3>1 DEF IInv, Formas, Cargas
    <3>3. /\ nReg'[e] = nReg[e] /\ salida'[e] = salida[e] /\ aFavor'[e] = aFavor[e]
          /\ libro'[e] = libro[e] /\ (e \in notas' <=> e \in notas) /\ N!Ajustado(e)' = N!Ajustado(e)
      BY <3>2 DEF SoloDe
    <3> QED
      BY <2>2, <3>1, <3>2, <3>3, CargaDeOtro
  <2> QED
    BY <2>3, <2>4
<1>3. Registros'
  <2>1. SUFFICES ASSUME NEW e \in Descuentos, e # d PROVE Consta(e)'
    BY DEF Registros
  <2>2. /\ nReg'[e] = nReg[e] /\ salida'[e] = salida[e] /\ aFavor'[e] = aFavor[e]
        /\ libro'[e] = libro[e] /\ (e \in notas' <=> e \in notas) /\ N!Ajustado(e)' = N!Ajustado(e)
    BY <2>1 DEF SoloDe
  <2>3. Consta(e) /\ EnCaja(e)' = EnCaja(e) /\ AlFavor(e)' = AlFavor(e)
    BY <2>2 DEF IInv, Registros, EnCaja, AlFavor
  <2>4. EnMarca(e) => EnMarca(e)'
    <3>1. SUFFICES ASSUME EnMarca(e) PROVE EnMarca(e)'
      OBVIOUS
    <3>2. PICK t \in N!Trabajan : t = nReg[e].turno /\ nPc[t] = "marcaCaja" /\ nObj[t] = e
      BY <3>1 DEF EnMarca
    <3>3. t # a
      BY <2>1, <3>2
    <3> QED
      BY <2>2, <3>2, <3>3 DEF Solo, N!Actores, EnMarca
  <2> QED
    BY <2>2, <2>3, <2>4 DEF Consta
<1> QED
  BY <1>1, <1>2, <1>3 DEF IInv

\* The same, of one who was at work.
LEMMA PasoPropio ==
    ASSUME N!Supuestos, IInv, NEW a \in N!Trabajan, NEW d, nObj[a] = d, nPc[a] \in N!Pasos, nObj' = nObj,
           Formas', Rebajadas', Solo(a), SoloDe(d),
           nPc'[a] \in N!Pasos => nReg'[d].turno = a /\ nReg'[d].estado \notin {"no", "retirada"},
           nPc'[a] = "libre" => a \notin Descuentos, nReg'[d].estado # "no",
           Carga(a)', Consta(d)'
    PROVE  IInv'
<1>1. d \in Descuentos /\ nReg[d].estado # "no" /\ (a \in Descuentos => d = a)
      /\ \A b \in N!Trabajan : b # a /\ nPc[b] \in N!Pasos => nObj[b] # d
  BY Antes
<1>2. nPc'[d] # "libre"
  <2>1. CASE d = a
    BY <1>1, <2>1
  <2>2. CASE d # a
    <3>1. nPc[d] # "libre" /\ d \in N!Actores
      BY <1>1 DEF IInv, Turnos, N!Actores, N!Trabajan
    <3> QED
      BY <2>2, <3>1 DEF Solo
  <2> QED
    BY <2>1, <2>2
<1> QED
  BY <1>1, <1>2, PasoEn

\* A step that touches no receivable nor any record.
LEMMA NadaDe ==
    ASSUME UNCHANGED <<cxc, nReg, notas, salida, aFavor, libro>>, NEW d
    PROVE  /\ SoloDe(d) /\ (Rebajadas => Rebajadas')
           /\ N!Ajustado(d)' = N!Ajustado(d) /\ EnCaja(d)' = EnCaja(d) /\ AlFavor(d)' = AlFavor(d)
<1>1. \A e : N!Ajustado(e)' = N!Ajustado(e)
  BY DEF N!Ajustado
<1>2. Rebajadas => Rebajadas'
  BY DEF Rebajadas, Rebajada
<1> QED
  BY <1>1, <1>2 DEF SoloDe, EnCaja, AlFavor

\* Nor the receivables alone.
LEMMA NadaDeCartera ==
    ASSUME UNCHANGED cxc
    PROVE  /\ Rebajadas => Rebajadas'
           /\ \A e : N!Ajustado(e)' = N!Ajustado(e) /\ EnCaja(e)' = EnCaja(e) /\ AlFavor(e)' = AlFavor(e)
<1>1. \A e : N!Ajustado(e)' = N!Ajustado(e)
  BY DEF N!Ajustado
<1>2. Rebajadas => Rebajadas'
  BY DEF Rebajadas, Rebajada
<1> QED
  BY <1>1, <1>2 DEF EnCaja, AlFavor

LEMMA ConstaQuieta ==
    ASSUME N!Supuestos, IInv, NEW a \in N!Trabajan, NEW d, nObj[a] = d, nPc[a] \in N!Pasos, nPc[a] # "marcaCaja",
           UNCHANGED <<cxc, nReg, notas, salida, aFavor, libro>>
    PROVE  Consta(d)'
<1>1. Consta(d) /\ nReg[d].turno = a
  BY Antes
<1>3. ~EnMarca(d)
  BY <1>1 DEF EnMarca
<1>2. N!Ajustado(d)' = N!Ajustado(d) /\ EnCaja(d)' = EnCaja(d) /\ AlFavor(d)' = AlFavor(d)
  BY NadaDe
<1> QED
  BY <1>1, <1>2, <1>3 DEF Consta

-----------------------------------------------------------------------------
(* One lemma per action *)

LEMMA AbreLaCopia ==
    ASSUME NEW C, NEW X, NEW Y
    PROVE  [[cuentas |-> X, i |-> 0, abono |-> 0, estado |-> Y] EXCEPT !.i = 1, !.cuentas = C]
             = [cuentas |-> C, i |-> 1, abono |-> 0, estado |-> Y]
<1> DEFINE r == [cuentas |-> X, i |-> 0, abono |-> 0, estado |-> Y]
           p == [r EXCEPT !.i = 1]
<1>1. r = [cuentas |-> X, i |-> 0, abono |-> 0, estado |-> Y]
  OBVIOUS
<1>2. p = [r EXCEPT !.i = 1]
  OBVIOUS
<1> HIDE DEF r, p
<1>3. p = [cuentas |-> X, i |-> 1, abono |-> 0, estado |-> Y]
  BY <1>1, <1>2
<1>4. [p EXCEPT !.cuentas = C] = [cuentas |-> C, i |-> 1, abono |-> 0, estado |-> Y]
  BY <1>3
<1>5. [r EXCEPT !.i = 1, !.cuentas = C] = [p EXCEPT !.cuentas = C]
  BY <1>2
<1> QED
  BY <1>4, <1>5 DEF r

\* It takes what its record had lowered, or reads the open receivables.
LEMMA LeerGuarda ==
    ASSUME N!Supuestos, IInv, NEW a \in N!Trabajan, NEW d, nObj[a] = d, N!Leer(a)
    PROVE  IInv'
<1>1. nPc[a] = "leer" /\ nPc[a] \in N!Pasos /\ nObj' = nObj
      /\ UNCHANGED <<cxc, nReg, notas, salida, aFavor, libro, nObj, nFallas, nCortes>>
  BY DEF N!Leer, N!Pasos
<1>2. SoloDe(d) /\ Rebajadas' /\ N!Ajustado(d)' = N!Ajustado(d) /\ Consta(d)'
  BY <1>1, NadaDe, Antes, ConstaQuieta
<1>3. /\ a \in N!Actores /\ d \in Descuentos /\ Carga(a) /\ Formas /\ leido[a] \in Copias
      /\ N!Ajustado(d) \in Nat /\ nReg[d].turno = a /\ nReg[d].estado \notin {"no", "retirada"}
      /\ (a \in Descuentos => d = a)
  BY <1>1, Antes
<1>4. \E l \in Copias, s \in Sitios :
        /\ leido' = [leido EXCEPT ![a] = l] /\ N!Va(a, s) /\ l.abono = N!Ajustado(d)
        /\ \/ s = "abonar" /\ N!Ajustado(d) = 0
           \/ s = IF a \in Descuentos THEN "nota" ELSE "guardarCartera"
  <2>1. CASE N!Ajustado(d) > 0
    <3>1. [leido[a] EXCEPT !.abono = N!Ajustado(d)] \in Copias
      BY <1>3 DEF Copias
    <3>2. leido' = [leido EXCEPT ![a] = [leido[a] EXCEPT !.abono = N!Ajustado(d)]] /\ N!TrasCartera(a)
      BY <2>1, <1>3 DEF N!Leer, Formas
    <3> QED
      BY <3>1, <3>2, <1>3 DEF Copias, N!TrasCartera, Sitios, N!Pasos
  <2>2. CASE ~(N!Ajustado(d) > 0)
    <3> DEFINE C == [i \in N!Numeros |-> IF cxc[i].estado = "paid" THEN [monto |-> 0, pagado |-> 0]
                                       ELSE [monto |-> cxc[i].monto, pagado |-> cxc[i].pagado]]
               l == [cuentas |-> C, i |-> 1, abono |-> 0, estado |-> [monto |-> 0, pagado |-> 0]]
    <3>1. C \in [N!Numeros -> [monto : Nat, pagado : Nat]]
      BY <1>3 DEF Formas
    <3>2. leido' = [leido EXCEPT ![a] = [N!SinLeer EXCEPT !.i = 1, !.cuentas = C]] /\ N!Va(a, "abonar")
      BY <2>2 DEF N!Leer
    <3> HIDE DEF C
    <3>3. [N!SinLeer EXCEPT !.i = 1, !.cuentas = C] = l
      BY AbreLaCopia DEF N!SinLeer
    <3>4. l \in Copias /\ l.abono = 0
      BY <3>1 DEF Copias
    <3>5. leido' = [leido EXCEPT ![a] = l]
      BY <3>2, <3>3
    <3> HIDE DEF l
    <3>6. "abonar" \in Sitios /\ N!Ajustado(d) = 0
      BY <2>2, <1>3 DEF Sitios, N!Pasos
    <3> QED
      BY <3>2, <3>4, <3>5, <3>6
  <2> QED
    BY <2>1, <2>2
<1>5. PICK l \in Copias, s \in Sitios :
        /\ leido' = [leido EXCEPT ![a] = l] /\ N!Va(a, s) /\ l.abono = N!Ajustado(d)
        /\ \/ s = "abonar" /\ N!Ajustado(d) = 0
           \/ s = IF a \in Descuentos THEN "nota" ELSE "guardarCartera"
  BY <1>4
<1>6. /\ nPc' \in [N!Actores -> Sitios] /\ nPc'[a] = s /\ (\A b \in N!Actores : b # a => nPc'[b] = nPc[b])
      /\ leido' \in [N!Trabajan -> Copias] /\ leido'[a] = l
      /\ \A b \in N!Trabajan : b # a => leido'[b] = leido[b]
  BY <1>3, <1>5, VaHace, PoneMem
<1>7. Solo(a)
  BY <1>1, <1>6 DEF Solo
<1>8. Formas'
  BY <1>1, <1>3, <1>6 DEF Formas, Sitios
<1>9. Carga(a)'
  BY <1>1, <1>2, <1>3, <1>5, <1>6 DEF Carga
<1>10. nPc'[a] # "libre"
  BY <1>5, <1>6
<1> QED
  BY <1>1, <1>2, <1>3, <1>7, <1>8, <1>9, <1>10, PasoPropio

\* The status of a receivable says nothing of what it went down.
LEMMA Revertir2Guarda ==
    ASSUME N!Supuestos, IInv, NEW a \in N!Trabajan, NEW d, nObj[a] = d, N!Revertir2(a)
    PROVE  IInv'
<1>1. nPc[a] = "revertir2" /\ nPc[a] \in N!Pasos /\ nObj' = nObj /\ N!Va(a, "revertir")
      /\ UNCHANGED <<nReg, notas, salida, aFavor, libro, nObj, leido, nFallas, nCortes>>
  BY DEF N!Revertir2, N!Pasos
<1>2. /\ a \in N!Actores /\ d \in Descuentos /\ Carga(a) /\ Consta(d) /\ Formas /\ Rebajadas
      /\ nReg[d].turno = a /\ nReg[d].estado \notin {"no", "retirada"}
  BY <1>1, Antes
<1>3. PICK i \in N!Numeros : leido[a].i = i
  BY <1>1, <1>2 DEF Carga
<1>4. PICK c \in CxCs : /\ cxc' = [cxc EXCEPT ![i] = c]
                        /\ c.ajustes = cxc[i].ajustes /\ c.monto = cxc[i].monto
  <2> DEFINE c == [cxc[i] EXCEPT !.estado = N!EstadoSegun(leido[a].estado)]
  <2>3. N!EstadoSegun(leido[a].estado) \in {"open", "partial", "paid"}
    BY EstadoTipo
  <2>4. cxc[i] \in CxCs
    BY <1>2 DEF Formas, CxCs
  <2>1. c \in CxCs /\ c.ajustes = cxc[i].ajustes /\ c.monto = cxc[i].monto
    BY <2>3, <2>4 DEF CxCs
  <2>2. cxc' = [cxc EXCEPT ![i] = c]
    BY <1>2, <1>3 DEF N!Revertir2, Formas
  <2> QED
    BY <2>1, <2>2
<1>5. cxc' \in [N!Numeros -> CxCs] /\ cxc'[i] = c /\ \A j \in N!Numeros : j # i => cxc'[j] = cxc[j]
  BY <1>2, <1>4, PoneCxc
<1>6. \A j \in N!Numeros : cxc'[j].ajustes = cxc[j].ajustes /\ cxc'[j].monto = cxc[j].monto
  BY <1>4, <1>5
<1>7. (\A e \in Descuentos : N!Ajustado(e)' = N!Ajustado(e)) /\ Rebajadas'
  BY <1>2, <1>6, AjusteQuieto
<1>8. SoloDe(d)
  BY <1>1, <1>7 DEF SoloDe
<1>9. nPc' \in [N!Actores -> Sitios] /\ nPc'[a] = "revertir" /\ \A b \in N!Actores : b # a => nPc'[b] = nPc[b]
  <2>1. "revertir" \in Sitios
    BY DEF Sitios, N!Pasos
  <2> QED
    BY <1>1, <1>2, <2>1, VaHace
<1>10. Solo(a)
  BY <1>1, <1>9 DEF Solo
<1>11. Formas'
  BY <1>1, <1>2, <1>5, <1>9 DEF Formas, Sitios, CxCs
<1>12. N!Ajustado(d)' = N!Ajustado(d) /\ EnCaja(d)' = EnCaja(d) /\ AlFavor(d)' = AlFavor(d)
  BY <1>2, <1>7 DEF EnCaja, AlFavor
<1>13. Carga(a)'
  BY <1>1, <1>2, <1>9, <1>12 DEF Carga
<1>14. Consta(d)'
  BY <1>1, <1>2, <1>12 DEF Consta, Carga
<1> QED
  BY <1>1, <1>2, <1>7, <1>8, <1>9, <1>10, <1>11, <1>13, <1>14, PasoPropio

\* The record says what the receivables went down.
LEMMA CarteraGuardaPaso ==
    ASSUME N!Supuestos, IInv, NEW a \in N!Trabajan, NEW d, nObj[a] = d, N!GuardarCartera(a)
    PROVE  IInv'
<1>1. nPc[a] = "guardarCartera" /\ nPc[a] \in N!Pasos /\ nObj' = nObj /\ UNCHANGED <<cxc, notas, salida, aFavor, libro, nObj, leido, nFallas, nCortes>>
  BY DEF N!GuardarCartera, N!Pasos
<1>2. /\ a \in N!Actores /\ d \in Descuentos /\ Carga(a) /\ Consta(d) /\ Formas /\ nReg[d] \in Regs
      /\ leido[a] \in Copias /\ leido[a].abono \in Nat /\ nMonto[d] \in Nat /\ N!Ajustado(d) \in Nat
      /\ nReg[d].turno = a /\ nReg[d].estado \notin {"no", "retirada"}
      /\ (a \in Descuentos => d = a) /\ nReg[d].abono \in Nat
      /\ salida[d] \in Nat /\ aFavor[d] \in Nat /\ libro[d] \in Nat \cup {-1}
  BY <1>1, Antes
<1>16. nPc[a] # "marcaCaja" => salida[d] = 0 \/ nReg[d].caja
  BY <1>2 DEF Consta, EnMarca
<1>3. Rebajadas' /\ \A e : N!Ajustado(e)' = N!Ajustado(e) /\ EnCaja(e)' = EnCaja(e) /\ AlFavor(e)' = AlFavor(e)
  BY <1>1, Antes, NadaDeCartera
<1>4. PICK r \in Regs : /\ nReg' = [nReg EXCEPT ![d] = r]
                        /\ r = [nReg[d] EXCEPT !.abono = leido[a].abono, !.cartera = TRUE]
  <2> DEFINE r == [nReg[d] EXCEPT !.abono = leido[a].abono, !.cartera = TRUE]
  <2>1. r \in Regs /\ nReg' = [nReg EXCEPT ![d] = r]
    BY <1>1, <1>2 DEF Regs, N!GuardarCartera, Formas, N!SinRegistro
  <2> QED
    BY <1>2, <2>1 DEF Regs, N!SinRegistro
<1>5. nReg' \in [Descuentos -> Regs] /\ nReg'[d] = r /\ \A e \in Descuentos : e # d => nReg'[e] = nReg[e]
  BY <1>2, <1>4, PoneReg
<1>6. PICK s \in Sitios :
        /\ N!Va(a, s)
        /\ s = "nota"
  BY <1>2 DEF N!GuardarCartera, N!TrasCaja, N!Lanza, Sitios, N!Pasos
<1>7. nPc' \in [N!Actores -> Sitios] /\ nPc'[a] = s /\ \A b \in N!Actores : b # a => nPc'[b] = nPc[b]
  BY <1>2, <1>6, VaHace
<1>8. Solo(a)
  BY <1>1, <1>7 DEF Solo
<1>12. SoloDe(d)
  BY <1>1, <1>2, <1>3, <1>5 DEF SoloDe, Formas
<1>13. Formas'
  BY <1>1, <1>2, <1>7, <1>5 DEF Formas, Sitios, Regs
<1>14. Carga(a)'
  BY <1>1, <1>2, <1>3, <1>6, <1>7, <1>16, <1>4, <1>5 DEF Carga
<1>15. Consta(d)'
  BY <1>1, <1>2, <1>3, <1>6, <1>7, <1>16, <1>4, <1>5 DEF Consta, Carga
<1>17. /\ nPc'[a] \in N!Pasos => nReg'[d].turno = a /\ nReg'[d].estado \notin {"no", "retirada"}
       /\ nPc'[a] = "libre" => a \notin Descuentos
       /\ nReg'[d].estado # "no"
  BY <1>1, <1>2, <1>6, <1>7, <1>4, <1>5 DEF N!Pasos
<1> QED
  BY <1>1, <1>2, <1>3, <1>8, <1>12, <1>13, <1>14, <1>15, <1>17, PasoPropio

\* The record withdraws, with nothing done.
LEMMA BorrarGuarda ==
    ASSUME N!Supuestos, IInv, NEW a \in N!Trabajan, NEW d, nObj[a] = d, N!Borrar(a)
    PROVE  IInv'
<1>1. nPc[a] = "borrar" /\ nPc[a] \in N!Pasos /\ nObj' = nObj /\ UNCHANGED <<cxc, notas, salida, aFavor, libro, nObj, leido, nFallas, nCortes>>
  BY DEF N!Borrar, N!Pasos
<1>2. /\ a \in N!Actores /\ d \in Descuentos /\ Carga(a) /\ Consta(d) /\ Formas /\ nReg[d] \in Regs
      /\ leido[a] \in Copias /\ leido[a].abono \in Nat /\ nMonto[d] \in Nat /\ N!Ajustado(d) \in Nat
      /\ nReg[d].turno = a /\ nReg[d].estado \notin {"no", "retirada"}
      /\ (a \in Descuentos => d = a) /\ nReg[d].abono \in Nat
      /\ salida[d] \in Nat /\ aFavor[d] \in Nat /\ libro[d] \in Nat \cup {-1}
  BY <1>1, Antes
<1>16. nPc[a] # "marcaCaja" => salida[d] = 0 \/ nReg[d].caja
  BY <1>2 DEF Consta, EnMarca
<1>3. Rebajadas' /\ \A e : N!Ajustado(e)' = N!Ajustado(e) /\ EnCaja(e)' = EnCaja(e) /\ AlFavor(e)' = AlFavor(e)
  BY <1>1, Antes, NadaDeCartera
<1>4. PICK r \in Regs : /\ nReg' = [nReg EXCEPT ![d] = r]
                        /\ r = [N!SinRegistro EXCEPT !.estado = "retirada"]
  <2> DEFINE r == [N!SinRegistro EXCEPT !.estado = "retirada"]
  <2>1. r \in Regs /\ nReg' = [nReg EXCEPT ![d] = r]
    BY <1>1, <1>2 DEF Regs, N!Borrar, Formas, N!SinRegistro, Carga
  <2> QED
    BY <1>2, <2>1 DEF Regs, N!SinRegistro
<1>5. nReg' \in [Descuentos -> Regs] /\ nReg'[d] = r /\ \A e \in Descuentos : e # d => nReg'[e] = nReg[e]
  BY <1>2, <1>4, PoneReg
<1>6. PICK s \in Sitios :
        /\ N!Va(a, s)
        /\ s = "error"
  BY <1>2 DEF N!Borrar, N!TrasCaja, N!Lanza, Sitios, N!Pasos
<1>7. nPc' \in [N!Actores -> Sitios] /\ nPc'[a] = s /\ \A b \in N!Actores : b # a => nPc'[b] = nPc[b]
  BY <1>2, <1>6, VaHace
<1>8. Solo(a)
  BY <1>1, <1>7 DEF Solo
<1>12. SoloDe(d)
  BY <1>1, <1>2, <1>3, <1>5 DEF SoloDe, Formas
<1>13. Formas'
  BY <1>1, <1>2, <1>7, <1>5 DEF Formas, Sitios, Regs
<1>14. Carga(a)'
  BY <1>1, <1>2, <1>3, <1>6, <1>7, <1>16, <1>4, <1>5 DEF Carga
<1>15. Consta(d)'
  BY <1>1, <1>2, <1>3, <1>6, <1>7, <1>16, <1>4, <1>5 DEF Consta, Carga, N!SinRegistro
<1>17. /\ nPc'[a] \in N!Pasos => nReg'[d].turno = a /\ nReg'[d].estado \notin {"no", "retirada"}
       /\ nPc'[a] = "libre" => a \notin Descuentos
       /\ nReg'[d].estado # "no"
  BY <1>1, <1>2, <1>6, <1>7, <1>4, <1>5 DEF N!Pasos, N!SinRegistro
<1> QED
  BY <1>1, <1>2, <1>3, <1>8, <1>12, <1>13, <1>14, <1>15, <1>17, PasoPropio

\* What is left to do follows what the record says is done.
LEMMA GuardarGuarda ==
    ASSUME N!Supuestos, IInv, NEW a \in N!Trabajan, NEW d, nObj[a] = d, N!Guardar(a)
    PROVE  IInv'
<1>1. nPc[a] = "guardar" /\ nPc[a] \in N!Pasos /\ nObj' = nObj /\ UNCHANGED <<cxc, notas, salida, aFavor, libro, nObj, leido, nFallas, nCortes>>
  BY DEF N!Guardar, N!Pasos
<1>2. /\ a \in N!Actores /\ d \in Descuentos /\ Carga(a) /\ Consta(d) /\ Formas /\ nReg[d] \in Regs
      /\ leido[a] \in Copias /\ leido[a].abono \in Nat /\ nMonto[d] \in Nat /\ N!Ajustado(d) \in Nat
      /\ nReg[d].turno = a /\ nReg[d].estado \notin {"no", "retirada"}
      /\ (a \in Descuentos => d = a) /\ nReg[d].abono \in Nat
      /\ salida[d] \in Nat /\ aFavor[d] \in Nat /\ libro[d] \in Nat \cup {-1}
  BY <1>1, Antes
<1>16. nPc[a] # "marcaCaja" => salida[d] = 0 \/ nReg[d].caja
  BY <1>2 DEF Consta, EnMarca
<1>3. Rebajadas' /\ \A e : N!Ajustado(e)' = N!Ajustado(e) /\ EnCaja(e)' = EnCaja(e) /\ AlFavor(e)' = AlFavor(e)
  BY <1>1, Antes, NadaDeCartera
<1>4. PICK r \in Regs : /\ nReg' = [nReg EXCEPT ![d] = r]
                        /\ r = [nReg[d] EXCEPT !.abono = leido[a].abono, !.cartera = TRUE]
  <2> DEFINE r == [nReg[d] EXCEPT !.abono = leido[a].abono, !.cartera = TRUE]
  <2>1. r \in Regs /\ nReg' = [nReg EXCEPT ![d] = r]
    BY <1>1, <1>2 DEF Regs, N!Guardar, Formas, N!SinRegistro
  <2> QED
    BY <1>2, <2>1 DEF Regs, N!SinRegistro
<1>5. nReg' \in [Descuentos -> Regs] /\ nReg'[d] = r /\ \A e \in Descuentos : e # d => nReg'[e] = nReg[e]
  BY <1>2, <1>4, PoneReg
<1>6. PICK s \in Sitios :
        /\ N!Va(a, s)
        /\ s = IF nReg[d].caja THEN IF nReg[d].asiento THEN "cerrar" ELSE "favor" ELSE "caja"
  BY <1>2 DEF N!Guardar, N!TrasCaja, N!Lanza, Sitios, N!Pasos
<1>7. nPc' \in [N!Actores -> Sitios] /\ nPc'[a] = s /\ \A b \in N!Actores : b # a => nPc'[b] = nPc[b]
  BY <1>2, <1>6, VaHace
<1>8. Solo(a)
  BY <1>1, <1>7 DEF Solo
<1>12. SoloDe(d)
  BY <1>1, <1>2, <1>3, <1>5 DEF SoloDe, Formas
<1>13. Formas'
  BY <1>1, <1>2, <1>7, <1>5 DEF Formas, Sitios, Regs
<1>14. Carga(a)'
  BY <1>1, <1>2, <1>3, <1>6, <1>7, <1>16, <1>4, <1>5 DEF Carga
<1>15. Consta(d)'
  BY <1>1, <1>2, <1>3, <1>6, <1>7, <1>16, <1>4, <1>5 DEF Consta, Carga
<1>17. /\ nPc'[a] \in N!Pasos => nReg'[d].turno = a /\ nReg'[d].estado \notin {"no", "retirada"}
       /\ nPc'[a] = "libre" => a \notin Descuentos
       /\ nReg'[d].estado # "no"
  BY <1>1, <1>2, <1>6, <1>7, <1>4, <1>5 DEF N!Pasos
<1> QED
  BY <1>1, <1>2, <1>3, <1>8, <1>12, <1>13, <1>14, <1>15, <1>17, PasoPropio

\* The cash that left is on the record.
LEMMA MarcaCajaGuarda ==
    ASSUME N!Supuestos, IInv, NEW a \in N!Trabajan, NEW d, nObj[a] = d, N!MarcaCaja(a)
    PROVE  IInv'
<1>1. nPc[a] = "marcaCaja" /\ nPc[a] \in N!Pasos /\ nObj' = nObj /\ UNCHANGED <<cxc, notas, salida, aFavor, libro, nObj, leido, nFallas, nCortes>>
  BY DEF N!MarcaCaja, N!Pasos
<1>2. /\ a \in N!Actores /\ d \in Descuentos /\ Carga(a) /\ Consta(d) /\ Formas /\ nReg[d] \in Regs
      /\ leido[a] \in Copias /\ leido[a].abono \in Nat /\ nMonto[d] \in Nat /\ N!Ajustado(d) \in Nat
      /\ nReg[d].turno = a /\ nReg[d].estado \notin {"no", "retirada"}
      /\ (a \in Descuentos => d = a) /\ nReg[d].abono \in Nat
      /\ salida[d] \in Nat /\ aFavor[d] \in Nat /\ libro[d] \in Nat \cup {-1}
  BY <1>1, Antes
<1>16. nPc[a] # "marcaCaja" => salida[d] = 0 \/ nReg[d].caja
  BY <1>2 DEF Consta, EnMarca
<1>3. Rebajadas' /\ \A e : N!Ajustado(e)' = N!Ajustado(e) /\ EnCaja(e)' = EnCaja(e) /\ AlFavor(e)' = AlFavor(e)
  BY <1>1, Antes, NadaDeCartera
<1>4. PICK r \in Regs : /\ nReg' = [nReg EXCEPT ![d] = r]
                        /\ r = [nReg[d] EXCEPT !.caja = TRUE]
  <2> DEFINE r == [nReg[d] EXCEPT !.caja = TRUE]
  <2>1. r \in Regs /\ nReg' = [nReg EXCEPT ![d] = r]
    BY <1>1, <1>2 DEF Regs, N!MarcaCaja, Formas, N!SinRegistro
  <2> QED
    BY <1>2, <2>1 DEF Regs, N!SinRegistro
<1>5. nReg' \in [Descuentos -> Regs] /\ nReg'[d] = r /\ \A e \in Descuentos : e # d => nReg'[e] = nReg[e]
  BY <1>2, <1>4, PoneReg
<1>6. PICK s \in Sitios :
        /\ N!Va(a, s)
        /\ s = IF nReg[d].asiento THEN "cerrar" ELSE "favor"
  BY <1>2 DEF N!MarcaCaja, N!TrasCaja, N!Lanza, Sitios, N!Pasos
<1>7. nPc' \in [N!Actores -> Sitios] /\ nPc'[a] = s /\ \A b \in N!Actores : b # a => nPc'[b] = nPc[b]
  BY <1>2, <1>6, VaHace
<1>8. Solo(a)
  BY <1>1, <1>7 DEF Solo
<1>12. SoloDe(d)
  BY <1>1, <1>2, <1>3, <1>5 DEF SoloDe, Formas
<1>13. Formas'
  BY <1>1, <1>2, <1>7, <1>5 DEF Formas, Sitios, Regs
<1>14. Carga(a)'
  BY <1>1, <1>2, <1>3, <1>6, <1>7, <1>16, <1>4, <1>5 DEF Carga
<1>15. Consta(d)'
  BY <1>1, <1>2, <1>3, <1>6, <1>7, <1>16, <1>4, <1>5 DEF Consta, Carga
<1>17. /\ nPc'[a] \in N!Pasos => nReg'[d].turno = a /\ nReg'[d].estado \notin {"no", "retirada"}
       /\ nPc'[a] = "libre" => a \notin Descuentos
       /\ nReg'[d].estado # "no"
  BY <1>1, <1>2, <1>6, <1>7, <1>4, <1>5 DEF N!Pasos
<1> QED
  BY <1>1, <1>2, <1>3, <1>8, <1>12, <1>13, <1>14, <1>15, <1>17, PasoPropio

\* The entry is on the record.
LEMMA MarcaLibroGuarda ==
    ASSUME N!Supuestos, IInv, NEW a \in N!Trabajan, NEW d, nObj[a] = d, N!MarcaLibro(a)
    PROVE  IInv'
<1>1. nPc[a] = "marcaLibro" /\ nPc[a] \in N!Pasos /\ nObj' = nObj /\ UNCHANGED <<cxc, notas, salida, aFavor, libro, nObj, leido, nFallas, nCortes>>
  BY DEF N!MarcaLibro, N!Pasos
<1>2. /\ a \in N!Actores /\ d \in Descuentos /\ Carga(a) /\ Consta(d) /\ Formas /\ nReg[d] \in Regs
      /\ leido[a] \in Copias /\ leido[a].abono \in Nat /\ nMonto[d] \in Nat /\ N!Ajustado(d) \in Nat
      /\ nReg[d].turno = a /\ nReg[d].estado \notin {"no", "retirada"}
      /\ (a \in Descuentos => d = a) /\ nReg[d].abono \in Nat
      /\ salida[d] \in Nat /\ aFavor[d] \in Nat /\ libro[d] \in Nat \cup {-1}
  BY <1>1, Antes
<1>16. nPc[a] # "marcaCaja" => salida[d] = 0 \/ nReg[d].caja
  BY <1>2 DEF Consta, EnMarca
<1>3. Rebajadas' /\ \A e : N!Ajustado(e)' = N!Ajustado(e) /\ EnCaja(e)' = EnCaja(e) /\ AlFavor(e)' = AlFavor(e)
  BY <1>1, Antes, NadaDeCartera
<1>4. PICK r \in Regs : /\ nReg' = [nReg EXCEPT ![d] = r]
                        /\ r = [nReg[d] EXCEPT !.asiento = TRUE]
  <2> DEFINE r == [nReg[d] EXCEPT !.asiento = TRUE]
  <2>1. r \in Regs /\ nReg' = [nReg EXCEPT ![d] = r]
    BY <1>1, <1>2 DEF Regs, N!MarcaLibro, Formas, N!SinRegistro
  <2> QED
    BY <1>2, <2>1 DEF Regs, N!SinRegistro
<1>5. nReg' \in [Descuentos -> Regs] /\ nReg'[d] = r /\ \A e \in Descuentos : e # d => nReg'[e] = nReg[e]
  BY <1>2, <1>4, PoneReg
<1>6. PICK s \in Sitios :
        /\ N!Va(a, s)
        /\ s = "cerrar"
  BY <1>2 DEF N!MarcaLibro, N!TrasCaja, N!Lanza, Sitios, N!Pasos
<1>7. nPc' \in [N!Actores -> Sitios] /\ nPc'[a] = s /\ \A b \in N!Actores : b # a => nPc'[b] = nPc[b]
  BY <1>2, <1>6, VaHace
<1>8. Solo(a)
  BY <1>1, <1>7 DEF Solo
<1>12. SoloDe(d)
  BY <1>1, <1>2, <1>3, <1>5 DEF SoloDe, Formas
<1>13. Formas'
  BY <1>1, <1>2, <1>7, <1>5 DEF Formas, Sitios, Regs
<1>14. Carga(a)'
  BY <1>1, <1>2, <1>3, <1>6, <1>7, <1>16, <1>4, <1>5 DEF Carga
<1>15. Consta(d)'
  BY <1>1, <1>2, <1>3, <1>6, <1>7, <1>16, <1>4, <1>5 DEF Consta, Carga
<1>17. /\ nPc'[a] \in N!Pasos => nReg'[d].turno = a /\ nReg'[d].estado \notin {"no", "retirada"}
       /\ nPc'[a] = "libre" => a \notin Descuentos
       /\ nReg'[d].estado # "no"
  BY <1>1, <1>2, <1>6, <1>7, <1>4, <1>5 DEF N!Pasos
<1> QED
  BY <1>1, <1>2, <1>3, <1>8, <1>12, <1>13, <1>14, <1>15, <1>17, PasoPropio

\* It is complete when all is done.
LEMMA CerrarGuarda ==
    ASSUME N!Supuestos, IInv, NEW a \in N!Trabajan, NEW d, nObj[a] = d, N!Cerrar(a)
    PROVE  IInv'
<1>1. nPc[a] = "cerrar" /\ nPc[a] \in N!Pasos /\ nObj' = nObj /\ UNCHANGED <<cxc, notas, salida, aFavor, libro, nObj, leido, nFallas, nCortes>>
  BY DEF N!Cerrar, N!Pasos
<1>2. /\ a \in N!Actores /\ d \in Descuentos /\ Carga(a) /\ Consta(d) /\ Formas /\ nReg[d] \in Regs
      /\ leido[a] \in Copias /\ leido[a].abono \in Nat /\ nMonto[d] \in Nat /\ N!Ajustado(d) \in Nat
      /\ nReg[d].turno = a /\ nReg[d].estado \notin {"no", "retirada"}
      /\ (a \in Descuentos => d = a) /\ nReg[d].abono \in Nat
      /\ salida[d] \in Nat /\ aFavor[d] \in Nat /\ libro[d] \in Nat \cup {-1}
  BY <1>1, Antes
<1>16. nPc[a] # "marcaCaja" => salida[d] = 0 \/ nReg[d].caja
  BY <1>2 DEF Consta, EnMarca
<1>3. Rebajadas' /\ \A e : N!Ajustado(e)' = N!Ajustado(e) /\ EnCaja(e)' = EnCaja(e) /\ AlFavor(e)' = AlFavor(e)
  BY <1>1, Antes, NadaDeCartera
<1>4. PICK r \in Regs : /\ nReg' = [nReg EXCEPT ![d] = r]
                        /\ r = [nReg[d] EXCEPT !.estado = IF nReg[d].caja /\ nReg[d].asiento THEN "completa" ELSE "pendiente_caja"]
  <2> DEFINE r == [nReg[d] EXCEPT !.estado = IF nReg[d].caja /\ nReg[d].asiento THEN "completa" ELSE "pendiente_caja"]
  <2>1. r \in Regs /\ nReg' = [nReg EXCEPT ![d] = r]
    BY <1>1, <1>2 DEF Regs, N!Cerrar, Formas, N!SinRegistro
  <2> QED
    BY <1>2, <2>1 DEF Regs, N!SinRegistro
<1>5. nReg' \in [Descuentos -> Regs] /\ nReg'[d] = r /\ \A e \in Descuentos : e # d => nReg'[e] = nReg[e]
  BY <1>2, <1>4, PoneReg
<1>6. PICK s \in Sitios :
        /\ N!Va(a, s)
        /\ s = "soltar"
  BY <1>2 DEF N!Cerrar, N!TrasCaja, N!Lanza, Sitios, N!Pasos
<1>7. nPc' \in [N!Actores -> Sitios] /\ nPc'[a] = s /\ \A b \in N!Actores : b # a => nPc'[b] = nPc[b]
  BY <1>2, <1>6, VaHace
<1>8. Solo(a)
  BY <1>1, <1>7 DEF Solo
<1>12. SoloDe(d)
  BY <1>1, <1>2, <1>3, <1>5 DEF SoloDe, Formas
<1>13. Formas'
  BY <1>1, <1>2, <1>7, <1>5 DEF Formas, Sitios, Regs
<1>14. Carga(a)'
  BY <1>1, <1>2, <1>3, <1>6, <1>7, <1>16, <1>4, <1>5 DEF Carga
<1>15. Consta(d)'
  BY <1>1, <1>2, <1>3, <1>6, <1>7, <1>16, <1>4, <1>5 DEF Consta, Carga
<1>17. /\ nPc'[a] \in N!Pasos => nReg'[d].turno = a /\ nReg'[d].estado \notin {"no", "retirada"}
       /\ nPc'[a] = "libre" => a \notin Descuentos
       /\ nReg'[d].estado # "no"
  BY <1>1, <1>2, <1>6, <1>7, <1>4, <1>5 DEF N!Pasos
<1> QED
  BY <1>1, <1>2, <1>3, <1>8, <1>12, <1>13, <1>14, <1>15, <1>17, PasoPropio

\* The turn is left to others.
LEMMA SoltarGuarda ==
    ASSUME N!Supuestos, IInv, NEW a \in N!Trabajan, NEW d, nObj[a] = d, N!Soltar(a)
    PROVE  IInv'
<1>1. nPc[a] = "soltar" /\ nPc[a] \in N!Pasos /\ nObj' = nObj /\ UNCHANGED <<cxc, notas, salida, aFavor, libro, nObj, leido, nFallas, nCortes>>
  BY DEF N!Soltar, N!Pasos
<1>2. /\ a \in N!Actores /\ d \in Descuentos /\ Carga(a) /\ Consta(d) /\ Formas /\ nReg[d] \in Regs
      /\ leido[a] \in Copias /\ leido[a].abono \in Nat /\ nMonto[d] \in Nat /\ N!Ajustado(d) \in Nat
      /\ nReg[d].turno = a /\ nReg[d].estado \notin {"no", "retirada"}
      /\ (a \in Descuentos => d = a) /\ nReg[d].abono \in Nat
      /\ salida[d] \in Nat /\ aFavor[d] \in Nat /\ libro[d] \in Nat \cup {-1}
  BY <1>1, Antes
<1>16. nPc[a] # "marcaCaja" => salida[d] = 0 \/ nReg[d].caja
  BY <1>2 DEF Consta, EnMarca
<1>3. Rebajadas' /\ \A e : N!Ajustado(e)' = N!Ajustado(e) /\ EnCaja(e)' = EnCaja(e) /\ AlFavor(e)' = AlFavor(e)
  BY <1>1, Antes, NadaDeCartera
<1>4. PICK r \in Regs : /\ nReg' = [nReg EXCEPT ![d] = r]
                        /\ r = [nReg[d] EXCEPT !.turno = nNadie]
  <2> DEFINE r == [nReg[d] EXCEPT !.turno = nNadie]
  <2>1. r \in Regs /\ nReg' = [nReg EXCEPT ![d] = r]
    BY <1>1, <1>2 DEF Regs, N!Soltar, Formas, N!SinRegistro
  <2> QED
    BY <1>2, <2>1 DEF Regs, N!SinRegistro
<1>5. nReg' \in [Descuentos -> Regs] /\ nReg'[d] = r /\ \A e \in Descuentos : e # d => nReg'[e] = nReg[e]
  BY <1>2, <1>4, PoneReg
<1>6. PICK s \in Sitios :
        /\ N!Va(a, s)
        /\ s = IF a \in Descuentos THEN "fin" ELSE "libre"
  BY <1>2 DEF N!Soltar, N!TrasCaja, N!Lanza, Sitios, N!Pasos
<1>7. nPc' \in [N!Actores -> Sitios] /\ nPc'[a] = s /\ \A b \in N!Actores : b # a => nPc'[b] = nPc[b]
  BY <1>2, <1>6, VaHace
<1>8. Solo(a)
  BY <1>1, <1>7 DEF Solo
<1>12. SoloDe(d)
  BY <1>1, <1>2, <1>3, <1>5 DEF SoloDe, Formas
<1>13. Formas'
  BY <1>1, <1>2, <1>7, <1>5 DEF Formas, Sitios, Regs
<1>14. Carga(a)'
  BY <1>1, <1>2, <1>3, <1>6, <1>7, <1>16, <1>4, <1>5 DEF Carga
<1>15. Consta(d)'
  BY <1>1, <1>2, <1>3, <1>6, <1>7, <1>16, <1>4, <1>5 DEF Consta, Carga
<1>17. /\ nPc'[a] \in N!Pasos => nReg'[d].turno = a /\ nReg'[d].estado \notin {"no", "retirada"}
       /\ nPc'[a] = "libre" => a \notin Descuentos
       /\ nReg'[d].estado # "no"
  BY <1>1, <1>2, <1>6, <1>7, <1>4, <1>5 DEF N!Pasos
<1> QED
  BY <1>1, <1>2, <1>3, <1>8, <1>12, <1>13, <1>14, <1>15, <1>17, PasoPropio

\* The note exists, or nothing was given.
LEMMA NotaGuarda ==
    ASSUME N!Supuestos, IInv, NEW a \in N!Trabajan, NEW d, nObj[a] = d, N!Nota(a)
    PROVE  IInv'
<1>1. nPc[a] = "nota" /\ nPc[a] \in N!Pasos /\ nObj' = nObj /\ UNCHANGED <<cxc, nReg, salida, aFavor, libro, nObj, leido, nCortes>>
  BY DEF N!Nota, N!Pasos
<1>2. /\ a \in N!Actores /\ d \in Descuentos /\ Carga(a) /\ Consta(d) /\ Formas /\ nReg[d] \in Regs
      /\ leido[a] \in Copias /\ leido[a].abono \in Nat /\ nMonto[d] \in Nat /\ N!Ajustado(d) \in Nat
      /\ nReg[d].turno = a /\ nReg[d].estado \notin {"no", "retirada"}
      /\ (a \in Descuentos => d = a) /\ nReg[d].abono \in Nat
      /\ salida[d] \in Nat /\ aFavor[d] \in Nat /\ libro[d] \in Nat \cup {-1}
  BY <1>1, Antes
<1>16. nPc[a] # "marcaCaja" => salida[d] = 0 \/ nReg[d].caja
  BY <1>2 DEF Consta, EnMarca
<1>3. Rebajadas' /\ \A e : N!Ajustado(e)' = N!Ajustado(e) /\ EnCaja(e)' = EnCaja(e) /\ AlFavor(e)' = AlFavor(e)
  BY <1>1, Antes, NadaDeCartera
<1>6. PICK s \in Sitios :
        /\ N!Va(a, s)
        /\ \/ s = "guardar" /\ notas' = notas \cup {d}
           \/ /\ d \notin notas /\ notas' = notas
              /\ s = IF a \in Descuentos /\ leido[a].abono > 0 THEN "revertir"
                     ELSE IF a \in Descuentos THEN "borrar" ELSE "libre"
  BY <1>2 DEF N!Nota, N!TrasCaja, N!Lanza, Sitios, N!Pasos
<1>7. nPc' \in [N!Actores -> Sitios] /\ nPc'[a] = s /\ \A b \in N!Actores : b # a => nPc'[b] = nPc[b]
  BY <1>2, <1>6, VaHace
<1>8. Solo(a)
  BY <1>1, <1>7 DEF Solo
<1>9. nFallas' \in 0..nMaxFallas
  <2>1. N!Bien \/ N!Falla("nota")
    BY DEF N!Nota
  <2> QED
    BY <1>2, <2>1, FallaTipo
<1>10. /\ \A e \in Descuentos : e # d => (e \in notas' <=> e \in notas)
       /\ notas' \subseteq Descuentos /\ (d \in notas => d \in notas') /\ (s = "guardar" => d \in notas')
       /\ (s # "guardar" => notas' = notas)
  BY <1>2, <1>6 DEF Formas
<1>12. SoloDe(d)
  BY <1>1, <1>2, <1>3, <1>10 DEF SoloDe, Formas
<1>13. Formas'
  BY <1>1, <1>2, <1>7, <1>9, <1>10 DEF Formas, Sitios, Regs
<1>14. Carga(a)'
  BY <1>1, <1>2, <1>3, <1>6, <1>7, <1>16, <1>10 DEF Carga
<1>15. Consta(d)'
  BY <1>1, <1>2, <1>3, <1>6, <1>7, <1>16, <1>10 DEF Consta, Carga
<1>17. /\ nPc'[a] \in N!Pasos => nReg'[d].turno = a /\ nReg'[d].estado \notin {"no", "retirada"}
       /\ nPc'[a] = "libre" => a \notin Descuentos
       /\ nReg'[d].estado # "no"
  BY <1>1, <1>2, <1>6, <1>7 DEF N!Pasos
<1> QED
  BY <1>1, <1>2, <1>3, <1>8, <1>12, <1>13, <1>14, <1>15, <1>17, PasoPropio

\* The cash leaves once, and it is what was not lowered.
LEMMA CajaGuarda ==
    ASSUME N!Supuestos, IInv, NEW a \in N!Trabajan, NEW d, nObj[a] = d, N!Caja(a)
    PROVE  IInv'
<1>1. nPc[a] = "caja" /\ nPc[a] \in N!Pasos /\ nObj' = nObj /\ UNCHANGED <<cxc, nReg, notas, aFavor, libro, nObj, leido, nCortes>>
  BY DEF N!Caja, N!Pasos
<1>2. /\ a \in N!Actores /\ d \in Descuentos /\ Carga(a) /\ Consta(d) /\ Formas /\ nReg[d] \in Regs
      /\ leido[a] \in Copias /\ leido[a].abono \in Nat /\ nMonto[d] \in Nat /\ N!Ajustado(d) \in Nat
      /\ nReg[d].turno = a /\ nReg[d].estado \notin {"no", "retirada"}
      /\ (a \in Descuentos => d = a) /\ nReg[d].abono \in Nat
      /\ salida[d] \in Nat /\ aFavor[d] \in Nat /\ libro[d] \in Nat \cup {-1}
  BY <1>1, Antes
<1>16. nPc[a] # "marcaCaja" => salida[d] = 0 \/ nReg[d].caja
  BY <1>2 DEF Consta, EnMarca
<1>3. Rebajadas' /\ \A e : N!Ajustado(e)' = N!Ajustado(e) /\ EnCaja(e)' = EnCaja(e) /\ AlFavor(e)' = AlFavor(e)
  BY <1>1, Antes, NadaDeCartera
<1>6. PICK s \in Sitios :
        /\ N!Va(a, s)
        /\ \/ /\ s = "marcaCaja" /\ salida' = salida
              /\ ~(nMedio[d] = "cash" /\ N!EnPlata(d) > 0)
           \/ /\ s = "marcaCaja" /\ nMedio[d] = "cash" /\ N!EnPlata(d) > 0
              /\ salida' = [salida EXCEPT ![d] = @ + N!EnPlata(d)]
           \/ /\ s = IF nReg[d].asiento THEN "cerrar" ELSE "favor"
              /\ salida' = salida
  BY <1>2 DEF N!Caja, N!TrasCaja, N!Lanza, Sitios, N!Pasos
<1>7. nPc' \in [N!Actores -> Sitios] /\ nPc'[a] = s /\ \A b \in N!Actores : b # a => nPc'[b] = nPc[b]
  BY <1>2, <1>6, VaHace
<1>8. Solo(a)
  BY <1>1, <1>7 DEF Solo
<1>9. nFallas' \in 0..nMaxFallas
  <2>1. N!Bien \/ N!Falla("caja")
    BY DEF N!Caja
  <2> QED
    BY <1>2, <2>1, FallaTipo
<1>11. /\ N!EnPlata(d) \in Nat /\ (nReg[d].cartera => N!EnPlata(d) = nMonto[d] - N!Ajustado(d))
       /\ salida[d] = 0 /\ nReg[d].cartera
  <2>1. nMonto[d] - nReg[d].abono \in Nat /\ nReg[d].cartera /\ nReg[d].abono = N!Ajustado(d) /\ salida[d] = 0
    BY <1>1, <1>2 DEF Consta, Carga
  <2>2. N!EnPlata(d) = nMonto[d] - nReg[d].abono
    <3> DEFINE x == nMonto[d] - nReg[d].abono
    <3>1. x \in Nat
      BY <2>1
    <3> HIDE DEF x
    <3>2. N!Max({0, x}) \in {0, x} /\ N!Max({0, x}) >= x
      BY <3>1, MaxDeDos
    <3>3. N!Max({0, x}) = x
      BY <3>1, <3>2
    <3> QED
      BY <3>3 DEF x, N!EnPlata
  <2> QED
    BY <2>1, <2>2
<1>10. /\ \A e \in Descuentos : e # d => salida'[e] = salida[e]
       /\ salida' \in [Descuentos -> Nat] /\ (s # "marcaCaja" => salida'[d] = 0)
       /\ (s = "marcaCaja" => salida'[d] = EnCaja(d))
  <2>1. EnCaja(d) = IF nMedio[d] = "cash" THEN N!EnPlata(d) ELSE 0
    BY <1>11 DEF EnCaja
  <2>2. salida \in [Descuentos -> Nat]
    BY <1>2 DEF Formas
  <2>3. CASE salida' = salida
    BY <1>2, <1>6, <1>11, <2>1, <2>2, <2>3
  <2>4. CASE salida' = [salida EXCEPT ![d] = @ + N!EnPlata(d)]
    BY <1>2, <1>6, <1>11, <2>1, <2>2, <2>4
  <2> QED
    BY <1>6, <2>3, <2>4
<1>12. SoloDe(d)
  BY <1>1, <1>2, <1>3, <1>10 DEF SoloDe, Formas
<1>13. Formas'
  BY <1>1, <1>2, <1>7, <1>9, <1>10 DEF Formas, Sitios, Regs
<1>14. Carga(a)'
  BY <1>1, <1>2, <1>3, <1>6, <1>7, <1>16, <1>10 DEF Carga
<1>15. Consta(d)'
  BY <1>1, <1>2, <1>3, <1>6, <1>7, <1>16, <1>10 DEF Consta, Carga, EnMarca
<1>17. /\ nPc'[a] \in N!Pasos => nReg'[d].turno = a /\ nReg'[d].estado \notin {"no", "retirada"}
       /\ nPc'[a] = "libre" => a \notin Descuentos
       /\ nReg'[d].estado # "no"
  BY <1>1, <1>2, <1>6, <1>7 DEF N!Pasos
<1> QED
  BY <1>1, <1>2, <1>3, <1>8, <1>12, <1>13, <1>14, <1>15, <1>17, PasoPropio

\* The balance takes once what was not lowered.
LEMMA FavorGuarda ==
    ASSUME N!Supuestos, IInv, NEW a \in N!Trabajan, NEW d, nObj[a] = d, N!Favor(a)
    PROVE  IInv'
<1>1. nPc[a] = "favor" /\ nPc[a] \in N!Pasos /\ nObj' = nObj /\ UNCHANGED <<cxc, nReg, notas, salida, libro, nObj, leido, nCortes>>
  BY DEF N!Favor, N!Pasos
<1>2. /\ a \in N!Actores /\ d \in Descuentos /\ Carga(a) /\ Consta(d) /\ Formas /\ nReg[d] \in Regs
      /\ leido[a] \in Copias /\ leido[a].abono \in Nat /\ nMonto[d] \in Nat /\ N!Ajustado(d) \in Nat
      /\ nReg[d].turno = a /\ nReg[d].estado \notin {"no", "retirada"}
      /\ (a \in Descuentos => d = a) /\ nReg[d].abono \in Nat
      /\ salida[d] \in Nat /\ aFavor[d] \in Nat /\ libro[d] \in Nat \cup {-1}
  BY <1>1, Antes
<1>16. nPc[a] # "marcaCaja" => salida[d] = 0 \/ nReg[d].caja
  BY <1>2 DEF Consta, EnMarca
<1>3. Rebajadas' /\ \A e : N!Ajustado(e)' = N!Ajustado(e) /\ EnCaja(e)' = EnCaja(e) /\ AlFavor(e)' = AlFavor(e)
  BY <1>1, Antes, NadaDeCartera
<1>6. PICK s \in Sitios :
        /\ N!Va(a, s)
        /\ \/ s = "libro" /\ aFavor' = aFavor /\ nMedio[d] # "credit_note"
           \/ /\ s = "libro" /\ nMedio[d] = "credit_note"
              /\ aFavor' = [aFavor EXCEPT ![d] = IF @ = 0 THEN N!EnPlata(d) ELSE @]
           \/ s = "soltar" /\ aFavor' = aFavor
  <2>1. {"libro", "soltar"} \subseteq Sitios
    BY DEF Sitios, N!Pasos
  <2>2. CASE nMedio[d] # "credit_note" /\ N!Va(a, "libro") /\ aFavor' = aFavor
    BY <2>1, <2>2
  <2>3. CASE /\ nMedio[d] = "credit_note" /\ N!Va(a, "libro")
             /\ aFavor' = [aFavor EXCEPT ![d] = IF @ = 0 THEN N!EnPlata(d) ELSE @]
    BY <2>1, <2>3
  <2>4. CASE N!Va(a, "soltar") /\ aFavor' = aFavor
    BY <2>1, <2>4
  <2> QED
    BY <2>2, <2>3, <2>4 DEF N!Favor
<1>7. nPc' \in [N!Actores -> Sitios] /\ nPc'[a] = s /\ \A b \in N!Actores : b # a => nPc'[b] = nPc[b]
  BY <1>2, <1>6, VaHace
<1>8. Solo(a)
  BY <1>1, <1>7 DEF Solo
<1>9. nFallas' \in 0..nMaxFallas
  <2>1. N!Bien \/ N!Falla("favor")
    BY DEF N!Favor
  <2> QED
    BY <1>2, <2>1, FallaTipo
<1>11. /\ N!EnPlata(d) \in Nat /\ N!EnPlata(d) = nMonto[d] - N!Ajustado(d)
       /\ aFavor[d] \in {0, AlFavor(d)}
  <2>1. nMonto[d] - nReg[d].abono \in Nat /\ nReg[d].abono = N!Ajustado(d) /\ aFavor[d] \in {0, AlFavor(d)}
    BY <1>1, <1>2 DEF Consta, Carga
  <2>2. N!EnPlata(d) = nMonto[d] - nReg[d].abono
    <3> DEFINE x == nMonto[d] - nReg[d].abono
    <3>1. x \in Nat
      BY <2>1
    <3> HIDE DEF x
    <3>2. N!Max({0, x}) \in {0, x} /\ N!Max({0, x}) >= x
      BY <3>1, MaxDeDos
    <3>3. N!Max({0, x}) = x
      BY <3>1, <3>2
    <3> QED
      BY <3>3 DEF x, N!EnPlata
  <2> QED
    BY <2>1, <2>2
<1>10. /\ \A e \in Descuentos : e # d => aFavor'[e] = aFavor[e]
       /\ aFavor' \in [Descuentos -> Nat] /\ aFavor'[d] \in {0, AlFavor(d)}
       /\ (aFavor[d] = AlFavor(d) => aFavor'[d] = AlFavor(d))
       /\ (s = "libro" => aFavor'[d] = AlFavor(d))
  <2>1. AlFavor(d) = IF nMedio[d] = "credit_note" THEN N!EnPlata(d) ELSE 0
    BY <1>11 DEF AlFavor
  <2>2. aFavor \in [Descuentos -> Nat]
    BY <1>2 DEF Formas
  <2>3. CASE aFavor' = aFavor
    BY <1>2, <1>6, <1>11, <2>1, <2>2, <2>3
  <2>4. CASE s = "libro" /\ nMedio[d] = "credit_note"
             /\ aFavor' = [aFavor EXCEPT ![d] = IF @ = 0 THEN N!EnPlata(d) ELSE @]
    BY <1>2, <1>11, <2>1, <2>2, <2>4
  <2> QED
    BY <1>6, <2>3, <2>4
<1>12. SoloDe(d)
  BY <1>1, <1>2, <1>3, <1>10 DEF SoloDe, Formas
<1>13. Formas'
  BY <1>1, <1>2, <1>7, <1>9, <1>10 DEF Formas, Sitios, Regs
<1>14. Carga(a)'
  BY <1>1, <1>2, <1>3, <1>6, <1>7, <1>16, <1>10 DEF Carga
<1>15. Consta(d)'
  BY <1>1, <1>2, <1>3, <1>6, <1>7, <1>16, <1>10 DEF Consta, Carga
<1>17. /\ nPc'[a] \in N!Pasos => nReg'[d].turno = a /\ nReg'[d].estado \notin {"no", "retirada"}
       /\ nPc'[a] = "libre" => a \notin Descuentos
       /\ nReg'[d].estado # "no"
  BY <1>1, <1>2, <1>6, <1>7 DEF N!Pasos
<1> QED
  BY <1>1, <1>2, <1>3, <1>8, <1>12, <1>13, <1>14, <1>15, <1>17, PasoPropio

\* The entry is posted once, with what the record says.
LEMMA LibroGuarda ==
    ASSUME N!Supuestos, IInv, NEW a \in N!Trabajan, NEW d, nObj[a] = d, N!Libro(a)
    PROVE  IInv'
<1>1. nPc[a] = "libro" /\ nPc[a] \in N!Pasos /\ nObj' = nObj /\ UNCHANGED <<cxc, nReg, notas, salida, aFavor, nObj, leido, nFallas, nCortes>>
  BY DEF N!Libro, N!Pasos
<1>2. /\ a \in N!Actores /\ d \in Descuentos /\ Carga(a) /\ Consta(d) /\ Formas /\ nReg[d] \in Regs
      /\ leido[a] \in Copias /\ leido[a].abono \in Nat /\ nMonto[d] \in Nat /\ N!Ajustado(d) \in Nat
      /\ nReg[d].turno = a /\ nReg[d].estado \notin {"no", "retirada"}
      /\ (a \in Descuentos => d = a) /\ nReg[d].abono \in Nat
      /\ salida[d] \in Nat /\ aFavor[d] \in Nat /\ libro[d] \in Nat \cup {-1}
  BY <1>1, Antes
<1>16. nPc[a] # "marcaCaja" => salida[d] = 0 \/ nReg[d].caja
  BY <1>2 DEF Consta, EnMarca
<1>3. Rebajadas' /\ \A e : N!Ajustado(e)' = N!Ajustado(e) /\ EnCaja(e)' = EnCaja(e) /\ AlFavor(e)' = AlFavor(e)
  BY <1>1, Antes, NadaDeCartera
<1>6. PICK s \in Sitios :
        /\ N!Va(a, s)
        /\ s = "marcaLibro" /\ libro' = [libro EXCEPT ![d] = IF @ = -1 THEN nReg[d].abono ELSE @]
  BY <1>2 DEF N!Libro, N!TrasCaja, N!Lanza, Sitios, N!Pasos
<1>7. nPc' \in [N!Actores -> Sitios] /\ nPc'[a] = s /\ \A b \in N!Actores : b # a => nPc'[b] = nPc[b]
  BY <1>2, <1>6, VaHace
<1>8. Solo(a)
  BY <1>1, <1>7 DEF Solo
<1>10. /\ \A e \in Descuentos : e # d => libro'[e] = libro[e]
       /\ libro' \in [Descuentos -> Nat \cup {-1}]
       /\ libro'[d] = IF libro[d] = -1 THEN nReg[d].abono ELSE libro[d]
  BY <1>2, <1>6 DEF Formas
<1>12. SoloDe(d)
  BY <1>1, <1>2, <1>3, <1>10 DEF SoloDe, Formas
<1>13. Formas'
  BY <1>1, <1>2, <1>7, <1>10 DEF Formas, Sitios, Regs
<1>14. Carga(a)'
  BY <1>1, <1>2, <1>3, <1>6, <1>7, <1>16, <1>10 DEF Carga
<1>15. Consta(d)'
  BY <1>1, <1>2, <1>3, <1>6, <1>7, <1>16, <1>10 DEF Consta, Carga
<1>17. /\ nPc'[a] \in N!Pasos => nReg'[d].turno = a /\ nReg'[d].estado \notin {"no", "retirada"}
       /\ nPc'[a] = "libre" => a \notin Descuentos
       /\ nReg'[d].estado # "no"
  BY <1>1, <1>2, <1>6, <1>7 DEF N!Pasos
<1> QED
  BY <1>1, <1>2, <1>3, <1>8, <1>12, <1>13, <1>14, <1>15, <1>17, PasoPropio

\* What such a step writes: the receivable, the copy, and what each says.
Pone(i, c) == cxc' = [cxc EXCEPT ![i] = c]
Recuerda(a, l) == leido' = [leido EXCEPT ![a] = l]
Queda(c, i, d, v) ==
    /\ c.ajustes = [cxc[i].ajustes EXCEPT ![d] = v]
    /\ c.monto = cxc[i].monto - (v - cxc[i].ajustes[d])
    /\ N!Ajustado(d) - cxc[i].ajustes[d] + v <= nMonto[d]
Lleva(l, s, i, d, v) ==
    \/ s = "abonar" /\ l.abono = N!Ajustado(d) - cxc[i].ajustes[d] + v
    \/ s = "revertir2" /\ l.i \in N!Numeros

\* A step that lowers one receivable, or gives back what it went down.
LEMMA CambiaUna ==
    ASSUME N!Supuestos, IInv, NEW a \in N!Trabajan, NEW d, nObj[a] = d, nPc[a] \in {"abonar", "revertir"},
           NEW i \in N!Numeros, NEW c \in CxCs, NEW v \in Nat, NEW l \in Copias, NEW s \in N!Pasos,
           Pone(i, c), Recuerda(a, l), N!Va(a, s), Queda(c, i, d, v), Lleva(l, s, i, d, v),
           UNCHANGED <<nReg, notas, salida, aFavor, libro, nObj, nFallas, nCortes>>
    PROVE  IInv'
<1>1. nPc[a] \in N!Pasos /\ nObj' = nObj /\ s \in Sitios
  BY DEF N!Pasos, Sitios
<1>2. /\ a \in N!Actores /\ d \in Descuentos /\ Carga(a) /\ Consta(d) /\ Formas /\ Rebajadas
      /\ leido[a] \in Copias /\ leido[a].abono \in Nat /\ nMonto[d] \in Nat /\ N!Ajustado(d) \in Nat
      /\ nReg[d].turno = a /\ nReg[d].estado \notin {"no", "retirada"}
      /\ (a \in Descuentos => d = a)
  BY <1>1, Antes
<1>3. nPc' \in [N!Actores -> Sitios] /\ nPc'[a] = s /\ \A b \in N!Actores : b # a => nPc'[b] = nPc[b]
  BY <1>1, <1>2, VaHace
<1>4. leido' \in [N!Trabajan -> Copias] /\ leido'[a] = l /\ \A b \in N!Trabajan : b # a => leido'[b] = leido[b]
  BY <1>2, PoneMem DEF Recuerda
<1>5. cxc' \in [N!Numeros -> CxCs] /\ cxc'[i] = c /\ \A j \in N!Numeros : j # i => cxc'[j] = cxc[j]
  BY <1>2, PoneCxc DEF Pone
<1>6. Formas'
  BY <1>1, <1>2, <1>3, <1>4, <1>5 DEF Formas, Sitios, CxCs
<1>7. /\ N!Ajustado(d)' = N!Ajustado(d) - cxc[i].ajustes[d] + v
      /\ \A e \in Descuentos : e # d => N!Ajustado(e)' = N!Ajustado(e)
      /\ Rebajadas'
  <2>1. cxc'[i].ajustes = [cxc[i].ajustes EXCEPT ![d] = v]
        /\ cxc'[i].monto = cxc[i].monto - (v - cxc[i].ajustes[d])
    BY <1>5 DEF Queda
  <2> QED
    BY <1>2, <1>5, <1>6, <2>1, AjusteCambia
<1>8. Solo(a) /\ SoloDe(d)
  BY <1>1, <1>3, <1>4, <1>7 DEF Solo, SoloDe
<1>9. ~nReg[d].cartera /\ (a \in Descuentos => d \notin notas)
  BY <1>2 DEF Carga
<1>10. Carga(a)'
  BY <1>1, <1>2, <1>3, <1>4, <1>7, <1>9 DEF Carga, Lleva
<1>11. N!Ajustado(d)' \in Nat /\ N!Ajustado(d)' <= nMonto[d]
  BY <1>2, <1>6, <1>7, AjustadoDespues DEF Queda
<1>12. Consta(d)'
  BY <1>1, <1>2, <1>9, <1>11 DEF Consta
<1>13. /\ nPc'[a] \in N!Pasos => nReg'[d].turno = a /\ nReg'[d].estado \notin {"no", "retirada"}
       /\ nPc'[a] = "libre" => a \notin Descuentos
       /\ nReg'[d].estado # "no"
  BY <1>2, <1>3 DEF N!Pasos
<1> QED
  BY <1>1, <1>6, <1>7, <1>8, <1>10, <1>12, <1>13, PasoPropio

\* A step that only goes on: what it carries is what the receivables went down.
LEMMA SoloSigue ==
    ASSUME N!Supuestos, IInv, NEW a \in N!Trabajan, NEW d, nObj[a] = d,
           nPc[a] \in {"abonar", "revertir"} \/ (nPc[a] \in N!Pasos /\ nPc[a] # "marcaCaja" /\ nPc'[a] \notin N!Pasos),
           NEW s \in Sitios, N!Va(a, s), nFallas' \in 0..nMaxFallas, nCortes' \in 0..nMaxCortes,
           UNCHANGED <<cxc, nReg, notas, salida, aFavor, libro, nObj, leido>>,
           \/ s \notin N!Pasos /\ (s = "libre" => a \notin Descuentos)
           \/ s = "libre" /\ a \notin Descuentos
           \/ s = "revertir"
           \/ s = "borrar" /\ a \in Descuentos /\ N!Ajustado(d) = 0
           \/ s = "nota" /\ a \in Descuentos /\ leido[a].abono = N!Ajustado(d)
           \/ s = "guardarCartera" /\ a \notin Descuentos /\ leido[a].abono = N!Ajustado(d)
    PROVE  IInv'
<1>1. nPc[a] \in N!Pasos /\ nPc[a] # "marcaCaja" /\ nObj' = nObj
  BY DEF N!Pasos
<1>2. /\ a \in N!Actores /\ d \in Descuentos /\ Carga(a) /\ Consta(d) /\ Formas /\ Rebajadas
      /\ leido[a] \in Copias /\ leido[a].abono \in Nat /\ nMonto[d] \in Nat /\ N!Ajustado(d) \in Nat
      /\ nReg[d].turno = a /\ nReg[d].estado \notin {"no", "retirada"}
      /\ (a \in Descuentos => d = a)
  BY <1>1, Antes
<1>3. nPc' \in [N!Actores -> Sitios] /\ nPc'[a] = s /\ \A b \in N!Actores : b # a => nPc'[b] = nPc[b]
  BY <1>2, VaHace
<1>4. SoloDe(d) /\ Rebajadas' /\ N!Ajustado(d)' = N!Ajustado(d) /\ Consta(d)'
  BY <1>1, <1>2, NadaDe, ConstaQuieta
<1>5. Solo(a)
  BY <1>1, <1>3 DEF Solo
<1>6. Formas'
  BY <1>1, <1>2, <1>3 DEF Formas, Sitios
<1>7. Carga(a)'
  <2>1. CASE nPc'[a] \notin N!Pasos
    BY <2>1, CargaOciosa
  <2>2. CASE nPc'[a] \in N!Pasos
    <3>1. ~nReg[d].cartera /\ (a \in Descuentos => d \notin notas)
      BY <1>2, <2>2 DEF Carga
    <3> QED
      BY <1>1, <1>2, <1>3, <1>4, <2>2, <3>1 DEF Carga, N!Pasos
  <2> QED
    BY <2>1, <2>2
<1>8. /\ nPc'[a] \in N!Pasos => nReg'[d].turno = a /\ nReg'[d].estado \notin {"no", "retirada"}
      /\ nPc'[a] = "libre" => a \notin Descuentos
      /\ nReg'[d].estado # "no"
  BY <1>2, <1>3 DEF N!Pasos
<1> QED
  BY <1>1, <1>4, <1>5, <1>6, <1>7, <1>8, PasoPropio

\* It lowers the next receivable if it is as it was read, and by no more than is left.
LEMMA AbonarGuarda ==
    ASSUME N!Supuestos, IInv, NEW a \in N!Trabajan, NEW d, nObj[a] = d, N!Abonar(a)
    PROVE  IInv'
<1>1. nPc[a] = "abonar" /\ nPc[a] \in N!Pasos
      /\ UNCHANGED <<nReg, notas, salida, aFavor, libro, nObj, nFallas, nCortes>>
  BY DEF N!Abonar, N!Pasos
<1>2. /\ a \in N!Actores /\ d \in Descuentos /\ Carga(a) /\ Consta(d) /\ Formas /\ Rebajadas
      /\ leido[a] \in Copias /\ leido[a].abono \in Nat /\ nMonto[d] \in Nat /\ N!Ajustado(d) \in Nat
      /\ nReg[d].turno = a /\ nReg[d].estado \notin {"no", "retirada"}
      /\ (a \in Descuentos => d = a)
  BY <1>1, Antes
<1>3. leido[a].abono = N!Ajustado(d) /\ N!Ajustado(d) <= nMonto[d] /\ (a \in Descuentos => d \notin notas)
      /\ nFallas \in 0..nMaxFallas /\ nCortes \in 0..nMaxCortes
  BY <1>1, <1>2 DEF Carga, Consta, Formas
<1>4. {"libre", "nota", "guardarCartera", "borrar", "revertir"} \subseteq Sitios
  BY DEF Sitios, N!Pasos
<1>5. CASE N!TrasCartera(a) /\ UNCHANGED <<cxc, leido>>
  <2>1. PICK s \in Sitios : N!Va(a, s) /\ s = IF a \in Descuentos THEN "nota" ELSE "guardarCartera"
    BY <1>4, <1>5 DEF N!TrasCartera
  <2> QED
    BY <1>1, <1>3, <1>5, <2>1, SoloSigue
<1>6. ASSUME NEW i \in N!Sigue(a), nMonto[d] - leido[a].abono > 0,
             NEW v, v = N!Min({nMonto[d] - leido[a].abono, leido[a].cuentas[i].monto - leido[a].cuentas[i].pagado}),
             cxc[i].monto = leido[a].cuentas[i].monto, cxc[i].pagado = leido[a].cuentas[i].pagado,
             NEW nueva, nueva = [cxc[i] EXCEPT !.monto = @ - v, !.ajustes[d] = @ + v],
             cxc' = [cxc EXCEPT ![i] = [nueva EXCEPT !.estado = N!EstadoSegun(nueva)]],
             leido' = [leido EXCEPT ![a].i = i + 1, ![a].abono = @ + v], UNCHANGED nPc
      PROVE  IInv'
  <2> DEFINE falta == nMonto[d] - leido[a].abono
  <2>1. i \in N!Numeros /\ i \in Nat /\ cxc[i] \in CxCs /\ cxc[i].monto > cxc[i].pagado
        /\ cxc[i].monto \in Nat /\ cxc[i].pagado \in Nat /\ cxc[i].ajustes[d] \in Nat
    BY <1>2, <1>6, Finitos DEF N!Sigue, Formas, CxCs
  <2>2. falta \in Nat /\ falta > 0
    BY <1>2, <1>3, <1>6
  <2>3. v \in Nat /\ v <= falta /\ cxc[i].monto - v \in Nat /\ cxc[i].ajustes[d] + v \in Nat
    <3> DEFINE y == leido[a].cuentas[i].monto - leido[a].cuentas[i].pagado
    <3>1. y \in Int /\ y = cxc[i].monto - cxc[i].pagado /\ y > 0
      BY <1>6, <2>1
    <3>2. v = N!Min({falta, y})
      BY <1>6
    <3> HIDE DEF falta, y
    <3>4. falta \in Int
      BY <2>2
    <3>5. N!Min({falta, y}) \in {falta, y} /\ N!Min({falta, y}) <= falta /\ N!Min({falta, y}) <= y
      BY <3>1, <3>4, MinDeDos
    <3>3. v \in {falta, y} /\ v <= falta /\ v <= y
      BY <3>2, <3>5
    <3> QED
      BY <2>1, <2>2, <3>1, <3>3
  <2> DEFINE c == [nueva EXCEPT !.estado = N!EstadoSegun(nueva)]
             l == [leido[a] EXCEPT !.i = i + 1, !.abono = @ + v]
             w == cxc[i].ajustes[d] + v
  <2>4. /\ c \in CxCs /\ c.ajustes = [cxc[i].ajustes EXCEPT ![d] = w]
        /\ c.monto = cxc[i].monto - (w - cxc[i].ajustes[d])
    <3>1. N!EstadoSegun(nueva) \in {"open", "partial", "paid"}
      BY EstadoTipo
    <3>2. nueva = [cxc[i] EXCEPT !.monto = cxc[i].monto - v,
                                 !.ajustes = [cxc[i].ajustes EXCEPT ![d] = w]]
      BY <1>6, <2>1 DEF CxCs
    <3>3. [cxc[i].ajustes EXCEPT ![d] = w] \in [Descuentos -> Nat]
      BY <1>2, <2>1, <2>3 DEF CxCs
    <3>4. nueva \in CxCs /\ nueva.ajustes = [cxc[i].ajustes EXCEPT ![d] = w] /\ nueva.monto = cxc[i].monto - v
      <4> DEFINE A == [cxc[i].ajustes EXCEPT ![d] = w]
      <4> HIDE DEF A
      <4> QED
        BY <2>1, <2>3, <3>2, <3>3 DEF CxCs, A
    <3>5. c \in CxCs /\ c.ajustes = nueva.ajustes /\ c.monto = nueva.monto
      BY <3>1, <3>4 DEF CxCs
    <3>6. cxc[i].monto - v = cxc[i].monto - (w - cxc[i].ajustes[d])
      BY <2>1, <2>3
    <3> QED
      BY <3>4, <3>5, <3>6
  <2>5. l \in Copias /\ l.abono = leido[a].abono + v /\ leido' = [leido EXCEPT ![a] = l]
    <3> DEFINE h == leido[a].abono + v
               k == i + 1
    <3>4. h \in Nat /\ k \in Nat
      BY <1>2, <2>1, <2>3
    <3>5. l = [leido[a] EXCEPT !.i = k, !.abono = h]
      BY <1>2 DEF Copias
    <3>1. l \in Copias /\ l.abono = leido[a].abono + v
      <4> HIDE DEF h, k, l
      <4>1. l \in Copias /\ l.abono = h
        BY <1>2, <3>4, <3>5 DEF Copias
      <4> QED
        BY <4>1 DEF h
    <3>2. leido' = [leido EXCEPT ![a].i = i + 1, ![a].abono = @ + v] /\ leido \in [N!Trabajan -> Copias]
      BY <1>2, <1>6 DEF Formas
    <3>3. leido' = [leido EXCEPT ![a] = l]
      BY <3>2
    <3> QED
      BY <3>1, <3>3
  <2>6. cxc' = [cxc EXCEPT ![i] = c]
    BY <1>6
  <2>7. N!Va(a, "abonar") /\ "abonar" \in N!Pasos
    BY <1>1, <1>2, <1>6 DEF N!Va, Formas, N!Pasos
  <2>8. w \in Nat /\ N!Ajustado(d) - cxc[i].ajustes[d] + w <= nMonto[d]
        /\ l.abono = N!Ajustado(d) - cxc[i].ajustes[d] + w
    BY <1>2, <1>3, <2>1, <2>3, <2>5
  <2>9. nPc[a] \in {"abonar", "revertir"} /\ UNCHANGED <<nReg, notas, salida, aFavor, libro, nObj, nFallas, nCortes>>
        /\ (a \in Descuentos => d \notin notas)
    BY <1>1, <1>3
  <2> HIDE DEF c, l, w, falta
  <2>10. Pone(i, c) /\ Recuerda(a, l) /\ Queda(c, i, d, w) /\ Lleva(l, "abonar", i, d, w)
    BY <2>4, <2>5, <2>6, <2>8 DEF Pone, Recuerda, Queda, Lleva
  <2> QED
    BY <2>1, <2>4, <2>5, <2>7, <2>8, <2>9, <2>10, CambiaUna
<1>7. CASE (IF leido[a].abono > 0 THEN N!Va(a, "revertir") ELSE N!Lanza(a)) /\ UNCHANGED <<cxc, leido>>
  <2>1. CASE leido[a].abono > 0
    <3>1. "revertir" \in Sitios /\ N!Va(a, "revertir")
      BY <1>7, <2>1 DEF Sitios, N!Pasos
    <3> QED
      BY <1>1, <1>3, <1>7, <3>1, SoloSigue
  <2>2. CASE ~(leido[a].abono > 0)
    <3>1. PICK s \in Sitios : N!Va(a, s) /\ s = IF a \in Descuentos THEN "borrar" ELSE "libre"
      BY <1>7, <2>2 DEF N!Lanza, Sitios, N!Pasos
    <3>2. N!Ajustado(d) = 0
      BY <1>2, <1>3, <2>2
    <3> QED
      BY <1>1, <1>3, <1>7, <3>1, <3>2, SoloSigue
  <2> QED
    BY <2>1, <2>2
<1>8. \/ N!TrasCartera(a) /\ UNCHANGED <<cxc, leido>>
      \/ (IF leido[a].abono > 0 THEN N!Va(a, "revertir") ELSE N!Lanza(a)) /\ UNCHANGED <<cxc, leido>>
      \/ \E i \in N!Sigue(a) :
           LET c == leido[a].cuentas[i]
               v == N!Min({nMonto[d] - leido[a].abono, c.monto - c.pagado})
               nueva == [cxc[i] EXCEPT !.monto = @ - v, !.ajustes[d] = @ + v]
           IN  /\ nMonto[d] - leido[a].abono > 0
               /\ cxc[i].monto = c.monto /\ cxc[i].pagado = c.pagado
               /\ cxc' = [cxc EXCEPT ![i] = [nueva EXCEPT !.estado = N!EstadoSegun(nueva)]]
               /\ leido' = [leido EXCEPT ![a].i = i + 1, ![a].abono = @ + v] /\ UNCHANGED nPc
  BY DEF N!Abonar
<1>9. ASSUME NEW i \in N!Sigue(a),
             LET c == leido[a].cuentas[i]
                 v == N!Min({nMonto[d] - leido[a].abono, c.monto - c.pagado})
                 nueva == [cxc[i] EXCEPT !.monto = @ - v, !.ajustes[d] = @ + v]
             IN  /\ nMonto[d] - leido[a].abono > 0
                 /\ cxc[i].monto = c.monto /\ cxc[i].pagado = c.pagado
                 /\ cxc' = [cxc EXCEPT ![i] = [nueva EXCEPT !.estado = N!EstadoSegun(nueva)]]
                 /\ leido' = [leido EXCEPT ![a].i = i + 1, ![a].abono = @ + v] /\ UNCHANGED nPc
      PROVE  IInv'
  <2>1. PICK v, nueva :
          /\ v = N!Min({nMonto[d] - leido[a].abono, leido[a].cuentas[i].monto - leido[a].cuentas[i].pagado})
          /\ nueva = [cxc[i] EXCEPT !.monto = @ - v, !.ajustes[d] = @ + v]
    OBVIOUS
  <2>2. /\ nMonto[d] - leido[a].abono > 0 /\ UNCHANGED nPc
        /\ cxc[i].monto = leido[a].cuentas[i].monto /\ cxc[i].pagado = leido[a].cuentas[i].pagado
        /\ cxc' = [cxc EXCEPT ![i] = [nueva EXCEPT !.estado = N!EstadoSegun(nueva)]]
        /\ leido' = [leido EXCEPT ![a].i = i + 1, ![a].abono = @ + v]
    BY <1>9, <2>1
  <2> QED
    BY <1>6, <2>1, <2>2
<1> QED
  BY <1>5, <1>7, <1>8, <1>9

\* What a receivable went down comes back whole.
LEMMA RevertirGuarda ==
    ASSUME N!Supuestos, IInv, NEW a \in N!Trabajan, NEW d, nObj[a] = d, N!Revertir(a)
    PROVE  IInv'
<1>1. nPc[a] = "revertir" /\ nPc[a] \in N!Pasos
      /\ UNCHANGED <<nReg, notas, salida, aFavor, libro, nObj, nFallas, nCortes>>
  BY DEF N!Revertir, N!Pasos
<1>2. /\ a \in N!Actores /\ d \in Descuentos /\ Carga(a) /\ Consta(d) /\ Formas /\ Rebajadas
      /\ leido[a] \in Copias /\ leido[a].abono \in Nat /\ nMonto[d] \in Nat /\ N!Ajustado(d) \in Nat
      /\ nReg[d].turno = a /\ nReg[d].estado \notin {"no", "retirada"}
      /\ (a \in Descuentos => d = a)
  BY <1>1, Antes
<1>3. N!Ajustado(d) <= nMonto[d] /\ nFallas \in 0..nMaxFallas /\ nCortes \in 0..nMaxCortes
  BY <1>2 DEF Consta, Formas
<1>4. CASE N!Ajustado(d) = 0 /\ N!Lanza(a) /\ UNCHANGED <<cxc, leido>>
  <2>1. PICK s \in Sitios : N!Va(a, s) /\ s = IF a \in Descuentos THEN "borrar" ELSE "libre"
    BY <1>4 DEF N!Lanza, Sitios, N!Pasos
  <2> QED
    BY <1>1, <1>3, <1>4, <2>1, SoloSigue
<1>5. ASSUME NEW i \in N!Numeros,
             cxc' = [cxc EXCEPT ![i].monto = @ + cxc[i].ajustes[d], ![i].ajustes[d] = 0],
             leido' = [leido EXCEPT ![a].i = i, ![a].estado =
                         [monto |-> cxc'[i].monto, pagado |-> cxc[i].pagado]],
             N!Va(a, "revertir2")
      PROVE  IInv'
  <2> DEFINE x == cxc[i].ajustes[d]
             A == [cxc[i].ajustes EXCEPT ![d] = 0]
             c == [cxc[i] EXCEPT !.monto = @ + x, !.ajustes = A]
             e == [monto |-> cxc'[i].monto, pagado |-> cxc[i].pagado]
             l == [leido[a] EXCEPT !.i = i, !.estado = e]
  <2>1. cxc[i] \in CxCs /\ x \in Nat /\ A \in [Descuentos -> Nat] /\ cxc[i].monto \in Nat /\ i \in Nat
    BY <1>2, Finitos DEF Formas, CxCs
  <2>2. cxc' = [cxc EXCEPT ![i] = c]
    BY <1>2, <1>5, <2>1 DEF Formas, CxCs
  <2>3. c \in CxCs /\ c.ajustes = A /\ c.monto = cxc[i].monto + x
    <3> DEFINE m == cxc[i].monto + x
    <3>1. m \in Nat /\ c = [cxc[i] EXCEPT !.monto = m, !.ajustes = A]
      BY <2>1 DEF CxCs
    <3> HIDE DEF A, x, m, c
    <3>2. c \in CxCs /\ c.ajustes = A /\ c.monto = m
      BY <2>1, <3>1 DEF CxCs
    <3> QED
      BY <3>2 DEF m
  <2>4. cxc'[i] = c
    <3> HIDE DEF c
    <3> QED
      BY <1>2, <2>2 DEF Formas
  <2>5. e \in [monto : Nat, pagado : Nat]
    <3> HIDE DEF c
    <3> QED
      BY <2>1, <2>3, <2>4 DEF CxCs
  <2>6. l \in Copias /\ l.i = i /\ leido' = [leido EXCEPT ![a] = l]
    <3>1. leido' = [leido EXCEPT ![a].i = i, ![a].estado = e]
      BY <1>5
    <3> HIDE DEF e
    <3> QED
      BY <1>2, <2>1, <2>5, <3>1 DEF Copias, Formas
  <2>7. 0 \in Nat /\ "revertir2" \in N!Pasos /\ l.i \in N!Numeros
    BY <2>6 DEF N!Pasos
  <2>8. /\ c.ajustes = [cxc[i].ajustes EXCEPT ![d] = 0]
        /\ c.monto = cxc[i].monto - (0 - cxc[i].ajustes[d])
        /\ N!Ajustado(d) - cxc[i].ajustes[d] + 0 <= nMonto[d]
    BY <1>2, <1>3, <2>1, <2>3
  <2>9. nPc[a] \in {"abonar", "revertir"} /\ UNCHANGED <<nReg, notas, salida, aFavor, libro, nObj, nFallas, nCortes>>
    BY <1>1
  <2> HIDE DEF x, A, c, e, l
  <2>10. Pone(i, c) /\ Recuerda(a, l) /\ Queda(c, i, d, 0) /\ Lleva(l, "revertir2", i, d, 0)
    BY <2>2, <2>6, <2>7, <2>8 DEF Pone, Recuerda, Queda, Lleva
  <2> QED
    BY <1>5, <2>3, <2>6, <2>7, <2>9, <2>10, CambiaUna
<1> QED
  BY <1>4, <1>5 DEF N!Revertir

\* A killed process leaves its discount as it was, unless its cash had just left.
LEMMA CorteGuarda ==
    ASSUME N!Supuestos, IInv, NEW a \in N!Trabajan, "marcaCaja" \notin nCortan, N!Corte(a)
    PROVE  IInv'
<1>1. nPc[a] \in N!Pasos /\ nPc[a] # "marcaCaja"
  BY DEF N!Corte, N!Supuestos
<1>2. a \in N!Actores /\ Formas
  BY DEF N!Actores, IInv
<1>3. nCortes' \in 0..nMaxCortes /\ nFallas' \in 0..nMaxFallas
  BY <1>2 DEF N!Corte, Formas, N!Supuestos
<1>4. PICK s \in Sitios : N!Va(a, s) /\ s \in {"error", "libre"} /\ (s = "libre" => a \notin Descuentos)
  <2>1. "error" \in Sitios /\ "libre" \in Sitios
    BY DEF Sitios
  <2>2. CASE a \in Descuentos
    <3>1. N!Va(a, "error")
      BY <2>2 DEF N!Corte
    <3> QED
      BY <2>1, <3>1, Zenon
  <2>3. CASE a \notin Descuentos
    <3>1. N!Va(a, "libre")
      BY <2>3 DEF N!Corte
    <3> QED
      BY <2>1, <2>3, <3>1
  <2> QED
    BY <2>2, <2>3
<1>5. nPc'[a] = s
  BY <1>2, <1>4, VaHace
<1>6. nPc'[a] \notin N!Pasos
  BY <1>4, <1>5 DEF N!Pasos
<1>7. UNCHANGED <<cxc, nReg, notas, salida, aFavor, libro, nObj, leido>>
  BY DEF N!Corte
<1>8. PICK d : nObj[a] = d
  OBVIOUS
<1>9. N!Va(a, s) /\ s \notin N!Pasos /\ (s = "libre" => a \notin Descuentos)
  BY <1>4, <1>5, <1>6
<1> QED
  BY <1>1, <1>3, <1>6, <1>7, <1>8, <1>9, SoloSigue

\* A request begins with nothing done of its discount.
LEMMA CrearGuarda ==
    ASSUME N!Supuestos, IInv, NEW d \in Descuentos, N!Crear(d)
    PROVE  IInv'
<1>1. nPc[d] = "libre" /\ UNCHANGED <<cxc, notas, salida, aFavor, libro, nObj, leido, nFallas, nCortes>>
  BY DEF N!Crear
<1>2. d \in N!Trabajan /\ d \in N!Actores /\ nObj[d] = d /\ nReg[d].estado = "no"
  BY <1>1 DEF IInv, Turnos, N!Trabajan, N!Actores
<1>3. Formas /\ Consta(d) /\ nReg[d] \in Regs
  BY DEF IInv, Formas, Registros, Regs
<1>4. PICK r \in Regs : nReg' = [nReg EXCEPT ![d] = r] /\ r = [nReg[d] EXCEPT !.estado = "en_curso", !.turno = d]
  <2> DEFINE r == [nReg[d] EXCEPT !.estado = "en_curso", !.turno = d]
  <2>1. r \in Regs /\ nReg' = [nReg EXCEPT ![d] = r]
    BY <1>2, <1>3 DEF N!Crear, Regs, Formas
  <2> QED
    BY <2>1
<1>5. nReg' \in [Descuentos -> Regs] /\ nReg'[d] = r /\ \A e \in Descuentos : e # d => nReg'[e] = nReg[e]
  BY <1>3, <1>4, PoneReg
<1>6. nPc' \in [N!Actores -> Sitios] /\ nPc'[d] = "leer" /\ \A b \in N!Actores : b # d => nPc'[b] = nPc[b]
  <2>1. "leer" \in Sitios /\ N!Va(d, "leer")
    BY DEF Sitios, N!Pasos, N!Crear
  <2> QED
    BY <1>2, <1>3, <2>1, VaHace
<1>7. Rebajadas' /\ \A e : N!Ajustado(e)' = N!Ajustado(e) /\ EnCaja(e)' = EnCaja(e) /\ AlFavor(e)' = AlFavor(e)
  BY <1>1, NadaDeCartera DEF IInv
<1>8. Solo(d) /\ SoloDe(d)
  BY <1>1, <1>5, <1>6, <1>7 DEF Solo, SoloDe
<1>9. Formas'
  BY <1>1, <1>3, <1>5, <1>6 DEF Formas, Sitios, Regs
<1>10. ~nReg[d].cartera /\ d \notin notas /\ N!Ajustado(d) = 0 /\ ~nReg[d].caja /\ ~nReg[d].asiento
       /\ salida[d] = 0 /\ aFavor[d] = 0 /\ libro[d] = -1
  BY <1>2, <1>3 DEF Consta
<1>11. Carga(d)'
  BY <1>1, <1>2, <1>4, <1>5, <1>6, <1>10, <1>3 DEF Carga, Regs
<1>12. Consta(d)'
  BY <1>1, <1>3, <1>4, <1>5, <1>7, <1>10 DEF Consta, Regs
<1>13. \A b \in N!Trabajan : b # d /\ nPc[b] \in N!Pasos => nObj[b] # d
  BY <1>2 DEF IInv, Turnos
<1>14. nReg'[d].turno = d /\ nReg'[d].estado \notin {"no", "retirada"} /\ nObj'[d] = d
  BY <1>1, <1>2, <1>3, <1>4, <1>5 DEF Regs
<1> QED
  BY <1>2, <1>6, <1>7, <1>8, <1>9, <1>11, <1>12, <1>13, <1>14, PasoEn

\* Who resumes finds nobody at work, and carries on from what the record says.
LEMMA ReanudarGuarda ==
    ASSUME N!Supuestos, IInv, NEW a \in N!Reanudadores, N!Reanudar(a)
    PROVE  IInv'
<1>1. a \in N!Trabajan /\ a \in N!Actores /\ a \notin Descuentos /\ nPc[a] = "libre" /\ nNadie \notin N!Actores
      /\ UNCHANGED <<cxc, notas, salida, aFavor, libro, nFallas, nCortes>>
  BY DEF N!Reanudar, N!Supuestos, N!Trabajan, N!Actores
<1>2. PICK d \in Descuentos :
        /\ nReg[d].estado \in {"en_curso", "pendiente_caja"} /\ ~N!Ocupado(d)
        /\ nReg' = [nReg EXCEPT ![d].turno = a] /\ nObj' = [nObj EXCEPT ![a] = d]
        /\ leido' = [leido EXCEPT ![a] = [N!SinLeer EXCEPT !.abono = nReg[d].abono]]
        /\ N!Va(a, IF nReg[d].cartera THEN "nota" ELSE "leer")
  BY DEF N!Reanudar
<1>3. Formas /\ Consta(d) /\ nReg[d] \in Regs /\ nReg[d].abono \in Nat
  BY DEF IInv, Formas, Registros, Regs
<1>4. PICK r \in Regs : nReg' = [nReg EXCEPT ![d] = r] /\ r = [nReg[d] EXCEPT !.turno = a]
  <2> DEFINE r == [nReg[d] EXCEPT !.turno = a]
  <2>1. r \in Regs /\ nReg' = [nReg EXCEPT ![d] = r]
    BY <1>1, <1>2, <1>3 DEF Regs, Formas
  <2> QED
    BY <2>1
<1>5. nReg' \in [Descuentos -> Regs] /\ nReg'[d] = r /\ \A e \in Descuentos : e # d => nReg'[e] = nReg[e]
  BY <1>3, <1>4, PoneReg
<1>6. PICK l \in Copias : leido' = [leido EXCEPT ![a] = l] /\ l.abono = nReg[d].abono
  <2> DEFINE C == [i \in N!Numeros |-> [monto |-> 0, pagado |-> 0]]
             l == [cuentas |-> C, i |-> 0, abono |-> nReg[d].abono, estado |-> [monto |-> 0, pagado |-> 0]]
  <2>1. C \in [N!Numeros -> [monto : Nat, pagado : Nat]]
    OBVIOUS
  <2>2. N!SinLeer = [cuentas |-> C, i |-> 0, abono |-> 0, estado |-> [monto |-> 0, pagado |-> 0]]
    BY DEF N!SinLeer
  <2> HIDE DEF C
  <2>3. l = [N!SinLeer EXCEPT !.abono = nReg[d].abono]
    BY <2>2
  <2>4. l \in Copias /\ l.abono = nReg[d].abono
    BY <1>3, <2>1 DEF Copias
  <2> HIDE DEF l
  <2> QED
    BY <1>2, <2>3, <2>4
<1>7. leido' \in [N!Trabajan -> Copias] /\ leido'[a] = l /\ \A b \in N!Trabajan : b # a => leido'[b] = leido[b]
  BY <1>1, <1>3, <1>6, PoneMem
<1>8. nObj' \in [N!Trabajan -> Descuentos] /\ nObj'[a] = d /\ \A b \in N!Trabajan : b # a => nObj'[b] = nObj[b]
  BY <1>1, <1>2, <1>3 DEF Formas
<1>9. PICK s \in Sitios : N!Va(a, s) /\ s = IF nReg[d].cartera THEN "nota" ELSE "leer"
  BY <1>2 DEF Sitios, N!Pasos
<1>10. nPc' \in [N!Actores -> Sitios] /\ nPc'[a] = s /\ \A b \in N!Actores : b # a => nPc'[b] = nPc[b]
  BY <1>1, <1>3, <1>9, VaHace
<1>11. Rebajadas' /\ \A e : N!Ajustado(e)' = N!Ajustado(e) /\ EnCaja(e)' = EnCaja(e) /\ AlFavor(e)' = AlFavor(e)
  BY <1>1, NadaDeCartera DEF IInv
<1>12. Solo(a) /\ SoloDe(d)
  BY <1>1, <1>5, <1>7, <1>8, <1>10, <1>11 DEF Solo, SoloDe
<1>13. Formas'
  BY <1>1, <1>3, <1>5, <1>7, <1>8, <1>10 DEF Formas, Sitios, Regs
<1>14. nReg[d].cartera => nReg[d].abono = N!Ajustado(d)
  BY <1>3 DEF Consta
<1>15. Carga(a)'
  BY <1>1, <1>3, <1>4, <1>5, <1>6, <1>7, <1>8, <1>9, <1>10, <1>11, <1>14 DEF Carga, Regs
<1>16. ~EnMarca(d)
  <2>1. "marcaCaja" \notin {"libre", "error"} /\ (nReg[d].turno \in N!Trabajan => nReg[d].turno # nNadie)
    BY <1>1 DEF N!Actores
  <2> QED
    BY <1>2, <2>1 DEF EnMarca, N!Ocupado
<1>17. Consta(d)'
  BY <1>1, <1>2, <1>3, <1>4, <1>5, <1>11, <1>16 DEF Consta, Regs
<1>18. \A b \in N!Trabajan : b # a /\ nPc[b] \in N!Pasos => nObj[b] # d
  <2>1. ASSUME NEW b \in N!Trabajan, nPc[b] \in N!Pasos, nObj[b] = d PROVE FALSE
    <3>1. nReg[d].turno = b /\ b # nNadie
      BY <1>1, <2>1 DEF IInv, Turnos, N!Actores
    <3>2. nPc[b] \notin {"libre", "error"}
      BY <2>1 DEF N!Pasos
    <3> QED
      BY <1>2, <3>1, <3>2 DEF N!Ocupado
  <2> QED
    BY <2>1
<1>19. nReg'[d].turno = a /\ nReg'[d].estado = nReg[d].estado
  BY <1>4, <1>5, <1>3 DEF Regs
<1>20. nPc'[d] # "libre"
  <2>1. nPc[d] # "libre" /\ d \in N!Actores /\ d # a
    BY <1>1, <1>2 DEF IInv, Turnos, N!Actores, N!Trabajan
  <2> QED
    BY <1>10, <2>1
<1>21. /\ nPc'[a] \in N!Pasos => nReg'[d].turno = a /\ nReg'[d].estado \notin {"no", "retirada"}
       /\ nPc'[d] = "libre" <=> nReg'[d].estado = "no"
       /\ nObj'[a] = d
  BY <1>2, <1>8, <1>19, <1>20
<1> QED
  BY <1>1, <1>11, <1>12, <1>13, <1>15, <1>17, <1>18, <1>21, PasoEn

\* A payment changes neither what a receivable was nor what it went down.
LEMMA PagarGuarda ==
    ASSUME N!Supuestos, IInv, NEW p \in Pagos, N!Pagar(p)
    PROVE  IInv'
<1> DEFINE i == CHOOSE n \in N!Numeros : nCuentas[n] = PagoDe[p]
           pg == [cxc[i] EXCEPT !.pagado = @ + Importe[p]]
           c == [pg EXCEPT !.estado = N!EstadoSegun(pg)]
<1>1. i \in N!Numeros /\ Importe[p] \in Nat
  BY DEF N!Supuestos
<1>2. p \in N!Actores /\ p \notin N!Trabajan /\ Formas /\ Rebajadas
  BY DEF N!Supuestos, N!Actores, IInv
<1>3. cxc' = [cxc EXCEPT ![i] = c] /\ N!Va(p, "fin") /\ UNCHANGED <<nReg, notas, salida, aFavor, libro, nObj, leido, nFallas, nCortes>>
  BY DEF N!Pagar
<1> HIDE DEF i
<1>4. cxc[i] \in CxCs
  BY <1>1, <1>2 DEF Formas, CxCs
<1>5. c \in CxCs /\ c.ajustes = cxc[i].ajustes /\ c.monto = cxc[i].monto
  <2>1. pg \in CxCs /\ pg.ajustes = cxc[i].ajustes /\ pg.monto = cxc[i].monto
    BY <1>1, <1>4 DEF CxCs
  <2>2. N!EstadoSegun(pg) \in {"open", "partial", "paid"}
    BY EstadoTipo
  <2> HIDE DEF pg
  <2> QED
    BY <2>1, <2>2 DEF CxCs
<1> HIDE DEF c
<1>6. cxc' \in [N!Numeros -> CxCs] /\ cxc'[i] = c /\ \A j \in N!Numeros : j # i => cxc'[j] = cxc[j]
  BY <1>1, <1>2, <1>3, <1>5, PoneCxc
<1>7. \A j \in N!Numeros : cxc'[j].ajustes = cxc[j].ajustes /\ cxc'[j].monto = cxc[j].monto
  BY <1>5, <1>6
<1>8. (\A e \in Descuentos : N!Ajustado(e)' = N!Ajustado(e)) /\ Rebajadas'
  BY <1>2, <1>7, AjusteQuieto
<1>9. nPc' \in [N!Actores -> Sitios] /\ nPc'[p] = "fin" /\ \A b \in N!Actores : b # p => nPc'[b] = nPc[b]
  <2>1. "fin" \in Sitios
    BY DEF Sitios
  <2> QED
    BY <1>2, <1>3, <2>1, VaHace
<1>10. \A b \in N!Trabajan : b \in N!Actores /\ nPc'[b] = nPc[b]
  BY <1>2, <1>9 DEF N!Actores
<1>11. Formas'
  BY <1>2, <1>3, <1>6, <1>9 DEF Formas, Sitios, CxCs
<1>12. Turnos'
  <2>1. \A q \in Pagos : nPc'[q] \in {"libre", "fin"}
    <3>1. \A q \in Pagos : q \in N!Actores /\ nPc[q] \in {"libre", "fin"}
      BY DEF IInv, Turnos, N!Actores
    <3> QED
      BY <1>9, <3>1
  <2>2. \A d \in Descuentos : d \in N!Trabajan
    BY DEF N!Trabajan
  <2> QED
    BY <1>3, <1>10, <2>1, <2>2 DEF IInv, Turnos
<1>13. Cargas'
  <2>1. SUFFICES ASSUME NEW b \in N!Trabajan PROVE Carga(b)'
    BY DEF Cargas
  <2>2. PICK e \in Descuentos : nObj[b] = e
    BY <1>2 DEF Formas
  <2>3. Carga(b) /\ nPc'[b] = nPc[b] /\ N!Ajustado(e)' = N!Ajustado(e)
    BY <1>8, <1>10 DEF IInv, Cargas
  <2> QED
    BY <1>3, <2>2, <2>3, CargaDeOtro
<1>14. Registros'
  <2>1. SUFFICES ASSUME NEW d \in Descuentos PROVE Consta(d)'
    BY DEF Registros
  <2>2. N!Ajustado(d)' = N!Ajustado(d) /\ Consta(d)
    BY <1>8 DEF IInv, Registros
  <2>3. EnCaja(d)' = EnCaja(d) /\ AlFavor(d)' = AlFavor(d)
    BY <2>2 DEF EnCaja, AlFavor
  <2>4. EnMarca(d)' = EnMarca(d)
    <3>1. nReg' = nReg /\ nObj' = nObj
      BY <1>3
    <3> QED
      BY <1>10, <3>1 DEF EnMarca
  <2> QED
    BY <1>3, <2>2, <2>3, <2>4 DEF Consta
<1> QED
  BY <1>8, <1>11, <1>12, <1>13, <1>14 DEF IInv

-----------------------------------------------------------------------------
(* The inductive invariant and what it says *)

LEMMA Inicial ==
    ASSUME N!Supuestos, N!Init
    PROVE  IInv
<1> DEFINE Z == [d \in Descuentos |-> 0]
<1>10. Z \in [Descuentos -> Nat] /\ \A d \in Descuentos : Z[d] = 0
  OBVIOUS
<1>1. \A i \in N!Numeros : /\ cxc[i] \in CxCs /\ cxc[i].ajustes = Z
                         /\ cxc[i].monto = Debe[nCuentas[i]] /\ Debe[nCuentas[i]] \in Nat
  <2>1. SUFFICES ASSUME NEW i \in N!Numeros
                 PROVE  /\ cxc[i] \in CxCs /\ cxc[i].ajustes = Z
                        /\ cxc[i].monto = Debe[nCuentas[i]] /\ Debe[nCuentas[i]] \in Nat
    OBVIOUS
  <2> DEFINE m == Debe[nCuentas[i]]
  <2>2. m \in Nat
    <3>1. nCuentas[i] \in DOMAIN Debe
      BY DEF N!Supuestos, N!Numeros
    <3> QED
      BY <3>1 DEF N!Supuestos
  <2>3. cxc[i] = [monto |-> m, pagado |-> 0, estado |-> "open", ajustes |-> Z]
    BY DEF N!Init
  <2> HIDE DEF m, Z
  <2>4. cxc[i] \in CxCs /\ cxc[i].ajustes = Z /\ cxc[i].monto = m
    BY <1>10, <2>2, <2>3 DEF CxCs
  <2> QED
    BY <2>2, <2>4 DEF m
<1> HIDE DEF Z
<1>2. cxc \in [N!Numeros -> CxCs]
  <2>1. \A i \in N!Numeros : cxc[i] \in CxCs
    BY <1>1
  <2>2. cxc = [i \in N!Numeros |-> cxc[i]]
    BY DEF N!Init
  <2> QED
    BY <2>1, <2>2
<1>3. \A d \in Descuentos : nReg[d] = N!SinRegistro /\ salida[d] = 0 /\ aFavor[d] = 0 /\ libro[d] = -1
  BY DEF N!Init
<1>4. Formas
  <2>1. nReg \in [Descuentos -> Regs]
    BY DEF N!Init, Regs, N!SinRegistro
  <2>2. leido \in [N!Trabajan -> Copias]
    <3>1. N!SinLeer \in Copias
      BY DEF N!SinLeer, Copias
    <3> QED
      BY <3>1 DEF N!Init
  <2>3. nObj \in [N!Trabajan -> Descuentos]
    <3>1. (CHOOSE d \in Descuentos : TRUE) \in Descuentos
      BY DEF N!Supuestos
    <3> QED
      BY <3>1 DEF N!Init
  <2>4. nPc \in [N!Actores -> {"libre", "fin", "error"} \cup N!Pasos]
    BY DEF N!Init
  <2>5. /\ notas \subseteq Descuentos
        /\ salida \in [Descuentos -> Nat] /\ aFavor \in [Descuentos -> Nat]
        /\ libro \in [Descuentos -> Nat \cup {-1}]
        /\ nFallas \in 0..nMaxFallas /\ nCortes \in 0..nMaxCortes
    BY DEF N!Init, N!Supuestos
  <2> QED
    BY <1>2, <2>1, <2>2, <2>3, <2>4, <2>5 DEF Formas, Regs, CxCs
<1>5. Turnos
  BY <1>3 DEF Turnos, N!Init, N!SinRegistro, N!Pasos, N!Actores, N!Trabajan
<1>6. Cargas
  BY DEF Cargas, Carga, N!Init, N!Actores
<1>7. \A d \in Descuentos : N!Ajustado(d) = 0
  <2>1. SUFFICES ASSUME NEW d \in Descuentos PROVE N!Ajustado(d) = 0
    OBVIOUS
  <2> DEFINE f == [i \in N!Numeros |-> cxc[i].ajustes[d]]
  <2>2. \A i \in N!Numeros : f[i] = 0
    BY <1>1, <1>10
  <2>3. SumFunctionOnSet(f, N!Numeros) = 0
    <3> HIDE DEF f
    <3> QED
      BY <2>2, Finitos, SumaDeCeros
  <2> QED
    BY <2>3, MismasSumas DEF N!Ajustado
<1>8. Registros
  <2>1. SUFFICES ASSUME NEW d \in Descuentos PROVE Consta(d)
    BY DEF Registros
  <2>2. notas = {} /\ nMonto[d] \in Nat
    BY DEF N!Init, N!Supuestos
  <2> QED
    BY <1>3, <1>7, <2>2 DEF Consta, N!SinRegistro
<1>9. Rebajadas
  <2>1. SUFFICES ASSUME NEW i \in N!Numeros PROVE Rebajada(i)
    BY DEF Rebajadas
  <2> DEFINE f == cxc[i].ajustes
  <2>2. (\A d \in Descuentos : f[d] = 0) /\ cxc[i].monto = Debe[nCuentas[i]] /\ Debe[nCuentas[i]] \in Nat
    BY <1>1, <1>10
  <2>3. SumFunctionOnSet(f, Descuentos) = 0
    <3>1. IsFiniteSet(Descuentos)
      BY Finitos
    <3> HIDE DEF f
    <3> QED
      BY <2>2, <3>1, SumaDeCeros
  <2> QED
    BY <2>2, <2>3 DEF Rebajada
<1> QED
  BY <1>4, <1>5, <1>6, <1>8, <1>9 DEF IInv

LEMMA Quieto ==
    ASSUME IInv, UNCHANGED N!vars
    PROVE  IInv'
<1>1. \A e : N!Ajustado(e)' = N!Ajustado(e)
  BY DEF N!vars, N!Ajustado
<1>2. \A e : EnCaja(e)' = EnCaja(e) /\ AlFavor(e)' = AlFavor(e) /\ EnMarca(e)' = EnMarca(e)
  BY <1>1 DEF N!vars, EnCaja, AlFavor, EnMarca
<1>3. Formas' /\ Turnos' /\ Rebajadas'
  BY DEF IInv, N!vars, Formas, Turnos, Rebajadas, Rebajada
<1>4. Cargas'
  BY <1>1, <1>2 DEF IInv, N!vars, Cargas, Carga
<1>5. Registros'
  BY <1>1, <1>2 DEF IInv, N!vars, Registros, Consta
<1> QED
  BY <1>3, <1>4, <1>5 DEF IInv

LEMMA IInvSiempre ==
    ASSUME N!Supuestos, "marcaCaja" \notin nCortan
    PROVE  N!Spec => []IInv
<1>1. N!Init => IInv
  BY Inicial
<1>2. IInv /\ [N!Next]_(N!vars) => IInv'
  <2>1. SUFFICES ASSUME IInv, [N!Next]_(N!vars) PROVE IInv'
    OBVIOUS
  <2>2. CASE UNCHANGED N!vars
    BY <2>1, <2>2, Quieto
  <2>3. ASSUME NEW d \in Descuentos, N!Crear(d) PROVE IInv'
    BY <2>1, <2>3, CrearGuarda
  <2>4. ASSUME NEW d \in Descuentos, N!Borrar(d) PROVE IInv'
    <3>1. d \in N!Trabajan /\ nObj[d] = d
      BY <2>1 DEF N!Trabajan, IInv, Turnos
    <3> QED
      BY <2>1, <2>4, <3>1, BorrarGuarda
  <2>5. ASSUME NEW a \in N!Reanudadores, N!Reanudar(a) PROVE IInv'
    BY <2>1, <2>5, ReanudarGuarda
  <2>6. ASSUME NEW a \in N!Trabajan, N!Trabaja(a) PROVE IInv'
    <3>1. PICK d : nObj[a] = d
      OBVIOUS
    <3> QED
      BY <2>1, <2>6, <3>1, LeerGuarda, AbonarGuarda, RevertirGuarda, Revertir2Guarda,
         CarteraGuardaPaso, NotaGuarda, GuardarGuarda, CajaGuarda, MarcaCajaGuarda, FavorGuarda,
         LibroGuarda, MarcaLibroGuarda, CerrarGuarda, SoltarGuarda DEF N!Trabaja
  <2>7. ASSUME NEW a \in N!Trabajan, N!Corte(a) PROVE IInv'
    BY <2>1, <2>7, CorteGuarda
  <2>8. ASSUME NEW p \in Pagos, N!Pagar(p) PROVE IInv'
    BY <2>1, <2>8, PagarGuarda
  <2> QED
    BY <2>1, <2>2, <2>3, <2>4, <2>5, <2>6, <2>7, <2>8 DEF N!Next
<1> QED
  BY <1>1, <1>2, PTL DEF N!Spec

\* The types of the module hold whatever fails and whoever resumes.
THEOREM DescuentoTipos ==
    ASSUME N!Supuestos, "marcaCaja" \notin nCortan
    PROVE  N!Spec => []N!TypeOK
<1>1. IInv => N!TypeOK
  <2>1. SUFFICES ASSUME IInv PROVE N!TypeOK
    OBVIOUS
  <2>2. Formas /\ \A d \in Descuentos : nReg[d].abono <= nMonto[d] /\ nMonto[d] \in Nat
    BY <2>1 DEF IInv, Registros, Consta, N!Supuestos
  <2>3. \A d \in Descuentos : nReg[d].abono \in 0..nMonto[d]
    BY <2>2 DEF Formas
  <2> QED
    BY <2>2, <2>3 DEF Formas, N!TypeOK
<1> QED
  BY <1>1, IInvSiempre, PTL

\* Each discount is given once and in full, one that withdrew left nothing, and no two
\* work on one, however many requests and sweeps complete it (create, continuar, completar).
THEOREM DescuentoSiempreCuadra ==
    ASSUME N!Supuestos, "marcaCaja" \notin nCortan
    PROVE  N!Spec => [](N!DescuentoCuadra /\ N!RetiradoNoDeja /\ N!UnTurno)
<1>1. IInv => N!DescuentoCuadra /\ N!RetiradoNoDeja /\ N!UnTurno
  <2>1. SUFFICES ASSUME IInv PROVE N!DescuentoCuadra /\ N!RetiradoNoDeja /\ N!UnTurno
    OBVIOUS
  <2>2. ASSUME NEW d \in Descuentos
        PROVE  /\ nReg[d].cartera => nReg[d].abono = N!Ajustado(d)
               /\ libro[d] # -1 => libro[d] = N!Ajustado(d) /\ d \in notas
               /\ salida[d] \in {0, IF nMedio[d] = "cash" THEN nMonto[d] - N!Ajustado(d) ELSE 0}
               /\ nReg[d].estado = "completa" =>
                    /\ d \in notas /\ libro[d] # -1
                    /\ salida[d] + aFavor[d] = IF nMedio[d] = "transfer" THEN 0
                                               ELSE nMonto[d] - N!Ajustado(d)
               /\ nReg[d].estado = "retirada" =>
                    N!Ajustado(d) = 0 /\ d \notin notas /\ salida[d] = 0 /\ aFavor[d] = 0 /\ libro[d] = -1
    <3>1. Consta(d) /\ nMedio[d] \in {"cash", "credit_note", "transfer"}
          /\ nMonto[d] \in Nat /\ N!Ajustado(d) \in Nat
      BY <2>1, AjustadoNatural DEF IInv, Registros, N!Supuestos
    <3> QED
      BY <3>1 DEF Consta, EnCaja, AlFavor
  <2>3. \A i \in N!Numeros : cxc[i].monto = Debe[nCuentas[i]] - SumFunctionOnSet(cxc[i].ajustes, Descuentos)
    BY <2>1 DEF IInv, Rebajadas, Rebajada
  <2>4. N!DescuentoCuadra
    BY <2>2, <2>3, MismasSumas DEF N!DescuentoCuadra
  <2>5. N!RetiradoNoDeja
    BY <2>2 DEF N!RetiradoNoDeja
  <2>6. N!UnTurno
    BY <2>1 DEF IInv, Turnos, N!UnTurno
  <2> QED
    BY <2>4, <2>5, <2>6
<1> QED
  BY <1>1, IInvSiempre, PTL

=============================================================================
