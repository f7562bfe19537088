--------------------------- MODULE CarteraProofs ---------------------------
(***************************************************************************)
(* For any payments, returns, cashiers, sweeps and voids of one receivable *)
(* and any failures and lost processes: no payment is lost or posted out   *)
(* of its place; and, when no process is lost while a return looks at the  *)
(* sale again, the debt goes down by what the returns say and a voided     *)
(* sale leaves none.  And, for any settlements of a platform and voids of  *)
(* its orders (Liquidacion): an order is collected once.  And, for any     *)
(* receptions of a purchase order that no cancellation crosses             *)
(* (Recepcion): what enters, what is owed and what is posted agree.        *)
(***************************************************************************)
EXTENDS Cartera, Sumas, TLAPS

Devolvedores == Devoluciones \cup Reanudadores
Fuera == {"libre", "fin", "error"}

\* Each actor is at a step of its own work, and a return's request works on it.
Oficio ==
    /\ \A p \in Pagos : pc[p] \in Fuera \cup PasosPago
    /\ \A d \in Devoluciones : pc[d] \in Fuera \cup PasosDevolucion /\ obj[d] = d
    /\ \A a \in Reanudadores :
         pc[a] \in {"libre", "leer", "escribir", "guardar", "nota", "completar"}
    /\ \A v \in Anuladores : pc[v] \in Fuera \cup PasosVoid

\* What a return is about to write fits in what was owed when it read.
Cabe == \A a \in Devolvedores :
    pc[a] = "escribir" => leido[a].abono + leido[a].pagado <= leido[a].monto

Bien == TypeOK /\ Oficio /\ Cabe

-----------------------------------------------------------------------------
\* What a return lowers is never more than is owed.
LEMMA AbonoCabe ==
    ASSUME Supuestos, TypeOK, NEW d \in Devoluciones
    PROVE  Abono(d) \in Nat /\ (Abono(d) > 0 => Abono(d) + cxc.pagado <= cxc.monto)
<1> DEFINE debe == cxc.monto - cxc.pagado
<1>1. debe \in Int /\ Devuelto[d] \in Nat /\ cxc.monto \in Nat /\ cxc.pagado \in Nat
  BY DEF Supuestos, TypeOK, Cuentas
<1> DEFINE m == Max({0, debe})
<1>2. m \in {0, debe} /\ m >= 0 /\ m >= debe
  <2>1. \E x \in {0, debe} : \A y \in {0, debe} : x >= y
    BY <1>1
  <2> QED
    BY <2>1 DEF Max
<1>3. Abono(d) \in {Devuelto[d], m} /\ Abono(d) <= m /\ Abono(d) <= Devuelto[d]
  <2>1. \E x \in {Devuelto[d], m} : \A y \in {Devuelto[d], m} : x =< y
    BY <1>1, <1>2
  <2> QED
    BY <2>1 DEF Min, Abono
<1> QED
  BY <1>1, <1>2, <1>3

LEMMA Conjuntos ==
    ASSUME Supuestos
    PROVE  /\ Pagos \subseteq Actores /\ Devolvedores \subseteq Actores /\ Anuladores \subseteq Actores
           /\ Devoluciones \subseteq Devolvedores /\ Reanudadores \subseteq Devolvedores
           /\ \A p \in Pagos : p \notin Devolvedores /\ p \notin Anuladores
           /\ \A a \in Devolvedores : a \notin Anuladores
           /\ \A d \in Devoluciones : d \notin Reanudadores
           /\ \A a \in Actores : a # Nadie
           /\ \A a \in Actores : a \in Pagos \/ a \in Devolvedores \/ a \in Anuladores
BY DEF Supuestos, Actores, Devolvedores

LEMMA BienInicial == Supuestos /\ Init => Bien
<1> SUFFICES ASSUME Supuestos, Init PROVE Bien
  OBVIOUS
<1>1. [d \in Devoluciones |-> 0] \in [Devoluciones -> Nat] /\ <<>> \in Seq(Pagos)
  OBVIOUS
<1>2. obj \in [Devolvedores -> Devoluciones] /\ \A d \in Devoluciones : obj[d] = d
  <2>1. \A a \in Reanudadores : (CHOOSE d \in Devoluciones : TRUE) \in Devoluciones
    BY DEF Supuestos
  <2>2. obj = [a \in Devolvedores |-> IF a \in Devoluciones THEN a
                                      ELSE CHOOSE d \in Devoluciones : TRUE]
    BY DEF Init, Devolvedores
  <2> HIDE DEF Init
  <2> QED
    BY <2>1, <2>2 DEF Devolvedores
<1>3. TypeOK
  BY <1>1, <1>2
  DEF Init, TypeOK, Supuestos, SinRegistro, SinLeer, Devolvedores, Cuentas, Registros,
        Lecturas, Pasos
<1>4. Oficio /\ Cabe
  BY <1>2, Conjuntos DEF Init, Oficio, Cabe, Fuera
<1> QED
  BY <1>3, <1>4 DEF Bien

-----------------------------------------------------------------------------
\* An open account stays one whatever is paid or lowered.
LEMMA Abierta ==
    /\ \A m, q : EstadoSegun(m, q) \in {"open", "partial", "paid"}
    /\ \A m, q : EstadoAjuste(m, q) \in {"open", "partial", "paid"}
BY DEF EstadoSegun, EstadoAjuste

\* Every step keeps the types.
LEMMA TiposPaso ==
    ASSUME Supuestos, Bien, [Next]_vars PROVE TypeOK'
<1>t. TypeOK /\ Cabe
  BY DEF Bien
<1>s. /\ Pagos \subseteq Actores /\ Devolvedores \subseteq Actores /\ Anuladores \subseteq Actores
      /\ Devoluciones \subseteq Actores /\ Reanudadores \subseteq Actores
  BY Conjuntos
<1>d. Devolvedores = Devoluciones \cup Reanudadores
  BY DEF Devolvedores
<1>o. \A a \in Devolvedores : obj[a] \in Devoluciones
  BY <1>t, <1>d DEF TypeOK
<1>c. Importe \in [Pagos -> Nat] /\ MaxCortes \in Nat /\ MaxFallas \in Nat
  BY DEF Supuestos
<1> USE <1>t, <1>s, <1>d, <1>c DEF TypeOK, Va, Pasos, PasosPago, PasosDevolucion, PasosVoid
<1>1. ASSUME NEW p \in Pagos, LeerPago(p) PROVE TypeOK'
  <2>1. leido[p] \in Lecturas /\ cxc.monto \in Nat /\ cxc.pagado \in Nat
    BY DEF Cuentas
  <2>2. leido' \in [Actores -> Lecturas]
    BY SMTT(30), <1>1, <2>1 DEF LeerPago, Lecturas
  <2> QED
    BY <1>1, <2>2 DEF LeerPago
<1>2. ASSUME NEW p \in Pagos, EscribirPago(p) PROVE TypeOK'
  <2>1. cxc' \in Cuentas
    <3>1. /\ Append(cxc.pagos, p) \in Seq(Pagos)
          /\ cxc.pagado + Importe[p] \in Nat
      BY DEF Cuentas
    <3> QED
      <4> DEFINE q == cxc.pagado + Importe[p]
                 s == Append(cxc.pagos, p)
                 e == EstadoSegun(leido[p].monto, leido[p].pagado + Importe[p])
      <4>1. cxc' = cxc \/ cxc' = [cxc EXCEPT !.pagado = q, !.pagos = s, !.estado = e]
        BY <1>2 DEF EscribirPago
      <4>2. q \in Nat /\ s \in Seq(Pagos) /\ e \in {"open", "partial", "paid"}
        BY <3>1, Abierta
      <4> HIDE DEF q, s, e
      <4> QED
        BY <4>1, <4>2 DEF Cuentas
  <2>2. leido' \in [Actores -> Lecturas]
    <3>1. Len(cxc.pagos) + 1 \in Nat
      BY DEF Cuentas
    <3>2. PICK n \in Nat : leido' = leido \/ leido' = [leido EXCEPT ![p].abono = n]
      BY <1>2, <3>1 DEF EscribirPago
    <3> QED
      BY <3>2 DEF Lecturas
  <2> QED
    BY <1>2, <2>1, <2>2 DEF EscribirPago
<1>3. ASSUME NEW p \in Pagos, Asentar(p) PROVE TypeOK'
  BY <1>3 DEF Asentar, Lecturas
<1>4. ASSUME NEW d \in Devoluciones, Pedir(d) PROVE TypeOK'
  BY <1>4 DEF Pedir
<1>5. ASSUME NEW d \in Devoluciones, Crear(d) PROVE TypeOK'
  <2>1. reg' \in [Devoluciones -> Registros]
    <3> DEFINE r == [reg[d] EXCEPT !.estado = "en_curso", !.turno = d]
    <3>1. r \in Registros
      BY ZenonT(60) DEF Registros
    <3>2. reg' = [reg EXCEPT ![d] = r]
      BY <1>5 DEF Crear, Registros
    <3> QED
      BY <3>1, <3>2
  <2> QED
    BY <1>5, <2>1 DEF Crear
<1>6. ASSUME NEW d \in Devoluciones, Revisar(d) PROVE TypeOK'
  BY <1>6 DEF Revisar, Registros
<1>7. ASSUME NEW a \in Reanudadores, Reanudar(a) PROVE TypeOK'
  <2>1. reg' \in [Devoluciones -> Registros]
    BY <1>7 DEF Reanudar, Registros
  <2>2. leido' \in [Actores -> Lecturas]
    BY <1>7 DEF Reanudar, SinLeer, Lecturas
  <2>3. pc' \in [Actores -> Pasos] /\ obj' \in [Devoluciones \cup Reanudadores -> Devoluciones]
    BY <1>7 DEF Reanudar
  <2> QED
    BY <1>7, <2>1, <2>2, <2>3 DEF Reanudar
<1>8. ASSUME NEW a \in Devolvedores, NEW d \in Devoluciones, obj[a] = d, Leer(a) PROVE TypeOK'
  <2>1. Abono(d) \in Nat /\ cxc.monto \in Nat /\ cxc.pagado \in Nat /\ cxc.ajustes[d] \in Nat
    BY AbonoCabe DEF Cuentas
  <2>2. leido' \in [Actores -> Lecturas]
    <3>1. leido[a].intento + 1 \in Nat /\ leido[a] \in Lecturas
      BY DEF Lecturas
    <3>2. PICK n \in Nat : leido' = [leido EXCEPT ![a].abono = n]
                         \/ leido' = [leido EXCEPT ![a] = [monto |-> cxc.monto, pagado |-> cxc.pagado,
                                        abono |-> n, intento |-> leido[a].intento + 1]]
      BY <1>8, <2>1 DEF Leer
    <3>3. [monto |-> cxc.monto, pagado |-> cxc.pagado, abono |-> n,
           intento |-> leido[a].intento + 1] \in Lecturas
      BY <2>1, <3>1 DEF Lecturas
    <3>4. [leido[a] EXCEPT !.abono = n] \in Lecturas
      BY <3>1 DEF Lecturas
    <3> QED
      BY <3>2, <3>3, <3>4
  <2> QED
    BY <1>8, <2>2 DEF Leer, TrasCartera
<1>9. ASSUME NEW a \in Devolvedores, NEW d \in Devoluciones, obj[a] = d, Escribir(a)
      PROVE  TypeOK'
  <2>1. /\ leido[a].abono \in Nat /\ leido[a].monto \in Nat /\ leido[a].pagado \in Nat
        /\ leido[a].abono + leido[a].pagado <= leido[a].monto
    BY <1>9 DEF Lecturas, Cabe, Escribir
  <2>2. cxc' \in Cuentas
    <3>1. CASE cxc.monto = leido[a].monto
      <4>1. cxc.monto - leido[a].abono \in Nat
        BY <2>1, <3>1
      <4> QED
        <5> DEFINE n == cxc.monto - leido[a].abono
                   j == [cxc.ajustes EXCEPT ![d] = leido[a].abono]
                   e == EstadoAjuste(n, cxc.pagado)
        <5>1. cxc' = cxc \/ cxc' = [cxc EXCEPT !.monto = n, !.ajustes = j, !.estado = e]
          BY <1>9 DEF Escribir, Cuentas
        <5>2. /\ n \in Nat /\ e \in {"open", "partial", "paid"}
              /\ j \in [Devoluciones -> Nat]
          BY <2>1, <4>1, Abierta DEF Cuentas
        <5> HIDE DEF n, j, e
        <5> QED
          BY <5>1, <5>2 DEF Cuentas
    <3>2. CASE cxc.monto # leido[a].monto
      BY <1>9, <3>2 DEF Escribir
    <3> QED
      BY <3>1, <3>2
  <2>3. reg' \in [Devoluciones -> Registros]
    BY <1>9 DEF Escribir, Rendirse, Registros
  <2>4. pc' \in [Actores -> Pasos]
    BY <1>9 DEF Escribir, Rendirse, TrasCartera
  <2> QED
    BY <1>9, <2>2, <2>3, <2>4 DEF Escribir
<1>10. ASSUME NEW a \in Devolvedores, NEW d \in Devoluciones, obj[a] = d, Nota(a)
       PROVE  TypeOK'
  <2>1. reg' \in [Devoluciones -> Registros]
    <3>1. (a \in Reanudadores) \in BOOLEAN
      OBVIOUS
    <3>2. PICK n \in BOOLEAN : reg' = [reg EXCEPT ![d].nota = n] \/ reg' = reg
                             \/ reg' = [reg EXCEPT ![d].turno = Nadie]
      BY <1>10, <3>1 DEF Nota
    <3> QED
      BY <3>2 DEF Registros
  <2> QED
    BY <1>10, <2>1 DEF Nota, Falla
<1>11. ASSUME NEW a \in Devolvedores, NEW d \in Devoluciones, obj[a] = d, Guardar(a)
       PROVE  TypeOK'
  <2>1. reg' \in [Devoluciones -> Registros]
    <3> DEFINE r == [reg[d] EXCEPT !.hecha = TRUE, !.abono = leido[a].abono,
                                   !.nota = @ \/ a \in Devoluciones]
    <3>1. r \in Registros
      <4>1. leido[a].abono \in Nat
        BY DEF Lecturas
      <4>2. PICK n \in BOOLEAN :
                r = [reg[d] EXCEPT !.hecha = TRUE, !.abono = leido[a].abono, !.nota = n]
        <5>1. (reg[d].nota \/ a \in Devoluciones) \in BOOLEAN
          OBVIOUS
        <5> QED
          BY <5>1
      <4>3. reg[d] \in Registros
        OBVIOUS
      <4> HIDE DEF r
      <4> QED
        BY <4>1, <4>2, <4>3 DEF Registros
    <3>2. reg' = [reg EXCEPT ![d] = r]
      BY <1>11 DEF Guardar, Registros
    <3> QED
      BY <3>1, <3>2
  <2> QED
    BY <1>11, <2>1 DEF Guardar
<1>12. ASSUME NEW a \in Devolvedores, NEW d \in Devoluciones, obj[a] = d, Revertir(a)
       PROVE  TypeOK'
  <2>1. leido[a].abono \in Nat
    BY DEF Lecturas
  <2>2. cxc' \in Cuentas
    <3>1. /\ cxc.monto + leido[a].abono \in Nat
          /\ [cxc.ajustes EXCEPT ![d] = 0] \in [Devoluciones -> Nat]
      BY <2>1 DEF Cuentas
    <3> QED
      BY ZenonT(60), <1>12, <3>1 DEF Revertir, Cuentas
  <2>3. leido' \in [Actores -> Lecturas]
    <3>1. cxc.monto + leido[a].abono \in Nat /\ cxc.pagado \in Nat
      BY <2>1 DEF Cuentas
    <3> QED
      BY <1>12, <3>1 DEF Revertir, Lecturas
  <2> QED
    BY <1>12, <2>2, <2>3 DEF Revertir
<1>13. ASSUME NEW a \in Devolvedores, NEW d \in Devoluciones, obj[a] = d, Revertir2(a)
       PROVE  TypeOK'
  BY <1>13 DEF Revertir2, EstadoAjuste, Cuentas
<1>r. ASSUME NEW a \in Devolvedores, RevertirFalla(a) PROVE TypeOK'
  BY <1>r DEF RevertirFalla, Falla
<1>14. ASSUME NEW a \in Devolvedores, NEW d \in Devoluciones, obj[a] = d, Borrar(a)
       PROVE  TypeOK'
  BY <1>14 DEF Borrar, Registros
<1>15. ASSUME NEW a \in Devolvedores, NEW d \in Devoluciones, obj[a] = d, Completar(a)
       PROVE  TypeOK'
  BY ZenonT(60), <1>15 DEF Completar, Registros
<1>16. ASSUME NEW v \in Anuladores, Contar(v) PROVE TypeOK'
  BY <1>16 DEF Contar
<1>17. ASSUME NEW v \in Anuladores, Flip(v) PROVE TypeOK'
  BY <1>17 DEF Flip
<1>18. ASSUME NEW v \in Anuladores, Recontar(v) PROVE TypeOK'
  BY <1>18 DEF Recontar
<1>19. ASSUME NEW v \in Anuladores, Cancelar(v) PROVE TypeOK'
  BY ZenonT(60), <1>19 DEF Cancelar, Cuentas
<1>20. ASSUME NEW v \in Anuladores, Reversar(v) PROVE TypeOK'
  BY <1>20 DEF Reversar, Falla
<1>21. ASSUME NEW v \in Anuladores, Restaurar(v) PROVE TypeOK'
  BY <1>21 DEF Restaurar, Cuentas
<1>22. ASSUME NEW v \in Anuladores, DeshacerFlip(v) PROVE TypeOK'
  BY <1>22 DEF DeshacerFlip
<1>23. ASSUME NEW a \in Actores, Corte(a) PROVE TypeOK'
  BY <1>23 DEF Corte
<1>24. CASE UNCHANGED vars
  BY <1>24 DEF vars
<1> QED
  BY <1>d, <1>o, <1>1, <1>2, <1>3, <1>4, <1>5, <1>6, <1>7, <1>8, <1>9, <1>10, <1>11, <1>12,
     <1>13, <1>r, <1>14, <1>15, <1>16, <1>17, <1>18, <1>19, <1>20, <1>21, <1>22, <1>23, <1>24
     DEF Next, Paga, Devuelve, Anula

\* Every step leaves each actor at its own work.
LEMMA OficioPaso ==
    ASSUME Supuestos, Bien, [Next]_vars PROVE Oficio'
<1>t. TypeOK /\ Oficio
  BY DEF Bien
<1>s. /\ Pagos \subseteq Actores /\ Devolvedores \subseteq Actores /\ Anuladores \subseteq Actores
      /\ Devoluciones \subseteq Devolvedores /\ Reanudadores \subseteq Devolvedores
      /\ \A p \in Pagos : p \notin Devolvedores /\ p \notin Anuladores
      /\ \A a \in Devolvedores : a \notin Anuladores
      /\ \A d \in Devoluciones : d \notin Reanudadores
      /\ \A a \in Devolvedores : a \in Devoluciones \/ a \in Reanudadores
      /\ Devolvedores = Devoluciones \cup Reanudadores
  BY Conjuntos DEF Devolvedores
<1>p. pc \in [Actores -> Pasos] /\ obj \in [Devolvedores -> Devoluciones]
  BY <1>t, <1>s DEF TypeOK
<1> USE <1>t, <1>s, <1>p DEF Oficio, Fuera, Va, PasosPago, PasosDevolucion, PasosVoid
<1>1. ASSUME NEW p \in Pagos, LeerPago(p) PROVE Oficio'
  BY <1>1 DEF LeerPago
<1>2. ASSUME NEW p \in Pagos, EscribirPago(p) PROVE Oficio'
  BY <1>2 DEF EscribirPago
<1>3. ASSUME NEW p \in Pagos, Asentar(p) PROVE Oficio'
  BY <1>3 DEF Asentar
<1>4. ASSUME NEW d \in Devoluciones, Pedir(d) PROVE Oficio'
  BY <1>4 DEF Pedir
<1>5. ASSUME NEW d \in Devoluciones, Crear(d) PROVE Oficio'
  BY <1>5 DEF Crear
<1>6. ASSUME NEW d \in Devoluciones, Revisar(d) PROVE Oficio'
  BY <1>6 DEF Revisar
<1>7. ASSUME NEW a \in Reanudadores, Reanudar(a) PROVE Oficio'
  BY <1>7 DEF Reanudar
<1>8. ASSUME NEW a \in Devolvedores, Leer(a) PROVE Oficio'
  BY <1>8 DEF Leer, TrasCartera
<1>9. ASSUME NEW a \in Devolvedores, Escribir(a) PROVE Oficio'
  BY <1>9 DEF Escribir, TrasCartera, Rendirse
<1>10. ASSUME NEW a \in Devolvedores, Nota(a) PROVE Oficio'
  BY <1>10 DEF Nota, Falla
<1>11. ASSUME NEW a \in Devolvedores, Guardar(a) PROVE Oficio'
  BY <1>11 DEF Guardar
<1>12. ASSUME NEW a \in Devolvedores, Revertir(a) PROVE Oficio'
  BY <1>12 DEF Revertir
<1>13. ASSUME NEW a \in Devolvedores, Revertir2(a) PROVE Oficio'
  BY <1>13 DEF Revertir2
<1>r. ASSUME NEW a \in Devolvedores, RevertirFalla(a) PROVE Oficio'
  BY <1>r DEF RevertirFalla, Falla
<1>14. ASSUME NEW a \in Devolvedores, Borrar(a) PROVE Oficio'
  BY <1>14 DEF Borrar
<1>15. ASSUME NEW a \in Devolvedores, Completar(a) PROVE Oficio'
  BY <1>15 DEF Completar
<1>16. ASSUME NEW v \in Anuladores, Contar(v) PROVE Oficio'
  BY <1>16 DEF Contar
<1>17. ASSUME NEW v \in Anuladores, Flip(v) PROVE Oficio'
  BY <1>17 DEF Flip
<1>18. ASSUME NEW v \in Anuladores, Recontar(v) PROVE Oficio'
  BY <1>18 DEF Recontar
<1>19. ASSUME NEW v \in Anuladores, Cancelar(v) PROVE Oficio'
  BY <1>19 DEF Cancelar
<1>20. ASSUME NEW v \in Anuladores, Reversar(v) PROVE Oficio'
  BY <1>20 DEF Reversar, Falla
<1>21. ASSUME NEW v \in Anuladores, Restaurar(v) PROVE Oficio'
  BY <1>21 DEF Restaurar
<1>22. ASSUME NEW v \in Anuladores, DeshacerFlip(v) PROVE Oficio'
  BY <1>22 DEF DeshacerFlip
<1>23. ASSUME NEW a \in Actores, Corte(a) PROVE Oficio'
  BY <1>23 DEF Corte
<1>24. CASE UNCHANGED vars
  BY <1>24 DEF vars
<1> QED
  BY <1>1, <1>2, <1>3, <1>4, <1>5, <1>6, <1>7, <1>8, <1>9, <1>10, <1>11, <1>12, <1>13,
     <1>r, <1>14, <1>15, <1>16, <1>17, <1>18, <1>19, <1>20, <1>21, <1>22, <1>23, <1>24
     DEF Next, Paga, Devuelve, Anula

LEMMA CabePaso ==
    ASSUME Supuestos, Bien, [Next]_vars PROVE Cabe'
<1>t. TypeOK /\ Cabe
  BY DEF Bien
<1>s. /\ Pagos \subseteq Actores /\ Devolvedores \subseteq Actores /\ Anuladores \subseteq Actores
      /\ Devoluciones \subseteq Devolvedores /\ Reanudadores \subseteq Devolvedores
      /\ \A p \in Pagos : p \notin Devolvedores /\ p \notin Anuladores
      /\ \A a \in Devolvedores : a \notin Anuladores
  BY Conjuntos
<1>p. /\ pc \in [Actores -> Pasos] /\ leido \in [Actores -> Lecturas]
      /\ \A a \in Devolvedores : obj[a] \in Devoluciones
  BY <1>t DEF TypeOK, Devolvedores
<1> USE <1>t, <1>s, <1>p DEF Cabe, Va
<1>1. ASSUME NEW p \in Pagos, LeerPago(p) PROVE Cabe'
  BY <1>1 DEF LeerPago
<1>2. ASSUME NEW p \in Pagos, EscribirPago(p) PROVE Cabe'
  BY <1>2 DEF EscribirPago
<1>3. ASSUME NEW p \in Pagos, Asentar(p) PROVE Cabe'
  BY <1>3 DEF Asentar
<1>4. ASSUME NEW d \in Devoluciones, Pedir(d) PROVE Cabe'
  BY <1>4 DEF Pedir
<1>5. ASSUME NEW d \in Devoluciones, Crear(d) PROVE Cabe'
  BY <1>5 DEF Crear
<1>6. ASSUME NEW d \in Devoluciones, Revisar(d) PROVE Cabe'
  BY <1>6 DEF Revisar
<1>7. ASSUME NEW a \in Reanudadores, Reanudar(a) PROVE Cabe'
  BY <1>7 DEF Reanudar
<1>8. ASSUME NEW a \in Devolvedores, Leer(a) PROVE Cabe'
  <2>1. Abono(obj[a]) > 0 => Abono(obj[a]) + cxc.pagado <= cxc.monto
    BY <1>t, <1>p, AbonoCabe
  <2>2. /\ pc'[a] = "escribir" =>
             leido'[a].abono + leido'[a].pagado <= leido'[a].monto
        /\ \A b \in Devolvedores : b # a => pc'[b] = pc[b] /\ leido'[b] = leido[b]
    BY <1>8, <2>1 DEF Leer, TrasCartera
  <2> QED
    BY <2>2
<1>9. ASSUME NEW a \in Devolvedores, Escribir(a) PROVE Cabe'
  BY <1>9 DEF Escribir, TrasCartera, Rendirse
<1>10. ASSUME NEW a \in Devolvedores, Nota(a) PROVE Cabe'
  BY <1>10 DEF Nota, Falla
<1>11. ASSUME NEW a \in Devolvedores, Guardar(a) PROVE Cabe'
  BY <1>11 DEF Guardar
<1>12. ASSUME NEW a \in Devolvedores, Revertir(a) PROVE Cabe'
  BY <1>12 DEF Revertir
<1>13. ASSUME NEW a \in Devolvedores, Revertir2(a) PROVE Cabe'
  BY <1>13 DEF Revertir2
<1>r. ASSUME NEW a \in Devolvedores, RevertirFalla(a) PROVE Cabe'
  BY <1>r DEF RevertirFalla, Falla
<1>14. ASSUME NEW a \in Devolvedores, Borrar(a) PROVE Cabe'
  BY <1>14 DEF Borrar
<1>15. ASSUME NEW a \in Devolvedores, Completar(a) PROVE Cabe'
  BY <1>15 DEF Completar
<1>16. ASSUME NEW v \in Anuladores, Contar(v) PROVE Cabe'
  BY <1>16 DEF Contar
<1>17. ASSUME NEW v \in Anuladores, Flip(v) PROVE Cabe'
  BY <1>17 DEF Flip
<1>18. ASSUME NEW v \in Anuladores, Recontar(v) PROVE Cabe'
  BY <1>18 DEF Recontar
<1>19. ASSUME NEW v \in Anuladores, Cancelar(v) PROVE Cabe'
  BY <1>19 DEF Cancelar
<1>20. ASSUME NEW v \in Anuladores, Reversar(v) PROVE Cabe'
  BY <1>20 DEF Reversar, Falla
<1>21. ASSUME NEW v \in Anuladores, Restaurar(v) PROVE Cabe'
  BY <1>21 DEF Restaurar
<1>22. ASSUME NEW v \in Anuladores, DeshacerFlip(v) PROVE Cabe'
  BY <1>22 DEF DeshacerFlip
<1>23. ASSUME NEW a \in Actores, Corte(a) PROVE Cabe'
  BY <1>23 DEF Corte
<1>24. CASE UNCHANGED vars
  BY <1>24 DEF vars
<1> QED
  BY <1>1, <1>2, <1>3, <1>4, <1>5, <1>6, <1>7, <1>8, <1>9, <1>10, <1>11, <1>12, <1>13,
     <1>r, <1>14, <1>15, <1>16, <1>17, <1>18, <1>19, <1>20, <1>21, <1>22, <1>23, <1>24
     DEF Next, Paga, Devuelve, Anula

LEMMA BienPaso ==
    ASSUME Supuestos, Bien, [Next]_vars PROVE Bien'
BY TiposPaso, OficioPaso, CabePaso DEF Bien

-----------------------------------------------------------------------------
(* The payments *)

\* A payment is in the account where it is posted.
AbonoEnSuSitio == \A p \in Pagos :
    /\ pc[p] = "asentar" => leido[p].abono \in DOMAIN cxc.pagos /\ cxc.pagos[leido[p].abono] = p
    /\ asentado[p] # 0 => asentado[p] \in DOMAIN cxc.pagos /\ cxc.pagos[asentado[p]] = p
    /\ pc[p] \in {"asentar", "fin"} => p \in Range(cxc.pagos)

\* Only a payment that is written changes what was paid.
LEMMA SoloPagosPagan ==
    ASSUME Supuestos, Bien, [Next]_vars
    PROVE  \/ \E p \in Pagos : LeerPago(p) \/ EscribirPago(p) \/ Asentar(p)
           \/ /\ cxc'.pagos = cxc.pagos /\ cxc'.pagado = cxc.pagado
              /\ asentado' = asentado
              /\ \A p \in Pagos : leido'[p] = leido[p] /\ pc'[p] \in {pc[p], "error"}
<1> DEFINE Quieto == /\ cxc'.pagos = cxc.pagos /\ cxc'.pagado = cxc.pagado
                     /\ asentado' = asentado
                     /\ \A p \in Pagos : leido'[p] = leido[p] /\ pc'[p] \in {pc[p], "error"}
<1>s. /\ Pagos \subseteq Actores /\ Devolvedores \subseteq Actores /\ Anuladores \subseteq Actores
      /\ Devoluciones \subseteq Devolvedores /\ Reanudadores \subseteq Devolvedores
      /\ \A p \in Pagos : p \notin Devolvedores /\ p \notin Anuladores
      /\ \A p \in Pagos : p \notin Reanudadores
  BY Conjuntos
<1>p. pc \in [Actores -> Pasos] /\ leido \in [Actores -> Lecturas] /\ cxc \in Cuentas
  BY DEF Bien, TypeOK
<1> USE <1>s, <1>p DEF Va
<1>1. ASSUME NEW d \in Devoluciones, Pedir(d) PROVE Quieto
  BY <1>1 DEF Pedir
<1>2. ASSUME NEW d \in Devoluciones, Crear(d) PROVE Quieto
  BY <1>2 DEF Crear
<1>3. ASSUME NEW d \in Devoluciones, Revisar(d) PROVE Quieto
  BY <1>3 DEF Revisar
<1>4. ASSUME NEW a \in Reanudadores, Reanudar(a) PROVE Quieto
  BY <1>4 DEF Reanudar
<1>5. ASSUME NEW a \in Devolvedores, Leer(a) PROVE Quieto
  BY <1>5 DEF Leer, TrasCartera
<1>6. ASSUME NEW a \in Devolvedores, Escribir(a) PROVE Quieto
  BY <1>6 DEF Escribir, TrasCartera, Rendirse, Cuentas
<1>7. ASSUME NEW a \in Devolvedores, Nota(a) PROVE Quieto
  BY <1>7 DEF Nota, Falla
<1>8. ASSUME NEW a \in Devolvedores, Guardar(a) PROVE Quieto
  BY <1>8 DEF Guardar
<1>9. ASSUME NEW a \in Devolvedores, Revertir(a) PROVE Quieto
  BY <1>9 DEF Revertir, Cuentas
<1>10. ASSUME NEW a \in Devolvedores, Revertir2(a) PROVE Quieto
  BY <1>10 DEF Revertir2, Cuentas
<1>r. ASSUME NEW a \in Devolvedores, RevertirFalla(a) PROVE Quieto
  BY <1>r DEF RevertirFalla, Falla
<1>11. ASSUME NEW a \in Devolvedores, Borrar(a) PROVE Quieto
  BY <1>11 DEF Borrar
<1>12. ASSUME NEW a \in Devolvedores, Completar(a) PROVE Quieto
  BY <1>12 DEF Completar
<1>13. ASSUME NEW v \in Anuladores, Contar(v) PROVE Quieto
  BY <1>13 DEF Contar
<1>14. ASSUME NEW v \in Anuladores, Flip(v) PROVE Quieto
  BY <1>14 DEF Flip
<1>15. ASSUME NEW v \in Anuladores, Recontar(v) PROVE Quieto
  BY <1>15 DEF Recontar
<1>16. ASSUME NEW v \in Anuladores, Cancelar(v) PROVE Quieto
  BY <1>16 DEF Cancelar, Cuentas
<1>17. ASSUME NEW v \in Anuladores, Reversar(v) PROVE Quieto
  BY <1>17 DEF Reversar, Falla
<1>18. ASSUME NEW v \in Anuladores, Restaurar(v) PROVE Quieto
  BY <1>18 DEF Restaurar, Cuentas
<1>19. ASSUME NEW v \in Anuladores, DeshacerFlip(v) PROVE Quieto
  BY <1>19 DEF DeshacerFlip
<1>20. ASSUME NEW a \in Actores, Corte(a) PROVE Quieto
  BY <1>20 DEF Corte
<1>21. CASE UNCHANGED vars
  BY <1>21 DEF vars
<1> QED
  BY <1>1, <1>2, <1>3, <1>4, <1>5, <1>6, <1>7, <1>8, <1>9, <1>10, <1>r, <1>11, <1>12, <1>13,
     <1>14, <1>15, <1>16, <1>17, <1>18, <1>19, <1>20, <1>21
     DEF Next, Paga, Devuelve, Anula

LEMMA SitioPaso ==
    ASSUME Supuestos, Bien, AbonoEnSuSitio, [Next]_vars PROVE AbonoEnSuSitio'
<1>s. Pagos \subseteq Actores
  BY Conjuntos
<1>p. /\ pc \in [Actores -> Pasos] /\ leido \in [Actores -> Lecturas] /\ cxc \in Cuentas
      /\ cxc.pagos \in Seq(Pagos) /\ asentado \in [Pagos -> Nat]
  BY DEF Bien, TypeOK, Cuentas
<1> USE <1>s, <1>p
<1>1. CASE /\ cxc'.pagos = cxc.pagos /\ asentado' = asentado
           /\ \A p \in Pagos : leido'[p] = leido[p] /\ pc'[p] \in {pc[p], "error"}
  BY <1>1 DEF AbonoEnSuSitio, Range
<1>2. ASSUME NEW p \in Pagos, LeerPago(p) PROVE AbonoEnSuSitio'
  BY <1>2 DEF LeerPago, Va, AbonoEnSuSitio, Range
<1>3. ASSUME NEW p \in Pagos, EscribirPago(p) PROVE AbonoEnSuSitio'
  <2> DEFINE Cabia == cxc.estado # "void" /\ cxc.pagado = leido[p].pagado
  <2>1. CASE ~Cabia
    BY <1>3, <2>1 DEF EscribirPago, Va, AbonoEnSuSitio
  <2>2. CASE Cabia
    <3> DEFINE n == Len(cxc.pagos)
    <3>1. /\ cxc'.pagos = Append(cxc.pagos, p) /\ leido' = [leido EXCEPT ![p].abono = n + 1]
          /\ pc' = [pc EXCEPT ![p] = "asentar"] /\ asentado' = asentado
      BY <1>3, <2>2 DEF EscribirPago, Va, Cuentas
    <3>2. /\ n \in Nat /\ DOMAIN cxc.pagos = 1..n /\ DOMAIN cxc'.pagos = 1..(n + 1)
          /\ \A i \in 1..n : cxc'.pagos[i] = cxc.pagos[i]
          /\ cxc'.pagos[n + 1] = p
      BY <3>1
    <3>3. leido'[p].abono = n + 1 /\ \A q \in Pagos : q # p => leido'[q] = leido[q]
      BY <3>1 DEF Lecturas
    <3> HIDE DEF n
    <3>4. Range(cxc.pagos) \subseteq Range(cxc'.pagos) /\ p \in Range(cxc'.pagos)
      BY <3>2 DEF Range
    <3>5. \A i \in DOMAIN cxc.pagos : i \in DOMAIN cxc'.pagos /\ cxc'.pagos[i] = cxc.pagos[i]
      BY <3>2
    <3>6. n + 1 \in DOMAIN cxc'.pagos
      BY <3>2
    <3> QED
      BY SMTT(30), <3>1, <3>2, <3>3, <3>4, <3>5, <3>6 DEF AbonoEnSuSitio
  <2> QED
    BY <2>1, <2>2
<1>4. ASSUME NEW p \in Pagos, Asentar(p) PROVE AbonoEnSuSitio'
  <2>1. /\ leido[p].abono \in DOMAIN cxc.pagos /\ cxc.pagos[leido[p].abono] = p
        /\ p \in Range(cxc.pagos)
    BY <1>4 DEF Asentar, AbonoEnSuSitio
  <2> QED
    BY <1>4, <2>1 DEF Asentar, Va, AbonoEnSuSitio
<1> QED
  BY <1>1, <1>2, <1>3, <1>4, SoloPagosPagan

\* The account has paid the sum of its payments.
LEMMA PagadoPaso ==
    ASSUME Supuestos, Bien, cxc.pagado = SumaPagos, [Next]_vars
    PROVE  (cxc.pagado = SumaPagos)'
<1>1. CASE cxc'.pagos = cxc.pagos /\ cxc'.pagado = cxc.pagado
  BY <1>1 DEF SumaPagos
<1>2. ASSUME NEW p \in Pagos, EscribirPago(p), cxc' # cxc PROVE (cxc.pagado = SumaPagos)'
  <2> DEFINE n == Len(cxc.pagos)
             f == [i \in DOMAIN cxc.pagos |-> Importe[cxc.pagos[i]]]
             g == [i \in DOMAIN cxc'.pagos |-> Importe[cxc'.pagos[i]]]
  <2>1. cxc.pagos \in Seq(Pagos) /\ Importe \in [Pagos -> Nat] /\ cxc.pagado \in Nat
    BY DEF Bien, TypeOK, Cuentas, Supuestos
  <2>2. cxc'.pagos = Append(cxc.pagos, p) /\ cxc'.pagado = cxc.pagado + Importe[p]
    BY <1>2 DEF EscribirPago, Bien, TypeOK, Cuentas
  <2>3. /\ n \in Nat /\ DOMAIN cxc.pagos = 1..n /\ DOMAIN cxc'.pagos = 1..(n + 1)
        /\ \A i \in 1..n : cxc'.pagos[i] = cxc.pagos[i] /\ cxc.pagos[i] \in Pagos
        /\ cxc'.pagos[n + 1] = p
    BY <2>1, <2>2
  <2>4. /\ \A i \in 1..n : f[i] \in Int /\ g[i] = f[i]
        /\ \A i \in 1..(n + 1) : g[i] \in Int
        /\ g[n + 1] = Importe[p]
    <3>1. \A i \in 1..n : cxc.pagos[i] \in Pagos /\ cxc'.pagos[i] = cxc.pagos[i]
      BY <2>3
    <3>2. \A i \in 1..n : f[i] = Importe[cxc.pagos[i]] /\ Importe[cxc.pagos[i]] \in Nat
      BY <2>1, <2>3, <3>1
    <3>3. \A i \in 1..(n + 1) : g[i] = Importe[cxc'.pagos[i]]
      BY <2>3
    <3>4. \A i \in 1..n : i \in 1..(n + 1)
      BY <2>3
    <3>5. \A i \in 1..(n + 1) : i = n + 1 \/ i \in 1..n
      BY <2>3
    <3>6. n + 1 \in 1..(n + 1) /\ Importe[p] \in Nat
      BY <2>1, <2>3
    <3> HIDE DEF f, g, n
    <3> QED
      BY SMTT(30), <2>3, <3>1, <3>2, <3>3, <3>4, <3>5, <3>6
  <2>5. SumaPagos = SumFunctionOnSet(f, 1..n) /\ SumaPagos' = SumFunctionOnSet(g, 1..(n + 1))
    BY <2>3 DEF SumaPagos
  <2> HIDE DEF f, g, n
  <2>6. IsFiniteSet(1..n) /\ IsFiniteSet(1..(n + 1))
    BY <2>3, FS_Interval
  <2>7. (1..(n + 1)) \ {n + 1} = 1..n /\ n + 1 \in 1..(n + 1)
    BY <2>3
  <2>8. SumFunctionOnSet(g, 1..(n + 1)) = g[n + 1] + SumFunctionOnSet(g, (1..(n + 1)) \ {n + 1})
    BY <2>4, <2>6, <2>7, SumaQuita
  <2>9. SumFunctionOnSet(g, 1..n) = SumFunctionOnSet(f, 1..n)
    BY <2>4, <2>6, SumaIgual
  <2>10. Importe[p] \in Nat
    BY <2>1
  <2>11. SumaPagos \in Nat /\ SumaPagos' = Importe[p] + SumaPagos
    BY <2>1, <2>4, <2>5, <2>7, <2>8, <2>9
  <2>12. cxc'.pagado = SumaPagos'
    BY <2>1, <2>2, <2>10, <2>11
  <2> QED
    BY <2>12
<1>3. ASSUME NEW p \in Pagos, LeerPago(p) \/ Asentar(p) \/ (EscribirPago(p) /\ cxc' = cxc)
      PROVE  cxc'.pagos = cxc.pagos /\ cxc'.pagado = cxc.pagado
  BY <1>3 DEF LeerPago, Asentar
<1> QED
  BY <1>1, <1>2, <1>3, SoloPagosPagan

LEMMA PagosInicial ==
    ASSUME Supuestos, Init PROVE AbonoEnSuSitio /\ cxc.pagado = SumaPagos
<1>1. AbonoEnSuSitio
  BY Conjuntos DEF Init, AbonoEnSuSitio
<1>2. cxc.pagado = 0 /\ DOMAIN cxc.pagos = {}
  BY DEF Init
<1>3. IsFiniteSet(DOMAIN cxc.pagos)
  BY <1>2, FS_EmptySet
<1>4. SumaPagos = 0
  BY <1>2, <1>3, SumaDeCeros DEF SumaPagos
<1> QED
  BY <1>1, <1>2, <1>4

\* The receivable keeps its types, whatever fails and whoever is killed.
THEOREM TiposSiempre ==
    ASSUME Supuestos
    PROVE  Spec => []TypeOK
<1>1. Init => Bien
  BY BienInicial
<1>2. Bien /\ [Next]_vars => Bien'
  BY BienPaso
<1>3. Bien => TypeOK
  BY DEF Bien
<1> QED
  BY <1>1, <1>2, <1>3, PTL DEF Spec

\* No payment is lost or written over by another one, a return or a void, however
\* many cross and whoever is killed: the account has paid exactly what its payments
\* say and each is posted under its own position (addReceivablePayment).
THEOREM AbonosSiempreCompletos ==
    ASSUME Supuestos
    PROVE  Spec => []AbonosCompletos
<1> DEFINE IInv == Bien /\ AbonoEnSuSitio /\ cxc.pagado = SumaPagos
<1>1. Init => IInv
  BY BienInicial, PagosInicial
<1>2. IInv /\ [Next]_vars => IInv'
  BY BienPaso, SitioPaso, PagadoPaso
<1>3. IInv => AbonosCompletos
  BY DEF AbonosCompletos, AbonoEnSuSitio
<1> HIDE DEF IInv
<1> QED
  BY <1>1, <1>2, <1>3, PTL DEF Spec

-----------------------------------------------------------------------------
(* The turn of a return *)

Trabajo == {"revisar", "leer", "escribir", "guardar", "nota", "revertir", "revertir2",
    "borrar", "completar"}

\* A request that has not written its record has none, and whoever works on a
\* return holds the turn of its record, which is in course.
EnTurno ==
    /\ \A d \in Devoluciones : pc[d] \in {"libre", "crear"} => reg[d].estado = "no"
    /\ \A a \in Devolvedores : pc[a] \in Trabajo =>
          reg[obj[a]].estado = "en_curso" /\ reg[obj[a]].turno = a

LEMMA TurnoPaso ==
    ASSUME Supuestos, Bien, EnTurno, [Next]_vars PROVE EnTurno'
<1>s. /\ Pagos \subseteq Actores /\ Devolvedores \subseteq Actores /\ Anuladores \subseteq Actores
      /\ Devoluciones \subseteq Devolvedores /\ Reanudadores \subseteq Devolvedores
      /\ \A p \in Pagos : p \notin Devolvedores /\ p \notin Anuladores
      /\ \A a \in Devolvedores : a \notin Anuladores
      /\ \A d \in Devoluciones : d \notin Reanudadores
      /\ \A a \in Actores : a # Nadie
  BY Conjuntos
<1>p. /\ pc \in [Actores -> Pasos] /\ reg \in [Devoluciones -> Registros]
      /\ obj \in [Devolvedores -> Devoluciones]
      /\ \A a \in Devolvedores : obj[a] \in Devoluciones
      /\ \A d \in Devoluciones : obj[d] = d
  BY DEF Bien, TypeOK, Devolvedores, Oficio
<1>e. \A d \in Devoluciones : pc[d] \in {"libre", "crear"} => reg[d].estado = "no"
  BY DEF EnTurno
<1>f. \A a \in Devolvedores : pc[a] \in Trabajo =>
          reg[obj[a]].estado = "en_curso" /\ reg[obj[a]].turno = a
  BY DEF EnTurno
<1> USE <1>s, <1>p, <1>e, <1>f DEF Va
<1>1. ASSUME NEW p \in Pagos, LeerPago(p) PROVE EnTurno'
  BY <1>1 DEF LeerPago, EnTurno, Trabajo
<1>2. ASSUME NEW p \in Pagos, EscribirPago(p) PROVE EnTurno'
  BY <1>2 DEF EscribirPago, EnTurno, Trabajo
<1>3. ASSUME NEW p \in Pagos, Asentar(p) PROVE EnTurno'
  BY <1>3 DEF Asentar, EnTurno, Trabajo
<1>4. ASSUME NEW d \in Devoluciones, Pedir(d) PROVE EnTurno'
  BY <1>4 DEF Pedir, EnTurno, Trabajo
<1>5. ASSUME NEW d \in Devoluciones, Crear(d) PROVE EnTurno'
  BY <1>5 DEF Crear, EnTurno, Trabajo, Registros
<1>6. ASSUME NEW d \in Devoluciones, Revisar(d) PROVE EnTurno'
  BY <1>6 DEF Revisar, EnTurno, Trabajo, Registros
<1>7. ASSUME NEW a \in Reanudadores, Reanudar(a) PROVE EnTurno'
  BY <1>7 DEF Reanudar, EnTurno, Trabajo, Registros
<1>8. ASSUME NEW a \in Devolvedores, NEW d \in Devoluciones, obj[a] = d, Leer(a)
      PROVE  EnTurno'
  BY <1>8 DEF Leer, TrasCartera, EnTurno, Trabajo
<1>9. ASSUME NEW a \in Devolvedores, NEW d \in Devoluciones, obj[a] = d, Escribir(a)
      PROVE  EnTurno'
  BY <1>9 DEF Escribir, TrasCartera, Rendirse, EnTurno, Trabajo, Registros
<1>10. ASSUME NEW a \in Devolvedores, NEW d \in Devoluciones, obj[a] = d, Nota(a)
       PROVE  EnTurno'
  BY <1>10 DEF Nota, Falla, EnTurno, Trabajo, Registros
<1>11. ASSUME NEW a \in Devolvedores, NEW d \in Devoluciones, obj[a] = d, Guardar(a)
       PROVE  EnTurno'
  BY <1>11 DEF Guardar, EnTurno, Trabajo, Registros
<1>12. ASSUME NEW a \in Devolvedores, NEW d \in Devoluciones, obj[a] = d, Revertir(a)
       PROVE  EnTurno'
  BY <1>12 DEF Revertir, EnTurno, Trabajo
<1>13. ASSUME NEW a \in Devolvedores, NEW d \in Devoluciones, obj[a] = d, Revertir2(a)
       PROVE  EnTurno'
  BY <1>13 DEF Revertir2, EnTurno, Trabajo
<1>r. ASSUME NEW a \in Devolvedores, NEW d \in Devoluciones, obj[a] = d, RevertirFalla(a)
      PROVE  EnTurno'
  BY <1>r DEF RevertirFalla, Falla, EnTurno, Trabajo
<1>14. ASSUME NEW a \in Devolvedores, NEW d \in Devoluciones, obj[a] = d, Borrar(a)
       PROVE  EnTurno'
  BY <1>14 DEF Borrar, EnTurno, Trabajo, Registros
<1>15. ASSUME NEW a \in Devolvedores, NEW d \in Devoluciones, obj[a] = d, Completar(a)
       PROVE  EnTurno'
  BY <1>15 DEF Completar, EnTurno, Trabajo, Registros
<1>16. ASSUME NEW v \in Anuladores, Contar(v) PROVE EnTurno'
  BY <1>16 DEF Contar, EnTurno, Trabajo
<1>17. ASSUME NEW v \in Anuladores, Flip(v) PROVE EnTurno'
  BY <1>17 DEF Flip, EnTurno, Trabajo
<1>18. ASSUME NEW v \in Anuladores, Recontar(v) PROVE EnTurno'
  BY <1>18 DEF Recontar, EnTurno, Trabajo
<1>19. ASSUME NEW v \in Anuladores, Cancelar(v) PROVE EnTurno'
  BY <1>19 DEF Cancelar, EnTurno, Trabajo
<1>20. ASSUME NEW v \in Anuladores, Reversar(v) PROVE EnTurno'
  BY <1>20 DEF Reversar, Falla, EnTurno, Trabajo
<1>21. ASSUME NEW v \in Anuladores, Restaurar(v) PROVE EnTurno'
  BY <1>21 DEF Restaurar, EnTurno, Trabajo
<1>22. ASSUME NEW v \in Anuladores, DeshacerFlip(v) PROVE EnTurno'
  BY <1>22 DEF DeshacerFlip, EnTurno, Trabajo
<1>23. ASSUME NEW a \in Actores, Corte(a) PROVE EnTurno'
  BY <1>23 DEF Corte, EnTurno, Trabajo
<1>24. CASE UNCHANGED vars
  BY <1>24 DEF vars, EnTurno, Trabajo
<1> QED
  BY <1>p, <1>1, <1>2, <1>3, <1>4, <1>5, <1>6, <1>7, <1>8, <1>9, <1>10, <1>11, <1>12,
     <1>13, <1>r, <1>14, <1>15, <1>16, <1>17, <1>18, <1>19, <1>20, <1>21, <1>22, <1>23, <1>24
     DEF Next, Paga, Devuelve, Anula


-----------------------------------------------------------------------------
(* What a return lowers *)

\* A void that cancels the debt, or that did, leaves no return at work but one
\* that has not looked at the sale again.
Quieto == \A d \in Devoluciones :
    reg[d].estado \in {"en_curso", "completa"} => pc[d] = "revisar"

\* Before its adjustment, and once withdrawn, a return has lowered nothing; once
\* adjusted, it has lowered what its record says.
AlDia == \A d \in Devoluciones :
    /\ reg[d].estado \in {"no", "retirada"} \/ pc[d] = "revisar" => cxc.ajustes[d] = 0
    /\ reg[d].estado = "no" \/ pc[d] = "revisar" => ~reg[d].hecha
    /\ reg[d].hecha => cxc.ajustes[d] = reg[d].abono

\* What whoever works on a return carries agrees with what it has lowered.
LlevaDe(a, d) ==
    /\ pc[a] \in {"leer", "escribir", "guardar", "revertir", "revertir2", "borrar"} => ~reg[d].hecha
    /\ pc[a] \in {"guardar", "revertir"} => leido[a].abono = cxc.ajustes[d]
    /\ pc[a] = "nota" /\ a \in Devoluciones =>
          ~reg[d].hecha /\ leido[a].abono = cxc.ajustes[d]
    /\ pc[a] \in {"escribir", "revertir2", "borrar"} => cxc.ajustes[d] = 0
Lleva == \A a \in Devolvedores : LlevaDe(a, obj[a])

\* With the account cancelled nobody works on a return.
SinVoid == cxc.estado = "void" => Quieto

\* What each step writes in the account.
LEMMA PagoNoAjusta ==
    ASSUME TypeOK, NEW p \in Pagos, EscribirPago(p)
    PROVE  cxc'.ajustes = cxc.ajustes /\ cxc'.monto = cxc.monto
BY DEF TypeOK, Cuentas, EscribirPago

\* The condition of the update of a return.
NadaCambio(a) ==
    cxc.estado # "void" /\ cxc.monto = leido[a].monto /\ cxc.pagado = leido[a].pagado

LEMMA EscribirAjusta ==
    ASSUME TypeOK, NEW a \in Devolvedores, NEW d \in Devoluciones, obj[a] = d, Escribir(a)
    PROVE  /\ NadaCambio(a) =>
                 /\ cxc'.ajustes = [cxc.ajustes EXCEPT ![d] = leido[a].abono]
                 /\ cxc'.monto = cxc.monto - leido[a].abono
                 /\ reg' = reg
                 /\ pc' = [pc EXCEPT ![a] = IF a \in Devoluciones THEN "nota" ELSE "guardar"]
           /\ ~NadaCambio(a) => cxc' = cxc
BY DEF TypeOK, Cuentas, Escribir, NadaCambio, TrasCartera, Va

LEMMA RevertirAjusta ==
    ASSUME TypeOK, NEW a \in Actores, NEW d \in Devoluciones, obj[a] = d, Revertir(a)
    PROVE  /\ cxc.ajustes[d] > 0 =>
                 /\ cxc'.ajustes = [cxc.ajustes EXCEPT ![d] = 0]
                 /\ cxc'.monto = cxc.monto + leido[a].abono
                 /\ pc' = [pc EXCEPT ![a] = "revertir2"]
                 /\ \A b \in Actores : leido'[b].abono = leido[b].abono
           /\ ~(cxc.ajustes[d] > 0) => UNCHANGED <<cxc, leido>> /\ pc' = [pc EXCEPT ![a] = "borrar"]
<1>1. /\ leido \in [Actores -> Lecturas] /\ cxc \in Cuentas
      /\ pc \in [Actores -> Pasos]
  BY DEF TypeOK
<1>2. cxc.ajustes[d] > 0 => \A b \in Actores : leido'[b].abono = leido[b].abono
  BY <1>1 DEF Revertir, Lecturas
<1> QED
  BY <1>1, <1>2 DEF Cuentas, Revertir, Va

LEMMA CancelarNoAjusta ==
    ASSUME TypeOK, NEW v \in Anuladores, Cancelar(v)
    PROVE  cxc'.ajustes = cxc.ajustes /\ cxc'.monto = cxc.monto
BY DEF TypeOK, Cuentas, Cancelar

LEMMA AlDiaPaso ==
    ASSUME Supuestos, Bien, EnTurno, AlDia, Lleva, SinVoid, ~FallaRevertir, [Next]_vars
    PROVE  AlDia' /\ Lleva'
<1> DEFINE Sigue == AlDia' /\ Lleva'
<1>s. /\ Pagos \subseteq Actores /\ Devolvedores \subseteq Actores /\ Anuladores \subseteq Actores
      /\ Devoluciones \subseteq Devolvedores /\ Reanudadores \subseteq Devolvedores
      /\ \A p \in Pagos : p \notin Devolvedores /\ p \notin Anuladores
      /\ \A a \in Devolvedores : a \notin Anuladores
      /\ \A d \in Devoluciones : d \notin Reanudadores
      /\ \A a \in Devolvedores : a \in Devoluciones \/ a \in Reanudadores
      /\ \A a \in Actores : a # Nadie
  BY Conjuntos DEF Devolvedores
<1>p. /\ pc \in [Actores -> Pasos] /\ reg \in [Devoluciones -> Registros]
      /\ obj \in [Devolvedores -> Devoluciones] /\ leido \in [Actores -> Lecturas]
      /\ cxc \in Cuentas /\ cxc.ajustes \in [Devoluciones -> Nat]
      /\ \A a \in Devolvedores : obj[a] \in Devoluciones
      /\ \A d \in Devoluciones : obj[d] = d
      /\ \A a \in Reanudadores :
           pc[a] \in {"libre", "leer", "escribir", "guardar", "nota", "completar"}
  BY DEF Bien, TypeOK, Devolvedores, Oficio, Cuentas
<1>e. \A d \in Devoluciones : pc[d] \in {"libre", "crear"} => reg[d].estado = "no"
  BY DEF EnTurno
<1>f. \A a \in Devolvedores : pc[a] \in Trabajo =>
          reg[obj[a]].estado = "en_curso" /\ reg[obj[a]].turno = a
  BY DEF EnTurno
<1>x. \A a, b \in Devolvedores : pc[a] \in Trabajo /\ pc[b] \in Trabajo /\ a # b => obj[a] # obj[b]
  BY <1>f
<1> USE <1>s, <1>p, <1>e, <1>f, <1>x DEF Va, AlDia, Lleva, LlevaDe, Trabajo
<1>1. ASSUME NEW p \in Pagos, LeerPago(p) PROVE Sigue
  BY SMTT(30), <1>1 DEF LeerPago, Lecturas
<1>2. ASSUME NEW p \in Pagos, EscribirPago(p) PROVE Sigue
  <2>1. UNCHANGED <<reg, obj>> /\ \A a \in Devolvedores : pc'[a] = pc[a] /\ leido'[a] = leido[a]
    <3>1. \A a \in Devolvedores : a # p /\ a \in Actores
      OBVIOUS
    <3> QED
      BY ONLY <1>2, <1>p, <3>1, p \in Actores DEF EscribirPago, Va
  <2>2. cxc'.ajustes = cxc.ajustes
    BY <1>2, PagoNoAjusta DEF Bien
  <2> QED
    BY <2>1, <2>2
<1>3. ASSUME NEW p \in Pagos, Asentar(p) PROVE Sigue
  BY <1>3 DEF Asentar
<1>4. ASSUME NEW d \in Devoluciones, Pedir(d) PROVE Sigue
  BY <1>4 DEF Pedir
<1>5. ASSUME NEW d \in Devoluciones, Crear(d) PROVE Sigue
  BY <1>5 DEF Crear, Registros
<1>6. ASSUME NEW d \in Devoluciones, Revisar(d) PROVE Sigue
  BY <1>6 DEF Revisar, Registros
<1>7. ASSUME NEW a \in Reanudadores, Reanudar(a) PROVE Sigue
  BY <1>7 DEF Reanudar, Registros, SinLeer, Lecturas
<1>8. ASSUME NEW a \in Devolvedores, NEW d \in Devoluciones, obj[a] = d, Leer(a) PROVE Sigue
  BY <1>8 DEF Leer, TrasCartera, SinVoid, Quieto, Lecturas
<1>9. ASSUME NEW a \in Devolvedores, NEW d \in Devoluciones, obj[a] = d, Escribir(a)
      PROVE  Sigue
  <2>1. CASE NadaCambio(a)
    <3>1. /\ cxc'.ajustes = [cxc.ajustes EXCEPT ![d] = leido[a].abono]
          /\ pc' = [pc EXCEPT ![a] = IF a \in Devoluciones THEN "nota" ELSE "guardar"]
          /\ UNCHANGED <<reg, obj, leido>>
      BY <1>9, <2>1, EscribirAjusta DEF Escribir, Bien
    <3>2. pc[a] = "escribir" /\ ~reg[d].hecha
      BY <1>9 DEF Escribir
    <3> QED
      BY <1>9, <3>1, <3>2
  <2>2. CASE ~NadaCambio(a)
    BY <1>9, <2>2 DEF Escribir, Rendirse, Registros, NadaCambio
  <2> QED
    BY <2>1, <2>2
<1>10. ASSUME NEW a \in Devolvedores, NEW d \in Devoluciones, obj[a] = d, Nota(a) PROVE Sigue
  BY <1>10 DEF Nota, Falla, Registros
<1>11. ASSUME NEW a \in Devolvedores, NEW d \in Devoluciones, obj[a] = d, Guardar(a)
       PROVE  Sigue
  BY <1>11 DEF Guardar, Registros
<1>12. ASSUME NEW a \in Devolvedores, NEW d \in Devoluciones, obj[a] = d, Revertir(a)
       PROVE  Sigue
  <2>1. CASE cxc.ajustes[d] > 0
    <3>1. /\ cxc'.ajustes = [cxc.ajustes EXCEPT ![d] = 0]
          /\ pc' = [pc EXCEPT ![a] = "revertir2"]
          /\ \A b \in Devolvedores : leido'[b].abono = leido[b].abono
          /\ UNCHANGED <<reg, obj>>
      <4>1. a \in Actores /\ TypeOK /\ Revertir(a)
        BY <1>12 DEF Bien
      <4>2. UNCHANGED <<reg, obj>>
        BY <4>1 DEF Revertir
      <4> QED
        BY ONLY <1>12, <2>1, <4>1, <4>2, <1>s, RevertirAjusta
    <3>2. pc[a] = "revertir" /\ ~reg[d].hecha
      BY <1>12 DEF Revertir
    <3> QED
      BY <1>12, <3>1, <3>2
  <2>2. CASE ~(cxc.ajustes[d] > 0)
    <3>1. cxc.ajustes[d] = 0
      BY <2>2
    <3> QED
      BY <1>12, <2>2, <3>1 DEF Revertir
  <2> QED
    BY <2>1, <2>2
<1>13. ASSUME NEW a \in Devolvedores, NEW d \in Devoluciones, obj[a] = d, Revertir2(a)
       PROVE  Sigue
  BY <1>13 DEF Revertir2, Cuentas
<1>r. ASSUME NEW a \in Devolvedores, NEW d \in Devoluciones, obj[a] = d, RevertirFalla(a)
      PROVE  Sigue
  BY <1>r DEF RevertirFalla
<1>14. ASSUME NEW a \in Devolvedores, NEW d \in Devoluciones, obj[a] = d, Borrar(a)
       PROVE  Sigue
  BY <1>14 DEF Borrar, Registros
<1>15. ASSUME NEW a \in Devolvedores, NEW d \in Devoluciones, obj[a] = d, Completar(a)
       PROVE  Sigue
  BY <1>15 DEF Completar, Registros
<1>16. ASSUME NEW v \in Anuladores, Contar(v) PROVE Sigue
  BY <1>16 DEF Contar
<1>17. ASSUME NEW v \in Anuladores, Flip(v) PROVE Sigue
  BY <1>17 DEF Flip
<1>18. ASSUME NEW v \in Anuladores, Recontar(v) PROVE Sigue
  BY <1>18 DEF Recontar
<1>19. ASSUME NEW v \in Anuladores, Cancelar(v) PROVE Sigue
  <2>1. /\ cxc'.ajustes = cxc.ajustes /\ UNCHANGED <<reg, obj, leido>>
        /\ \A a \in Devolvedores : pc'[a] = pc[a]
    BY <1>19, CancelarNoAjusta DEF Cancelar, Bien
  <2> QED
    BY <2>1
<1>20. ASSUME NEW v \in Anuladores, Reversar(v) PROVE Sigue
  BY <1>20 DEF Reversar, Falla
<1>21. ASSUME NEW v \in Anuladores, Restaurar(v) PROVE Sigue
  BY <1>21 DEF Restaurar, Cuentas
<1>22. ASSUME NEW v \in Anuladores, DeshacerFlip(v) PROVE Sigue
  BY <1>22 DEF DeshacerFlip
<1>23. ASSUME NEW a \in Actores, Corte(a) PROVE Sigue
  BY <1>23 DEF Corte
<1>24. CASE UNCHANGED vars
  BY <1>24 DEF vars
<1> HIDE DEF AlDia, Lleva, LlevaDe, Trabajo
<1>y. \A a \in Devolvedores : obj[a] \in Devoluciones
  BY <1>p
<1> QED
  BY ONLY [Next]_vars, <1>y, <1>1, <1>2, <1>3, <1>4, <1>5, <1>6, <1>7, <1>8, <1>9, <1>10,
     <1>11, <1>12,
     <1>13, <1>r, <1>14, <1>15, <1>16, <1>17, <1>18, <1>19, <1>20, <1>21, <1>22, <1>23, <1>24
     DEF Next, Paga, Devuelve, Anula, Devolvedores, vars


-----------------------------------------------------------------------------
(* The void *)

Tras == {"recontar", "cancelar", "notaV", "stockV", "restaurar", "deshacer", "fin"}

\* Where each void is says what the sale and the account are; only one goes past
\* its flip, and the one that cancels found no return.
Fase(v) ==
    /\ pc[v] \in Tras => venta = "void"
    /\ pc[v] \in {"recontar", "cancelar", "deshacer"} => cxc.estado # "void"
    /\ pc[v] \in {"notaV", "stockV", "restaurar", "fin"} => cxc.estado = "void"
    /\ pc[v] \in {"notaV", "stockV", "restaurar"} => fiado[v] = "receivable"
    /\ pc[v] = "cancelar" => Quieto

UnaTras == \A v, w \in Anuladores : pc[v] \in Tras /\ pc[w] \in Tras => v = w

Anulada == cxc.estado = "void" => venta = "void" /\ cxc.pagado = 0 /\ Quieto

Anulacion == UnaTras /\ Anulada /\ \A v \in Anuladores : Fase(v)

LEMMA AnulacionPaso ==
    ASSUME Supuestos, Bien, EnTurno, Anulacion, "revisar" \notin Cortan, [Next]_vars
    PROVE  Anulacion'
<1>s. /\ Pagos \subseteq Actores /\ Devolvedores \subseteq Actores /\ Anuladores \subseteq Actores
      /\ Devoluciones \subseteq Devolvedores /\ Reanudadores \subseteq Devolvedores
      /\ \A p \in Pagos : p \notin Devolvedores /\ p \notin Anuladores
      /\ \A a \in Devolvedores : a \notin Anuladores
      /\ \A d \in Devoluciones : d \notin Reanudadores
      /\ \A a \in Anuladores : a \notin Devoluciones /\ a \notin Pagos /\ a \notin Reanudadores
      /\ Devolvedores = Devoluciones \cup Reanudadores
  BY Conjuntos DEF Devolvedores
<1>p. /\ pc \in [Actores -> Pasos] /\ reg \in [Devoluciones -> Registros]
      /\ cxc \in Cuentas /\ fiado \in [Anuladores -> {"none", "receivable"}]
      /\ venta \in {"completed", "void"}
      /\ \A a \in Devolvedores : obj[a] \in Devoluciones
      /\ \A d \in Devoluciones : obj[d] = d
  BY DEF Bien, TypeOK, Devolvedores, Oficio
<1>f. \A a \in Devolvedores : pc[a] \in Trabajo =>
          reg[obj[a]].estado = "en_curso" /\ reg[obj[a]].turno = a
  BY DEF EnTurno
\* Nobody is at work while the account is being cancelled or is cancelled.
<1>q. Quieto => \A a \in Devolvedores : pc[a] \in Trabajo => pc[a] = "revisar"
  <2> SUFFICES ASSUME Quieto, NEW a \in Devolvedores, pc[a] \in Trabajo PROVE pc[a] = "revisar"
    OBVIOUS
  <2>1. pc[obj[a]] = "revisar"
    BY <1>f, <1>p DEF Quieto
  <2>2. reg[obj[a]].turno = obj[a]
    BY <2>1, <1>f, <1>p, <1>s DEF Trabajo
  <2> QED
    BY <2>1, <2>2, <1>f
<1>a. \A v \in Anuladores : Fase(v)
  BY DEF Anulacion
<1>b. UnaTras /\ Anulada
  BY DEF Anulacion
<1>c. "revisar" \notin Cortan
  OBVIOUS
\* A step that leaves the sale and the voids alone, and a cancelled account as it
\* is, only has to keep quiet what was quiet.
<1>z. ASSUME UNCHANGED <<venta, fiado>>, cxc'.estado = "void" <=> cxc.estado = "void",
             cxc.estado = "void" => cxc'.pagado = cxc.pagado,
             \A v \in Anuladores : pc'[v] \in {pc[v], "error"},
             venta = "void" /\ Quieto => Quieto'
      PROVE  Anulacion'
  <2>1. UnaTras'
    BY <1>z, <1>b DEF UnaTras, Tras
  <2>2. Anulada'
    BY <1>z, <1>b DEF Anulada
  <2>3. ASSUME NEW v \in Anuladores PROVE Fase(v)'
    <3>1. CASE pc'[v] = "error"
      BY <3>1 DEF Fase, Tras
    <3>2. CASE pc'[v] = pc[v]
      BY <3>2, <1>z, <1>a DEF Fase, Tras
    <3> QED
      BY <3>1, <3>2, <1>z
  <2> QED
    BY <2>1, <2>2, <2>3 DEF Anulacion
<1>1. ASSUME NEW p \in Pagos, LeerPago(p) PROVE Anulacion'
  <2>1. /\ UNCHANGED <<venta, fiado>> /\ cxc'.estado = cxc.estado /\ cxc'.pagado = cxc.pagado
        /\ \A v \in Anuladores : pc'[v] \in {pc[v], "error"}
    BY <1>1, <1>s, <1>p DEF LeerPago, Va
  <2>2. venta = "void" /\ Quieto => Quieto'
    BY <1>1, <1>s, <1>p, <1>q, <1>c DEF LeerPago, Va, Quieto, Registros, Trabajo
  <2> QED
    BY <2>1, <2>2, <1>z
<1>2. ASSUME NEW p \in Pagos, EscribirPago(p) PROVE Anulacion'
  <2>1. /\ UNCHANGED <<venta, fiado>>
        /\ \A v \in Anuladores : pc'[v] \in {pc[v], "error"}
    BY <1>2, <1>s, <1>p DEF EscribirPago, Va
  <2>2. /\ cxc'.estado = "void" <=> cxc.estado = "void"
        /\ cxc.estado = "void" => cxc'.pagado = cxc.pagado
    <3>1. cxc' = cxc \/ (cxc.estado # "void" /\ cxc'.estado =
            EstadoSegun(leido[p].monto, leido[p].pagado + Importe[p]))
      BY <1>2, <1>p DEF EscribirPago, Cuentas
    <3> QED
      BY <3>1, Abierta
  <2>3. Quieto => Quieto'
    BY <1>2, <1>s, <1>p DEF EscribirPago, Va, Quieto
  <2> QED
    BY <2>1, <2>2, <2>3, <1>z
<1>3. ASSUME NEW p \in Pagos, Asentar(p) PROVE Anulacion'
  <2>1. /\ UNCHANGED <<venta, fiado>> /\ cxc'.estado = cxc.estado /\ cxc'.pagado = cxc.pagado
        /\ \A v \in Anuladores : pc'[v] \in {pc[v], "error"}
    BY <1>3, <1>s, <1>p DEF Asentar, Va
  <2>2. venta = "void" /\ Quieto => Quieto'
    BY <1>3, <1>s, <1>p, <1>q, <1>c DEF Asentar, Va, Quieto, Registros, Trabajo
  <2> QED
    BY <2>1, <2>2, <1>z
<1>4. ASSUME NEW d \in Devoluciones, Pedir(d) PROVE Anulacion'
  <2>1. /\ UNCHANGED <<venta, fiado>> /\ cxc'.estado = cxc.estado /\ cxc'.pagado = cxc.pagado
        /\ \A v \in Anuladores : pc'[v] \in {pc[v], "error"}
    BY <1>4, <1>s, <1>p DEF Pedir, Va
  <2>2. venta = "void" /\ Quieto => Quieto'
    BY <1>4, <1>s, <1>p, <1>q, <1>c DEF Pedir, Va, Quieto, Registros, Trabajo
  <2> QED
    BY <2>1, <2>2, <1>z
<1>5. ASSUME NEW d \in Devoluciones, Crear(d) PROVE Anulacion'
  <2>1. /\ UNCHANGED <<venta, fiado>> /\ cxc'.estado = cxc.estado /\ cxc'.pagado = cxc.pagado
        /\ \A v \in Anuladores : pc'[v] \in {pc[v], "error"}
    BY <1>5, <1>s, <1>p DEF Crear, Va
  <2>2. venta = "void" /\ Quieto => Quieto'
    BY <1>5, <1>s, <1>p, <1>q, <1>c DEF Crear, Va, Quieto, Registros, Trabajo
  <2> QED
    BY <2>1, <2>2, <1>z
<1>6. ASSUME NEW d \in Devoluciones, Revisar(d) PROVE Anulacion'
  <2>1. /\ UNCHANGED <<venta, fiado>> /\ cxc'.estado = cxc.estado /\ cxc'.pagado = cxc.pagado
        /\ \A v \in Anuladores : pc'[v] \in {pc[v], "error"}
    BY <1>6, <1>s, <1>p DEF Revisar, Va
  <2>2. venta = "void" /\ Quieto => Quieto'
    BY <1>6, <1>s, <1>p, <1>q, <1>c DEF Revisar, Va, Quieto, Registros, Trabajo
  <2> QED
    BY <2>1, <2>2, <1>z
<1>7. ASSUME NEW a \in Reanudadores, Reanudar(a) PROVE Anulacion'
  <2>1. /\ UNCHANGED <<venta, fiado>> /\ cxc'.estado = cxc.estado /\ cxc'.pagado = cxc.pagado
        /\ \A v \in Anuladores : pc'[v] \in {pc[v], "error"}
    BY <1>7, <1>s, <1>p DEF Reanudar, Va
  <2>2. venta = "void" /\ Quieto => Quieto'
    BY <1>7, <1>s, <1>p, <1>q, <1>c DEF Reanudar, Va, Quieto, Registros, Trabajo
  <2> QED
    BY <2>1, <2>2, <1>z
<1>8. ASSUME NEW a \in Devolvedores, NEW d \in Devoluciones, obj[a] = d, Leer(a)
      PROVE  Anulacion'
  <2>1. /\ UNCHANGED <<venta, fiado>> /\ cxc'.estado = cxc.estado /\ cxc'.pagado = cxc.pagado
        /\ \A v \in Anuladores : pc'[v] \in {pc[v], "error"}
    BY <1>8, <1>s, <1>p DEF Leer, TrasCartera, Va
  <2>2. venta = "void" /\ Quieto => Quieto'
    BY <1>8, <1>s, <1>p, <1>q, <1>c DEF Leer, TrasCartera, Va, Quieto, Registros, Trabajo
  <2> QED
    BY <2>1, <2>2, <1>z
<1>9. ASSUME NEW a \in Devolvedores, NEW d \in Devoluciones, obj[a] = d, Escribir(a)
      PROVE  Anulacion'
  <2>1. /\ UNCHANGED <<venta, fiado>>
        /\ \A v \in Anuladores : pc'[v] \in {pc[v], "error"}
    BY <1>9, <1>s, <1>p DEF Escribir, Rendirse, TrasCartera, Va
  <2>2. /\ cxc'.estado = "void" <=> cxc.estado = "void"
        /\ cxc.estado = "void" => cxc'.pagado = cxc.pagado
    <3>1. cxc' = cxc \/ (cxc.estado # "void" /\ cxc'.estado =
            EstadoAjuste(cxc.monto - leido[a].abono, cxc.pagado))
      BY <1>9, <1>p DEF Escribir, Cuentas
    <3> QED
      BY <3>1, Abierta
  <2>3. ~Quieto
    BY <1>9, <1>q DEF Escribir, Trabajo
  <2> QED
    BY <2>1, <2>2, <2>3, <1>z
<1>10. ASSUME NEW a \in Devolvedores, NEW d \in Devoluciones, obj[a] = d, Nota(a)
       PROVE  Anulacion'
  <2>1. /\ UNCHANGED <<venta, fiado>> /\ cxc'.estado = cxc.estado /\ cxc'.pagado = cxc.pagado
        /\ \A v \in Anuladores : pc'[v] \in {pc[v], "error"}
    BY <1>10, <1>s, <1>p DEF Nota, Falla, Va
  <2>2. venta = "void" /\ Quieto => Quieto'
    BY <1>10, <1>s, <1>p, <1>q, <1>c DEF Nota, Falla, Va, Quieto, Registros, Trabajo
  <2> QED
    BY <2>1, <2>2, <1>z
<1>11. ASSUME NEW a \in Devolvedores, NEW d \in Devoluciones, obj[a] = d, Guardar(a)
       PROVE  Anulacion'
  <2>1. /\ UNCHANGED <<venta, fiado>> /\ cxc'.estado = cxc.estado /\ cxc'.pagado = cxc.pagado
        /\ \A v \in Anuladores : pc'[v] \in {pc[v], "error"}
    BY <1>11, <1>s, <1>p DEF Guardar, Va
  <2>2. venta = "void" /\ Quieto => Quieto'
    BY <1>11, <1>s, <1>p, <1>q, <1>c DEF Guardar, Va, Quieto, Registros, Trabajo
  <2> QED
    BY <2>1, <2>2, <1>z
<1>12. ASSUME NEW a \in Devolvedores, NEW d \in Devoluciones, obj[a] = d, Revertir(a)
       PROVE  Anulacion'
  <2>1. /\ UNCHANGED <<venta, fiado>>
        /\ \A v \in Anuladores : pc'[v] \in {pc[v], "error"}
    BY <1>12, <1>s, <1>p DEF Revertir, Va
  <2>2. cxc'.estado = cxc.estado /\ cxc'.pagado = cxc.pagado
    BY <1>12, <1>p DEF Revertir, Cuentas
  <2>3. ~Quieto
    BY <1>12, <1>q DEF Revertir, Trabajo
  <2> QED
    BY <2>1, <2>2, <2>3, <1>z
<1>13. ASSUME NEW a \in Devolvedores, NEW d \in Devoluciones, obj[a] = d, Revertir2(a)
       PROVE  Anulacion'
  <2>1. /\ UNCHANGED <<venta, fiado>>
        /\ \A v \in Anuladores : pc'[v] \in {pc[v], "error"}
    BY <1>13, <1>s, <1>p DEF Revertir2, Va
  <2>2. ~Quieto
    BY <1>13, <1>q DEF Revertir2, Trabajo
  <2>3. cxc.estado # "void" /\ cxc'.estado # "void"
    BY <1>13, <1>p, <1>b, <2>2, Abierta DEF Revertir2, Cuentas, Anulada
  <2> QED
    BY <2>1, <2>2, <2>3, <1>z
<1>r. ASSUME NEW a \in Devolvedores, NEW d \in Devoluciones, obj[a] = d, RevertirFalla(a)
      PROVE  Anulacion'
  <2>1. /\ UNCHANGED <<venta, fiado>> /\ cxc'.estado = cxc.estado /\ cxc'.pagado = cxc.pagado
        /\ \A v \in Anuladores : pc'[v] \in {pc[v], "error"}
    BY <1>r, <1>s, <1>p DEF RevertirFalla, Va
  <2>2. ~Quieto
    BY <1>r, <1>q DEF RevertirFalla, Trabajo
  <2> QED
    BY <2>1, <2>2, <1>z
<1>14. ASSUME NEW a \in Devolvedores, NEW d \in Devoluciones, obj[a] = d, Borrar(a)
       PROVE  Anulacion'
  <2>1. /\ UNCHANGED <<venta, fiado>> /\ cxc'.estado = cxc.estado /\ cxc'.pagado = cxc.pagado
        /\ \A v \in Anuladores : pc'[v] \in {pc[v], "error"}
    BY <1>14, <1>s, <1>p DEF Borrar, Va
  <2>2. venta = "void" /\ Quieto => Quieto'
    BY <1>14, <1>s, <1>p, <1>q, <1>c DEF Borrar, Va, Quieto, Registros, Trabajo
  <2> QED
    BY <2>1, <2>2, <1>z
<1>15. ASSUME NEW a \in Devolvedores, NEW d \in Devoluciones, obj[a] = d, Completar(a)
       PROVE  Anulacion'
  <2>1. /\ UNCHANGED <<venta, fiado>> /\ cxc'.estado = cxc.estado /\ cxc'.pagado = cxc.pagado
        /\ \A v \in Anuladores : pc'[v] \in {pc[v], "error"}
    BY <1>15, <1>s, <1>p DEF Completar, Va
  <2>2. venta = "void" /\ Quieto => Quieto'
    BY <1>15, <1>s, <1>p, <1>q, <1>c DEF Completar, Va, Quieto, Registros, Trabajo
  <2> QED
    BY <2>1, <2>2, <1>z
<1>16. ASSUME NEW v \in Anuladores, Contar(v) PROVE Anulacion'
  <2>1. /\ \A w \in Anuladores : w # v => pc'[w] = pc[w]
        /\ pc'[v] = "flip" /\ UNCHANGED <<cxc, venta, fiado>>
        /\ Quieto => Quieto'
    BY <1>16, <1>s, <1>p DEF Contar, Va, Quieto
  <2> QED
    BY <1>16, <1>p, <1>a, <1>b, <2>1 DEF Anulacion, UnaTras, Anulada, Fase, Tras, Contar
<1>17. ASSUME NEW v \in Anuladores, Flip(v) PROVE Anulacion'
  <2>1. /\ \A w \in Anuladores : w # v => pc'[w] = pc[w]
        /\ pc'[v] \in {"recontar", "error"} /\ UNCHANGED <<cxc, fiado>>
        /\ Quieto => Quieto'
    BY <1>17, <1>s, <1>p DEF Flip, Va, Quieto
  <2>2. CASE venta = "void"
    <3>1. UNCHANGED <<cxc, venta, fiado>> /\ pc'[v] = "error"
      BY <1>17, <1>p, <1>s, <2>2 DEF Flip, Va
    <3> QED
      BY <2>1, <3>1, <1>z
  <2>3. CASE venta = "completed"
    <3>1. \A w \in Anuladores : pc[w] \notin Tras
      BY <1>a, <2>3 DEF Fase
    <3>2. venta' = "void" /\ pc'[v] = "recontar" /\ cxc.estado # "void"
      BY <1>17, <1>p, <1>s, <1>b, <2>3 DEF Flip, Va, Anulada
    <3> QED
      BY <2>1, <3>1, <3>2 DEF Anulacion, UnaTras, Anulada, Fase, Tras
  <2> QED
    BY <1>p, <2>2, <2>3
<1>18. ASSUME NEW v \in Anuladores, Recontar(v) PROVE Anulacion'
  <2>1. /\ \A w \in Anuladores : w # v => pc'[w] = pc[w]
        /\ pc'[v] \in {"cancelar", "deshacer"} /\ UNCHANGED <<cxc, venta, fiado>>
        /\ pc'[v] = "cancelar" => Quieto'
        /\ Quieto => Quieto'
    BY <1>18, <1>s, <1>p DEF Recontar, Va, Quieto, Vivas
  <2> QED
    BY <1>18, <1>p, <1>a, <1>b, <2>1 DEF Anulacion, UnaTras, Anulada, Fase, Tras, Recontar
<1>19. ASSUME NEW v \in Anuladores, Cancelar(v) PROVE Anulacion'
  <2>1. /\ \A w \in Anuladores : w # v => pc'[w] = pc[w] /\ fiado'[w] = fiado[w]
        /\ Quieto => Quieto'
    BY <1>19, <1>s, <1>p DEF Cancelar, Va, Quieto
  <2>2. \A w \in Anuladores : w # v => pc'[w] \notin Tras
    BY <1>19, <1>b, <2>1 DEF Cancelar, UnaTras, Tras
  <2>3. \/ /\ pc'[v] = "notaV" /\ fiado'[v] = "receivable" /\ cxc'.estado = "void"
           /\ cxc'.pagado = 0 /\ venta' = "void" /\ Quieto
        \/ pc'[v] = "deshacer" /\ cxc.estado # "void" /\ UNCHANGED <<cxc, venta>> /\ venta = "void"
    BY <1>19, <1>p, <1>a, <1>b, <1>s DEF Cancelar, Va, Fase, Tras, Anulada, Cuentas
  <2>4. Fase(v)' /\ Anulada'
    BY <1>19, <1>p, <1>a, <1>b, <2>1, <2>3 DEF Fase, Tras, Anulada
  <2> QED
    BY <2>2, <2>4 DEF Anulacion, UnaTras, Fase, Tras
<1>20. ASSUME NEW v \in Anuladores, Reversar(v) PROVE Anulacion'
  <2>1. /\ \A w \in Anuladores : w # v => pc'[w] = pc[w] /\ fiado'[w] = fiado[w]
        /\ Quieto => Quieto'
    BY <1>20, <1>s, <1>p DEF Reversar, Va, Quieto
  <2>2. \A w \in Anuladores : w # v => pc'[w] \notin Tras
    BY <1>20, <1>b, <2>1 DEF Reversar, UnaTras, Tras
  <2>3. /\ pc'[v] \in {"stockV", "fin", "restaurar"} /\ UNCHANGED <<cxc, venta, fiado>>
        /\ cxc.estado = "void" /\ venta = "void" /\ fiado[v] = "receivable"
    BY <1>20, <1>p, <1>a, <1>b, <1>s DEF Reversar, Va, Fase, Tras, Anulada, Falla
  <2>4. Fase(v)' /\ Anulada'
    BY <1>20, <1>p, <1>a, <1>b, <2>1, <2>3 DEF Fase, Tras, Anulada
  <2> QED
    BY <2>2, <2>4 DEF Anulacion, UnaTras, Fase, Tras
<1>21. ASSUME NEW v \in Anuladores, Restaurar(v) PROVE Anulacion'
  <2>1. /\ \A w \in Anuladores : w # v => pc'[w] = pc[w] /\ fiado'[w] = fiado[w]
        /\ Quieto => Quieto'
    BY <1>21, <1>s, <1>p DEF Restaurar, Va, Quieto
  <2>2. \A w \in Anuladores : w # v => pc'[w] \notin Tras
    BY <1>21, <1>b, <2>1 DEF Restaurar, UnaTras, Tras
  <2>3. pc'[v] = "deshacer" /\ cxc'.estado = "open" /\ venta' = "void"
    BY <1>21, <1>p, <1>a, <1>b, <1>s DEF Restaurar, Va, Fase, Tras, Anulada, Cuentas
  <2>4. Fase(v)' /\ Anulada'
    BY <1>21, <1>p, <1>a, <1>b, <2>1, <2>3 DEF Fase, Tras, Anulada
  <2> QED
    BY <2>2, <2>4 DEF Anulacion, UnaTras, Fase, Tras
<1>22. ASSUME NEW v \in Anuladores, DeshacerFlip(v) PROVE Anulacion'
  <2>1. /\ \A w \in Anuladores : w # v => pc'[w] = pc[w] /\ fiado'[w] = fiado[w]
        /\ Quieto => Quieto'
    BY <1>22, <1>s, <1>p DEF DeshacerFlip, Va, Quieto
  <2>2. \A w \in Anuladores : w # v => pc'[w] \notin Tras
    BY <1>22, <1>b, <2>1 DEF DeshacerFlip, UnaTras, Tras
  <2>3. pc'[v] = "libre" /\ cxc' = cxc /\ cxc.estado # "void"
    BY <1>22, <1>p, <1>a, <1>b, <1>s DEF DeshacerFlip, Va, Fase, Tras, Anulada
  <2>4. Fase(v)' /\ Anulada'
    BY <1>22, <1>p, <1>a, <1>b, <2>1, <2>3 DEF Fase, Tras, Anulada
  <2> QED
    BY <2>2, <2>4 DEF Anulacion, UnaTras, Fase, Tras
<1>23. ASSUME NEW a \in Actores, Corte(a) PROVE Anulacion'
  <2>1. /\ UNCHANGED <<venta, fiado>> /\ cxc'.estado = cxc.estado /\ cxc'.pagado = cxc.pagado
        /\ \A v \in Anuladores : pc'[v] \in {pc[v], "error"}
    BY <1>23, <1>s, <1>p DEF Corte, Va
  <2>2. venta = "void" /\ Quieto => Quieto'
    BY <1>23, <1>s, <1>p, <1>q, <1>c DEF Corte, Va, Quieto, Registros, Trabajo
  <2> QED
    BY <2>1, <2>2, <1>z
<1>24. CASE UNCHANGED vars
  BY <1>24, <1>a, <1>b DEF vars, Anulacion, UnaTras, Anulada, Fase, Quieto
<1> QED
  BY <1>s, <1>p, <1>1, <1>2, <1>3, <1>4, <1>5, <1>6, <1>7, <1>8, <1>9, <1>10, <1>11, <1>12,
     <1>13, <1>r, <1>14, <1>15, <1>16, <1>17, <1>18, <1>19, <1>20, <1>21, <1>22, <1>23, <1>24
     DEF Next, Paga, Devuelve, Anula


-----------------------------------------------------------------------------
(* The debt *)

\* A return that lowers the debt, or gives it back, changes the sum of what was
\* lowered by as much.
LEMMA SumaAjustesCambia ==
    ASSUME Supuestos, cxc.ajustes \in [Devoluciones -> Nat], NEW d \in Devoluciones, NEW n \in Nat,
           cxc'.ajustes = [cxc.ajustes EXCEPT ![d] = n]
    PROVE  SumaAjustes \in Int /\ SumaAjustes' = SumaAjustes - cxc.ajustes[d] + n
<1> DEFINE f == cxc.ajustes
           g == cxc'.ajustes
<1>1. /\ \A x \in Devoluciones : f[x] \in Int /\ g[x] \in Int
      /\ \A x \in Devoluciones \ {d} : g[x] = f[x]
      /\ g[d] = n
  OBVIOUS
<1>2. SumaAjustes = SumFunctionOnSet(f, Devoluciones)
      /\ SumaAjustes' = SumFunctionOnSet(g, Devoluciones)
  BY DEF SumaAjustes
<1>3. IsFiniteSet(Devoluciones)
  BY DEF Supuestos
<1> HIDE DEF f, g
<1>4. SumFunctionOnSet(g, Devoluciones) = SumFunctionOnSet(f, Devoluciones) - f[d] + g[d]
  <2>1. \A x \in Devoluciones : f[x] \in Int /\ g[x] \in Int
    BY <1>1
  <2>2. \A x \in Devoluciones \ {d} : g[x] = f[x]
    BY <1>1
  <2>3. /\ SumFunctionOnSet(f, Devoluciones) = f[d] + SumFunctionOnSet(f, Devoluciones \ {d})
        /\ SumFunctionOnSet(g, Devoluciones) = g[d] + SumFunctionOnSet(g, Devoluciones \ {d})
    BY <1>3, <2>1, SumaQuita
  <2>4. IsFiniteSet(Devoluciones \ {d})
    BY <1>3, FS_Subset
  <2>5. SumFunctionOnSet(g, Devoluciones \ {d}) = SumFunctionOnSet(f, Devoluciones \ {d})
    BY <2>1, <2>2, <2>4, SumaIgual
  <2>6. SumFunctionOnSet(f, Devoluciones \ {d}) \in Int
    BY <2>1, <2>4, SumaEntera
  <2> QED
    BY <1>1, <2>1, <2>3, <2>5, <2>6
<1>5. SumFunctionOnSet(f, Devoluciones) \in Int
  BY <1>1, <1>3, SumaEntera
<1> QED
  BY <1>1, <1>2, <1>4, <1>5 DEF f

\* Only a return changes the amount of the account.
LEMMA SoloDevolucionesAjustan ==
    ASSUME Supuestos, Bien, [Next]_vars
    PROVE  \/ \E a \in Devolvedores : Escribir(a) \/ Revertir(a)
           \/ cxc'.ajustes = cxc.ajustes /\ cxc'.monto = cxc.monto
<1> DEFINE Igual == cxc'.ajustes = cxc.ajustes /\ cxc'.monto = cxc.monto
<1>t. TypeOK /\ cxc \in Cuentas
  BY DEF Bien, TypeOK
<1>d. Devolvedores = Devoluciones \cup Reanudadores
  BY DEF Devolvedores
<1>1. ASSUME NEW p \in Pagos, LeerPago(p) \/ EscribirPago(p) \/ Asentar(p) PROVE Igual
  BY <1>1, <1>t, PagoNoAjusta DEF LeerPago, Asentar
<1>2. ASSUME NEW d \in Devoluciones, Pedir(d) \/ Crear(d) \/ Revisar(d) PROVE Igual
  BY <1>2 DEF Pedir, Crear, Revisar
<1>3. ASSUME NEW a, Reanudar(a) \/ Leer(a) \/ Nota(a) \/ Guardar(a) \/ RevertirFalla(a) \/ Borrar(a)
                 \/ Completar(a)
      PROVE  Igual
  BY <1>3 DEF Reanudar, Leer, Nota, Guardar, RevertirFalla, Borrar, Completar
<1>4. ASSUME NEW a, Revertir2(a) PROVE Igual
  BY <1>4, <1>t DEF Revertir2, Cuentas
<1>5. ASSUME NEW v \in Anuladores, Anula(v) PROVE Igual
  <2>1. CASE Cancelar(v)
    BY <2>1, <1>t, CancelarNoAjusta
  <2>2. CASE Restaurar(v)
    BY <2>2, <1>t DEF Restaurar, Cuentas
  <2>3. CASE Contar(v) \/ Flip(v) \/ Recontar(v) \/ Reversar(v) \/ DeshacerFlip(v)
    BY <2>3 DEF Contar, Flip, Recontar, Reversar, DeshacerFlip
  <2> QED
    BY <1>5, <2>1, <2>2, <2>3 DEF Anula
<1>6. ASSUME NEW a \in Actores, Corte(a) PROVE Igual
  BY <1>6 DEF Corte
<1>7. CASE UNCHANGED vars
  BY <1>7 DEF vars
<1> QED
  BY <1>d, <1>1, <1>2, <1>3, <1>4, <1>5, <1>6, <1>7 DEF Next, Paga, Devuelve

LEMMA MontoPaso ==
    ASSUME Supuestos, Bien, Lleva, cxc.monto = Total - SumaAjustes, [Next]_vars
    PROVE  (cxc.monto = Total - SumaAjustes)'
<1>t. /\ TypeOK /\ cxc.ajustes \in [Devoluciones -> Nat] /\ cxc.monto \in Nat /\ Total \in Nat
      /\ \A a \in Actores : leido[a].abono \in Nat
      /\ \A a \in Devolvedores : obj[a] \in Devoluciones /\ a \in Actores
  BY DEF Bien, TypeOK, Cuentas, Lecturas, Devolvedores, Supuestos, Actores
<1>1. CASE cxc'.ajustes = cxc.ajustes /\ cxc'.monto = cxc.monto
  BY <1>1 DEF SumaAjustes
<1>2. ASSUME NEW a \in Devolvedores, NEW d \in Devoluciones, obj[a] = d, Escribir(a)
      PROVE  (cxc.monto = Total - SumaAjustes)'
  <2>1. CASE NadaCambio(a)
    <3>1. /\ cxc'.ajustes = [cxc.ajustes EXCEPT ![d] = leido[a].abono]
          /\ cxc'.monto = cxc.monto - leido[a].abono
      BY <1>2, <1>t, <2>1, EscribirAjusta
    <3>2. cxc.ajustes[d] = 0
      BY <1>2 DEF Escribir, Lleva, LlevaDe
    <3>3. leido[a].abono \in Nat
      BY <1>t
    <3>4. SumaAjustes \in Int /\ SumaAjustes' = SumaAjustes - cxc.ajustes[d] + leido[a].abono
      BY <1>t, <3>1, <3>3, SumaAjustesCambia
    <3>5. cxc'.monto = Total - SumaAjustes'
      BY <1>t, <3>1, <3>2, <3>3, <3>4
    <3> QED
      BY <3>5
  <2>2. CASE ~NadaCambio(a)
    BY <1>2, <1>t, <2>2, <1>1, EscribirAjusta
  <2> QED
    BY <2>1, <2>2
<1>3. ASSUME NEW a \in Devolvedores, NEW d \in Devoluciones, obj[a] = d, Revertir(a)
      PROVE  (cxc.monto = Total - SumaAjustes)'
  <2>1. CASE cxc.ajustes[d] > 0
    <3>1. /\ cxc'.ajustes = [cxc.ajustes EXCEPT ![d] = 0]
          /\ cxc'.monto = cxc.monto + leido[a].abono
      BY <1>3, <1>t, <2>1, RevertirAjusta
    <3>2. cxc.ajustes[d] = leido[a].abono
      BY <1>3 DEF Revertir, Lleva, LlevaDe
    <3>3. leido[a].abono \in Nat
      BY <1>t
    <3>4. SumaAjustes \in Int /\ SumaAjustes' = SumaAjustes - cxc.ajustes[d] + 0
      BY <1>t, <3>1, SumaAjustesCambia
    <3>5. cxc'.monto = Total - SumaAjustes'
      BY <1>t, <3>1, <3>2, <3>3, <3>4
    <3> QED
      BY <3>5
  <2>2. CASE ~(cxc.ajustes[d] > 0)
    BY <1>3, <1>t, <2>2, <1>1, RevertirAjusta
  <2> QED
    BY <2>1, <2>2
<1> QED
  BY <1>t, <1>1, <1>2, <1>3, SoloDevolucionesAjustan

-----------------------------------------------------------------------------
\* What holds of the whole when no process is lost as a return looks again.
Todo == /\ Bien /\ EnTurno /\ AlDia /\ Lleva /\ Anulacion
        /\ cxc.monto = Total - SumaAjustes

LEMMA TodoInicial == ASSUME Supuestos, Init PROVE Todo
<1>1. Bien
  BY BienInicial
<1>2. /\ \A d \in Devoluciones : reg[d].estado = "no" /\ ~reg[d].hecha /\ cxc.ajustes[d] = 0
      /\ cxc.estado = "open" /\ cxc.monto = Total /\ venta = "completed"
  BY DEF Init, SinRegistro
<1>3. \A a \in Actores : pc[a] = "libre"
  BY DEF Init
<1>4. \A a \in Devolvedores : pc[a] = "libre"
  BY <1>3, Conjuntos
<1>5. \A a \in Anuladores : pc[a] = "libre"
  BY <1>3, Conjuntos
<1>6. EnTurno /\ Lleva
  BY <1>2, <1>4 DEF EnTurno, Trabajo, Lleva, LlevaDe
<1>7. AlDia
  BY <1>2, <1>4, Conjuntos DEF AlDia
<1>8. Anulacion
  BY <1>2, <1>5 DEF Anulacion, UnaTras, Anulada, Fase, Tras
<1>9. SumaAjustes = 0 /\ Total \in Nat
  BY <1>2, SumaDeCeros DEF SumaAjustes, Supuestos
<1> QED
  BY <1>1, <1>2, <1>6, <1>7, <1>8, <1>9 DEF Todo

LEMMA TodoPaso ==
    ASSUME Supuestos, "revisar" \notin Cortan, ~FallaRevertir, Todo, [Next]_vars
    PROVE  Todo'
<1>1. Bien /\ EnTurno /\ AlDia /\ Lleva /\ Anulacion /\ cxc.monto = Total - SumaAjustes
  BY DEF Todo
<1>2. SinVoid
  BY <1>1 DEF SinVoid, Anulacion, Anulada
<1>3. Bien' /\ EnTurno'
  BY <1>1, BienPaso, TurnoPaso
<1>4. AlDia' /\ Lleva'
  BY <1>1, <1>2, AlDiaPaso
<1>5. Anulacion'
  BY <1>1, AnulacionPaso
<1>6. (cxc.monto = Total - SumaAjustes)'
  BY <1>1, MontoPaso
<1> QED
  BY <1>3, <1>4, <1>5, <1>6 DEF Todo

\* However often a return is cut and resumed, by whomever, and whatever else runs,
\* the debt goes down once for it, by what its record says, and a return that
\* withdrew leaves nothing lowered, if giving the debt back does not fail and nobody
\* is lost as it looks at the sale again (abonarCartera, revertirAbono).
THEOREM AjusteSiempreSegunRegistro ==
    ASSUME Supuestos, "revisar" \notin Cortan, ~FallaRevertir
    PROVE  Spec => []AjusteSegunRegistro
<1>1. Init => Todo
  BY TodoInicial
<1>2. Todo /\ [Next]_vars => Todo'
  BY TodoPaso
<1>3. Todo => AjusteSegunRegistro
  BY DEF Todo, AjusteSegunRegistro, AlDia
<1> QED
  BY <1>1, <1>2, <1>3, PTL DEF Spec

\* A voided sale leaves no debt, no payment and nothing lowered, and a sale that is
\* not voided keeps its account, with any number of voids, returns and payments at
\* once and a process lost at any step but the second look, if giving the debt back
\* does not fail (cancelCredit, restoreCredit).
THEOREM AnuladaSiempreSinDeuda ==
    ASSUME Supuestos, "revisar" \notin Cortan, ~FallaRevertir
    PROVE  Spec => []AnuladaSinDeuda
<1>1. Init => Todo
  BY TodoInicial
<1>2. Todo /\ [Next]_vars => Todo'
  BY TodoPaso
<1>3. Todo => AnuladaSinDeuda
  <2> SUFFICES ASSUME Todo PROVE AnuladaSinDeuda
    OBVIOUS
  <2>1. Anulada /\ \A v \in Anuladores : Fase(v)
    BY DEF Todo, Anulacion
  <2>2. cxc.estado = "void" => SumaAjustes = 0
    <3> SUFFICES ASSUME cxc.estado = "void" PROVE SumaAjustes = 0
      OBVIOUS
    <3>1. Quieto /\ reg \in [Devoluciones -> Registros] /\ AlDia
      BY <2>1 DEF Anulada, Todo, Bien, TypeOK
    <3>2. \A d \in Devoluciones : cxc.ajustes[d] = 0
      BY <3>1 DEF Quieto, AlDia, Registros
    <3> QED
      BY <3>2, SumaDeCeros DEF SumaAjustes, Supuestos
  <2>3. (\E v \in Anuladores : pc[v] = "fin") => venta = "void" /\ cxc.estado = "void"
    BY <2>1 DEF Fase, Tras
  <2> QED
    BY <2>1, <2>2, <2>3 DEF AnuladaSinDeuda, Anulada
<1> QED
  BY <1>1, <1>2, <1>3, PTL DEF Spec

-----------------------------------------------------------------------------
(* The settlements of a platform, Liquidacion, are L! *)

CONSTANTS
    Liquidaciones, Pedidos, Cobra, lAnuladores, Voids, lNadie, Cruces, Fallan, lCortan,
    lMaxFallas, lMaxCortes

VARIABLES
    pedido, liq, libro, banco, lPc, lObj, tomados, lFallas, lCortes

L == INSTANCE Liquidacion WITH
    Anuladores <- lAnuladores, Nadie <- lNadie, Cortan <- lCortan,
    MaxFallas <- lMaxFallas, MaxCortes <- lMaxCortes, pc <- lPc, obj <- lObj,
    fallas <- lFallas, cortes <- lCortes

\* Each actor is at a step of its own operation, over something of its own.
Rutas ==
    /\ \A l \in Liquidaciones :
         lPc[l] \in {"libre", "crear", "reservar", "soltar", "borrar", "asentar", "depositar",
                    "hecho", "fin"}
    /\ \A a \in lAnuladores :
         /\ lPc[a] \in {"libre", "reversar", "retirar", "liberar", "cerrar"}
         /\ lPc[a] # "libre" => lObj[a] \in Liquidaciones
    /\ \A v \in Voids :
         /\ lPc[v] \in {"libre", "voltear", "reponer", "fin"}
         /\ lPc[v] \in {"voltear", "reponer"} => lObj[v] \in Pedidos

\* Where the creation of a settlement is says what it has left so far.
Creacion ==
    \A l \in Liquidaciones :
        /\ lPc[l] \in {"libre", "crear"} => liq[l] = "no"
        /\ lPc[l] \in {"libre", "crear", "reservar", "soltar", "borrar", "asentar"} =>
               libro[l] = "no" /\ l \notin banco
        /\ L!EnCurso(l) => liq[l] = "active"
        /\ lPc[l] = "reservar" =>
               /\ tomados[l].suyos \subseteq Cobra[l]
               /\ \A p \in tomados[l].suyos : pedido[p].liq = l
        /\ lPc[l] \in {"asentar", "depositar"} => \A p \in Cobra[l] : pedido[p].liq = l
        /\ lPc[l] = "depositar" => libro[l] \in {"vivo", "pendiente"}
        /\ lPc[l] = "borrar" => \A p \in Pedidos : pedido[p].liq # l
        /\ tomados[l].suyos # {} => lPc[l] \notin {"libre", "crear"}

\* Who annuls works on a settlement that nobody is creating, in the order of its steps.
AnulacionDeL ==
    \A a \in lAnuladores :
        lPc[a] # "libre" =>
            LET l == lObj[a] IN
            /\ ~L!EnCurso(l) /\ liq[l] \in {"voiding", "void"}
            /\ lPc[a] \in {"retirar", "liberar", "cerrar"} => libro[l] # "vivo"
            /\ lPc[a] \in {"liberar", "cerrar"} => l \notin banco
            /\ lPc[a] = "cerrar" => \A p \in Pedidos : pedido[p].liq # l

\* The sale of an order that has a settlement stands, and a void that may still undo its
\* flip is the one of its order.
Pedida ==
    /\ \A p \in Pedidos : pedido[p].liq # lNadie => pedido[p].estado = "completed"
    /\ \A v \in Voids : lPc[v] = "reponer" => pedido[lObj[v]] = [estado |-> "void", liq |-> lNadie]
    /\ \A v, w \in Voids : lPc[v] = "reponer" /\ lPc[w] = "reponer" /\ lObj[v] = lObj[w] => v = w

IInv == L!TypeOK /\ Rutas /\ Creacion /\ AnulacionDeL /\ Pedida /\ L!NadaQuedaPreso /\ L!CobradoUnaVez

-----------------------------------------------------------------------------
(* Types and what each actor has done *)

LEMMA Volteado ==
    ASSUME L!Supuestos, L!TypeOK, Rutas, NEW v \in Voids, L!Voltear(v) \/ L!Reponer(v)
    PROVE  /\ pedido' \in [Pedidos -> [estado : {"completed", "void"}, liq : Liquidaciones \cup {lNadie}]]
           /\ \A p \in Pedidos : pedido'[p].liq = pedido[p].liq
           /\ \A a \in L!Actores \ {v} : lPc'[a] = lPc[a]
           /\ lPc'[v] \in {"reponer", "fin"}
<1>1. lObj[v] \in Pedidos
  BY DEF L!Voltear, L!Reponer, Rutas
<1>2. CASE pedido' = pedido
  BY <1>2 DEF L!Voltear, L!Reponer, Rutas, L!TypeOK, L!Va, L!Actores
<1>3. CASE \E e \in {"completed", "void"} : pedido' = [pedido EXCEPT ![lObj[v]].estado = e]
  BY <1>1, <1>3 DEF L!Voltear, L!Reponer, Rutas, L!TypeOK, L!Va, L!Actores
<1> QED
  BY <1>2, <1>3 DEF L!Voltear, L!Reponer

LEMMA TiposPasoDeL ==
    ASSUME L!Supuestos
    PROVE  L!TypeOK /\ Rutas /\ [L!Next]_(L!vars) => L!TypeOK'
<1> SUFFICES ASSUME L!TypeOK, Rutas, [L!Next]_(L!vars) PROVE L!TypeOK'
  OBVIOUS
<1> USE DEF L!Supuestos
<1>1. ASSUME NEW l \in Liquidaciones, L!Pedir(l) PROVE L!TypeOK'
  BY <1>1
  DEF L!TypeOK, Rutas, L!Va, L!Suelta, L!Toma, L!Libres, L!TrasFalla, L!EnCurso, L!Actores,
      L!Pedir
<1>2. ASSUME NEW l \in Liquidaciones, L!Crear(l) PROVE L!TypeOK'
  BY <1>2
  DEF L!TypeOK, Rutas, L!Va, L!Suelta, L!Toma, L!Libres, L!TrasFalla, L!EnCurso, L!Actores,
      L!Crear
<1>3. ASSUME NEW l \in Liquidaciones, L!Contar(l) PROVE L!TypeOK'
  BY <1>3
  DEF L!TypeOK, Rutas, L!Va, L!Suelta, L!Toma, L!Libres, L!TrasFalla, L!EnCurso, L!Actores,
      L!Contar
<1>4. ASSUME NEW l \in Liquidaciones, L!Soltar(l) PROVE L!TypeOK'
  <2>1. \A p \in Pedidos : [pedido[p] EXCEPT !.liq = lNadie]
                              \in [estado : {"completed", "void"}, liq : Liquidaciones \cup {lNadie}]
    BY DEF L!TypeOK
  <2>2. pedido' \in [Pedidos -> [estado : {"completed", "void"}, liq : Liquidaciones \cup {lNadie}]]
    BY <1>4, <2>1 DEF L!TypeOK, L!Soltar, L!Suelta
  <2> QED
    BY <1>4, <2>2 DEF L!TypeOK, L!Soltar, L!Va, L!Actores
<1>5. ASSUME NEW l \in Liquidaciones, L!Borrar(l) PROVE L!TypeOK'
  BY <1>5
  DEF L!TypeOK, Rutas, L!Va, L!Suelta, L!Toma, L!Libres, L!TrasFalla, L!EnCurso, L!Actores,
      L!Borrar
<1>6. ASSUME NEW l \in Liquidaciones, NEW p \in Pedidos, L!Reservar(l, p) PROVE L!TypeOK'
  BY <1>6
  DEF L!TypeOK, Rutas, L!Va, L!Suelta, L!Toma, L!Libres, L!TrasFalla, L!EnCurso, L!Actores,
      L!Reservar
<1>7. ASSUME NEW l \in Liquidaciones, L!FallaSoltar(l) PROVE L!TypeOK'
  BY <1>7
  DEF L!TypeOK, Rutas, L!Va, L!Suelta, L!Toma, L!Libres, L!TrasFalla, L!EnCurso, L!Actores,
      L!FallaSoltar
<1>8. ASSUME NEW l \in Liquidaciones, L!Asentar(l) PROVE L!TypeOK'
  BY <1>8
  DEF L!TypeOK, Rutas, L!Va, L!Suelta, L!Toma, L!Libres, L!TrasFalla, L!EnCurso, L!Actores,
      L!Asentar
<1>9. ASSUME NEW l \in Liquidaciones, L!Depositar(l) PROVE L!TypeOK'
  BY <1>9
  DEF L!TypeOK, Rutas, L!Va, L!Suelta, L!Toma, L!Libres, L!TrasFalla, L!EnCurso, L!Actores,
      L!Depositar
<1>10. ASSUME NEW a \in lAnuladores, NEW l \in Liquidaciones, L!Tomar(a, l) PROVE L!TypeOK'
  BY <1>10
  DEF L!TypeOK, Rutas, L!Va, L!Suelta, L!Toma, L!Libres, L!TrasFalla, L!EnCurso, L!Actores,
      L!Tomar
<1>11. ASSUME NEW a \in lAnuladores, L!Reversar(a) PROVE L!TypeOK'
  BY <1>11
  DEF L!TypeOK, Rutas, L!Va, L!Suelta, L!Toma, L!Libres, L!TrasFalla, L!EnCurso, L!Actores,
      L!Reversar
<1>12. ASSUME NEW a \in lAnuladores, L!Retirar(a) PROVE L!TypeOK'
  BY <1>12
  DEF L!TypeOK, Rutas, L!Va, L!Suelta, L!Toma, L!Libres, L!TrasFalla, L!EnCurso, L!Actores,
      L!Retirar
<1>13. ASSUME NEW a \in lAnuladores, L!Liberar(a) PROVE L!TypeOK'
  BY <1>13
  DEF L!TypeOK, Rutas, L!Va, L!Suelta, L!Toma, L!Libres, L!TrasFalla, L!EnCurso, L!Actores,
      L!Liberar
<1>14. ASSUME NEW a \in lAnuladores, L!Cerrar(a) PROVE L!TypeOK'
  BY <1>14
  DEF L!TypeOK, Rutas, L!Va, L!Suelta, L!Toma, L!Libres, L!TrasFalla, L!EnCurso, L!Actores,
      L!Cerrar
<1>15. ASSUME NEW a \in lAnuladores, L!FallaAnular(a) PROVE L!TypeOK'
  BY <1>15
  DEF L!TypeOK, Rutas, L!Va, L!Suelta, L!Toma, L!Libres, L!TrasFalla, L!EnCurso, L!Actores,
      L!FallaAnular
<1>16. ASSUME NEW v \in Voids, NEW p \in Pedidos, L!Anular(v, p) PROVE L!TypeOK'
  BY <1>16
  DEF L!TypeOK, Rutas, L!Va, L!Suelta, L!Toma, L!Libres, L!TrasFalla, L!EnCurso, L!Actores,
      L!Anular
<1>17. ASSUME NEW v \in Voids, L!Voltear(v) PROVE L!TypeOK'
  <2>1. pedido' \in [Pedidos -> [estado : {"completed", "void"}, liq : Liquidaciones \cup {lNadie}]]
    BY <1>17, Volteado
  <2> QED
    BY <1>17, <2>1 DEF L!TypeOK, L!Voltear, L!Va, L!Actores
<1>18. ASSUME NEW v \in Voids, L!Reponer(v) PROVE L!TypeOK'
  <2>1. pedido' \in [Pedidos -> [estado : {"completed", "void"}, liq : Liquidaciones \cup {lNadie}]]
    BY <1>18, Volteado
  <2> QED
    BY <1>18, <2>1 DEF L!TypeOK, L!Reponer, L!Va, L!Actores
<1>19. ASSUME NEW a \in L!Actores, L!Corte(a) PROVE L!TypeOK'
  BY <1>19
  DEF L!TypeOK, Rutas, L!Va, L!Suelta, L!Toma, L!Libres, L!TrasFalla, L!EnCurso, L!Actores,
      L!Corte
<1>20. CASE UNCHANGED L!vars
  BY <1>20
  DEF L!TypeOK, Rutas, L!Va, L!Suelta, L!Toma, L!Libres, L!TrasFalla, L!EnCurso, L!Actores,
      L!vars
<1> QED
  BY <1>1, <1>2, <1>3, <1>4, <1>5, <1>6, <1>7, <1>8, <1>9, <1>10, <1>11, <1>12, <1>13, <1>14,
     <1>15, <1>16, <1>17, <1>18, <1>19, <1>20
  DEF L!Next

LEMMA RutasPaso ==
    ASSUME L!Supuestos
    PROVE  L!TypeOK /\ Rutas /\ [L!Next]_(L!vars) => Rutas'
<1> SUFFICES ASSUME L!TypeOK, Rutas, [L!Next]_(L!vars) PROVE Rutas'
  OBVIOUS
<1> USE DEF L!Supuestos
<1>1. ASSUME NEW l \in Liquidaciones, L!Pedir(l) PROVE Rutas'
  BY <1>1
  DEF L!TypeOK, Rutas, L!Va, L!Suelta, L!Toma, L!Libres, L!TrasFalla, L!EnCurso, L!Actores,
      L!Pedir
<1>2. ASSUME NEW l \in Liquidaciones, L!Crear(l) PROVE Rutas'
  BY <1>2
  DEF L!TypeOK, Rutas, L!Va, L!Suelta, L!Toma, L!Libres, L!TrasFalla, L!EnCurso, L!Actores,
      L!Crear
<1>3. ASSUME NEW l \in Liquidaciones, L!Contar(l) PROVE Rutas'
  BY <1>3
  DEF L!TypeOK, Rutas, L!Va, L!Suelta, L!Toma, L!Libres, L!TrasFalla, L!EnCurso, L!Actores,
      L!Contar
<1>4. ASSUME NEW l \in Liquidaciones, L!Soltar(l) PROVE Rutas'
  BY <1>4
  DEF L!TypeOK, Rutas, L!Va, L!Suelta, L!Toma, L!Libres, L!TrasFalla, L!EnCurso, L!Actores,
      L!Soltar
<1>5. ASSUME NEW l \in Liquidaciones, L!Borrar(l) PROVE Rutas'
  BY <1>5
  DEF L!TypeOK, Rutas, L!Va, L!Suelta, L!Toma, L!Libres, L!TrasFalla, L!EnCurso, L!Actores,
      L!Borrar
<1>6. ASSUME NEW l \in Liquidaciones, NEW p \in Pedidos, L!Reservar(l, p) PROVE Rutas'
  BY <1>6
  DEF L!TypeOK, Rutas, L!Va, L!Suelta, L!Toma, L!Libres, L!TrasFalla, L!EnCurso, L!Actores,
      L!Reservar
<1>7. ASSUME NEW l \in Liquidaciones, L!FallaSoltar(l) PROVE Rutas'
  BY <1>7
  DEF L!TypeOK, Rutas, L!Va, L!Suelta, L!Toma, L!Libres, L!TrasFalla, L!EnCurso, L!Actores,
      L!FallaSoltar
<1>8. ASSUME NEW l \in Liquidaciones, L!Asentar(l) PROVE Rutas'
  BY <1>8
  DEF L!TypeOK, Rutas, L!Va, L!Suelta, L!Toma, L!Libres, L!TrasFalla, L!EnCurso, L!Actores,
      L!Asentar
<1>9. ASSUME NEW l \in Liquidaciones, L!Depositar(l) PROVE Rutas'
  BY <1>9
  DEF L!TypeOK, Rutas, L!Va, L!Suelta, L!Toma, L!Libres, L!TrasFalla, L!EnCurso, L!Actores,
      L!Depositar
<1>10. ASSUME NEW a \in lAnuladores, NEW l \in Liquidaciones, L!Tomar(a, l) PROVE Rutas'
  BY <1>10
  DEF L!TypeOK, Rutas, L!Va, L!Suelta, L!Toma, L!Libres, L!TrasFalla, L!EnCurso, L!Actores,
      L!Tomar
<1>11. ASSUME NEW a \in lAnuladores, L!Reversar(a) PROVE Rutas'
  BY <1>11
  DEF L!TypeOK, Rutas, L!Va, L!Suelta, L!Toma, L!Libres, L!TrasFalla, L!EnCurso, L!Actores,
      L!Reversar
<1>12. ASSUME NEW a \in lAnuladores, L!Retirar(a) PROVE Rutas'
  BY <1>12
  DEF L!TypeOK, Rutas, L!Va, L!Suelta, L!Toma, L!Libres, L!TrasFalla, L!EnCurso, L!Actores,
      L!Retirar
<1>13. ASSUME NEW a \in lAnuladores, L!Liberar(a) PROVE Rutas'
  BY <1>13
  DEF L!TypeOK, Rutas, L!Va, L!Suelta, L!Toma, L!Libres, L!TrasFalla, L!EnCurso, L!Actores,
      L!Liberar
<1>14. ASSUME NEW a \in lAnuladores, L!Cerrar(a) PROVE Rutas'
  BY <1>14
  DEF L!TypeOK, Rutas, L!Va, L!Suelta, L!Toma, L!Libres, L!TrasFalla, L!EnCurso, L!Actores,
      L!Cerrar
<1>15. ASSUME NEW a \in lAnuladores, L!FallaAnular(a) PROVE Rutas'
  BY <1>15
  DEF L!TypeOK, Rutas, L!Va, L!Suelta, L!Toma, L!Libres, L!TrasFalla, L!EnCurso, L!Actores,
      L!FallaAnular
<1>16. ASSUME NEW v \in Voids, NEW p \in Pedidos, L!Anular(v, p) PROVE Rutas'
  BY <1>16
  DEF L!TypeOK, Rutas, L!Va, L!Suelta, L!Toma, L!Libres, L!TrasFalla, L!EnCurso, L!Actores,
      L!Anular
<1>17. ASSUME NEW v \in Voids, L!Voltear(v) PROVE Rutas'
  BY <1>17
  DEF L!TypeOK, Rutas, L!Va, L!Suelta, L!Toma, L!Libres, L!TrasFalla, L!EnCurso, L!Actores,
      L!Voltear
<1>18. ASSUME NEW v \in Voids, L!Reponer(v) PROVE Rutas'
  BY <1>18
  DEF L!TypeOK, Rutas, L!Va, L!Suelta, L!Toma, L!Libres, L!TrasFalla, L!EnCurso, L!Actores,
      L!Reponer
<1>19. ASSUME NEW a \in L!Actores, L!Corte(a) PROVE Rutas'
  BY <1>19
  DEF L!TypeOK, Rutas, L!Va, L!Suelta, L!Toma, L!Libres, L!TrasFalla, L!EnCurso, L!Actores,
      L!Corte
<1>20. CASE UNCHANGED L!vars
  BY <1>20
  DEF L!TypeOK, Rutas, L!Va, L!Suelta, L!Toma, L!Libres, L!TrasFalla, L!EnCurso, L!Actores,
      L!vars
<1> QED
  BY <1>1, <1>2, <1>3, <1>4, <1>5, <1>6, <1>7, <1>8, <1>9, <1>10, <1>11, <1>12, <1>13, <1>14,
     <1>15, <1>16, <1>17, <1>18, <1>19, <1>20
  DEF L!Next

LEMMA CreacionPaso ==
    ASSUME L!Supuestos, ~Cruces
    PROVE  L!TypeOK /\ Rutas /\ Creacion /\ AnulacionDeL /\ [L!Next]_(L!vars) => Creacion'
<1> SUFFICES ASSUME L!TypeOK, Rutas, Creacion, AnulacionDeL, [L!Next]_(L!vars) PROVE Creacion'
  OBVIOUS
<1> USE DEF L!Supuestos
<1>1. ASSUME NEW l \in Liquidaciones, L!Pedir(l) PROVE Creacion'
  BY <1>1
  DEF L!TypeOK, Rutas, Creacion, AnulacionDeL, L!Va, L!Suelta, L!Toma, L!Libres, L!TrasFalla,
      L!EnCurso, L!Actores, L!Pedir
<1>2. ASSUME NEW l \in Liquidaciones, L!Crear(l) PROVE Creacion'
  BY <1>2
  DEF L!TypeOK, Rutas, Creacion, AnulacionDeL, L!Va, L!Suelta, L!Toma, L!Libres, L!TrasFalla,
      L!EnCurso, L!Actores, L!Crear
<1>3. ASSUME NEW l \in Liquidaciones, L!Contar(l) PROVE Creacion'
  BY <1>3
  DEF L!TypeOK, Rutas, Creacion, AnulacionDeL, L!Va, L!Suelta, L!Toma, L!Libres, L!TrasFalla,
      L!EnCurso, L!Actores, L!Contar
<1>4. ASSUME NEW l \in Liquidaciones, L!Soltar(l) PROVE Creacion'
  BY <1>4
  DEF L!TypeOK, Rutas, Creacion, AnulacionDeL, L!Va, L!Suelta, L!Toma, L!Libres, L!TrasFalla,
      L!EnCurso, L!Actores, L!Soltar
<1>5. ASSUME NEW l \in Liquidaciones, L!Borrar(l) PROVE Creacion'
  BY <1>5
  DEF L!TypeOK, Rutas, Creacion, AnulacionDeL, L!Va, L!Suelta, L!Toma, L!Libres, L!TrasFalla,
      L!EnCurso, L!Actores, L!Borrar
<1>6. ASSUME NEW l \in Liquidaciones, NEW p \in Pedidos, L!Reservar(l, p) PROVE Creacion'
  BY <1>6
  DEF L!TypeOK, Rutas, Creacion, AnulacionDeL, L!Va, L!Suelta, L!Toma, L!Libres, L!TrasFalla,
      L!EnCurso, L!Actores, L!Reservar
<1>7. ASSUME NEW l \in Liquidaciones, L!FallaSoltar(l) PROVE Creacion'
  BY <1>7
  DEF L!TypeOK, Rutas, Creacion, AnulacionDeL, L!Va, L!Suelta, L!Toma, L!Libres, L!TrasFalla,
      L!EnCurso, L!Actores, L!FallaSoltar
<1>8. ASSUME NEW l \in Liquidaciones, L!Asentar(l) PROVE Creacion'
  BY <1>8
  DEF L!TypeOK, Rutas, Creacion, AnulacionDeL, L!Va, L!Suelta, L!Toma, L!Libres, L!TrasFalla,
      L!EnCurso, L!Actores, L!Asentar
<1>9. ASSUME NEW l \in Liquidaciones, L!Depositar(l) PROVE Creacion'
  BY <1>9
  DEF L!TypeOK, Rutas, Creacion, AnulacionDeL, L!Va, L!Suelta, L!Toma, L!Libres, L!TrasFalla,
      L!EnCurso, L!Actores, L!Depositar
<1>10. ASSUME NEW a \in lAnuladores, NEW l \in Liquidaciones, L!Tomar(a, l) PROVE Creacion'
  BY <1>10
  DEF L!TypeOK, Rutas, Creacion, AnulacionDeL, L!Va, L!Suelta, L!Toma, L!Libres, L!TrasFalla,
      L!EnCurso, L!Actores, L!Tomar
<1>11. ASSUME NEW a \in lAnuladores, L!Reversar(a) PROVE Creacion'
  BY <1>11
  DEF L!TypeOK, Rutas, Creacion, AnulacionDeL, L!Va, L!Suelta, L!Toma, L!Libres, L!TrasFalla,
      L!EnCurso, L!Actores, L!Reversar
<1>12. ASSUME NEW a \in lAnuladores, L!Retirar(a) PROVE Creacion'
  BY <1>12
  DEF L!TypeOK, Rutas, Creacion, AnulacionDeL, L!Va, L!Suelta, L!Toma, L!Libres, L!TrasFalla,
      L!EnCurso, L!Actores, L!Retirar
<1>13. ASSUME NEW a \in lAnuladores, L!Liberar(a) PROVE Creacion'
  BY <1>13
  DEF L!TypeOK, Rutas, Creacion, AnulacionDeL, L!Va, L!Suelta, L!Toma, L!Libres, L!TrasFalla,
      L!EnCurso, L!Actores, L!Liberar
<1>14. ASSUME NEW a \in lAnuladores, L!Cerrar(a) PROVE Creacion'
  BY <1>14
  DEF L!TypeOK, Rutas, Creacion, AnulacionDeL, L!Va, L!Suelta, L!Toma, L!Libres, L!TrasFalla,
      L!EnCurso, L!Actores, L!Cerrar
<1>15. ASSUME NEW a \in lAnuladores, L!FallaAnular(a) PROVE Creacion'
  BY <1>15
  DEF L!TypeOK, Rutas, Creacion, AnulacionDeL, L!Va, L!Suelta, L!Toma, L!Libres, L!TrasFalla,
      L!EnCurso, L!Actores, L!FallaAnular
<1>16. ASSUME NEW v \in Voids, NEW p \in Pedidos, L!Anular(v, p) PROVE Creacion'
  BY <1>16
  DEF L!TypeOK, Rutas, Creacion, AnulacionDeL, L!Va, L!Suelta, L!Toma, L!Libres, L!TrasFalla,
      L!EnCurso, L!Actores, L!Anular
<1>17. ASSUME NEW v \in Voids, L!Voltear(v) PROVE Creacion'
  <2>1. UNCHANGED <<liq, libro, banco, lObj, tomados>>
    BY <1>17 DEF L!Voltear
  <2>2. /\ pedido' \in [Pedidos -> [estado : {"completed", "void"}, liq : Liquidaciones \cup {lNadie}]]
        /\ \A p \in Pedidos : pedido'[p].liq = pedido[p].liq
        /\ \A a \in L!Actores \ {v} : lPc'[a] = lPc[a]
        /\ lPc'[v] \in {"reponer", "fin"}
    BY <1>17, Volteado
  <2> QED
    BY <2>1, <2>2 DEF L!TypeOK, Rutas, Creacion, AnulacionDeL, L!EnCurso, L!Actores, L!Actores
<1>18. ASSUME NEW v \in Voids, L!Reponer(v) PROVE Creacion'
  <2>1. UNCHANGED <<liq, libro, banco, lObj, tomados>>
    BY <1>18 DEF L!Reponer
  <2>2. /\ pedido' \in [Pedidos -> [estado : {"completed", "void"}, liq : Liquidaciones \cup {lNadie}]]
        /\ \A p \in Pedidos : pedido'[p].liq = pedido[p].liq
        /\ \A a \in L!Actores \ {v} : lPc'[a] = lPc[a]
        /\ lPc'[v] \in {"reponer", "fin"}
    BY <1>18, Volteado
  <2> QED
    BY <2>1, <2>2 DEF L!TypeOK, Rutas, Creacion, AnulacionDeL, L!EnCurso, L!Actores, L!Actores
<1>19. ASSUME NEW a \in L!Actores, L!Corte(a) PROVE Creacion'
  BY <1>19
  DEF L!TypeOK, Rutas, Creacion, AnulacionDeL, L!Va, L!Suelta, L!Toma, L!Libres, L!TrasFalla,
      L!EnCurso, L!Actores, L!Corte
<1>20. CASE UNCHANGED L!vars
  BY <1>20
  DEF L!TypeOK, Rutas, Creacion, AnulacionDeL, L!Va, L!Suelta, L!Toma, L!Libres, L!TrasFalla,
      L!EnCurso, L!Actores, L!vars
<1> QED
  BY <1>1, <1>2, <1>3, <1>4, <1>5, <1>6, <1>7, <1>8, <1>9, <1>10, <1>11, <1>12, <1>13, <1>14,
     <1>15, <1>16, <1>17, <1>18, <1>19, <1>20
  DEF L!Next

LEMMA AnulacionPasoDeL ==
    ASSUME L!Supuestos, ~Cruces
    PROVE  L!TypeOK /\ Rutas /\ Creacion /\ AnulacionDeL /\ [L!Next]_(L!vars) => AnulacionDeL'
<1> SUFFICES ASSUME L!TypeOK, Rutas, Creacion, AnulacionDeL, [L!Next]_(L!vars) PROVE AnulacionDeL'
  OBVIOUS
<1> USE DEF L!Supuestos
<1>1. ASSUME NEW l \in Liquidaciones, L!Pedir(l) PROVE AnulacionDeL'
  BY <1>1
  DEF L!TypeOK, Rutas, Creacion, AnulacionDeL, L!Va, L!Suelta, L!Toma, L!Libres, L!TrasFalla,
      L!EnCurso, L!Actores, L!Pedir
<1>2. ASSUME NEW l \in Liquidaciones, L!Crear(l) PROVE AnulacionDeL'
  BY <1>2
  DEF L!TypeOK, Rutas, Creacion, AnulacionDeL, L!Va, L!Suelta, L!Toma, L!Libres, L!TrasFalla,
      L!EnCurso, L!Actores, L!Crear
<1>3. ASSUME NEW l \in Liquidaciones, L!Contar(l) PROVE AnulacionDeL'
  BY <1>3
  DEF L!TypeOK, Rutas, Creacion, AnulacionDeL, L!Va, L!Suelta, L!Toma, L!Libres, L!TrasFalla,
      L!EnCurso, L!Actores, L!Contar
<1>4. ASSUME NEW l \in Liquidaciones, L!Soltar(l) PROVE AnulacionDeL'
  BY <1>4
  DEF L!TypeOK, Rutas, Creacion, AnulacionDeL, L!Va, L!Suelta, L!Toma, L!Libres, L!TrasFalla,
      L!EnCurso, L!Actores, L!Soltar
<1>5. ASSUME NEW l \in Liquidaciones, L!Borrar(l) PROVE AnulacionDeL'
  BY <1>5
  DEF L!TypeOK, Rutas, Creacion, AnulacionDeL, L!Va, L!Suelta, L!Toma, L!Libres, L!TrasFalla,
      L!EnCurso, L!Actores, L!Borrar
<1>6. ASSUME NEW l \in Liquidaciones, NEW p \in Pedidos, L!Reservar(l, p) PROVE AnulacionDeL'
  BY <1>6
  DEF L!TypeOK, Rutas, Creacion, AnulacionDeL, L!Va, L!Suelta, L!Toma, L!Libres, L!TrasFalla,
      L!EnCurso, L!Actores, L!Reservar
<1>7. ASSUME NEW l \in Liquidaciones, L!FallaSoltar(l) PROVE AnulacionDeL'
  BY <1>7
  DEF L!TypeOK, Rutas, Creacion, AnulacionDeL, L!Va, L!Suelta, L!Toma, L!Libres, L!TrasFalla,
      L!EnCurso, L!Actores, L!FallaSoltar
<1>8. ASSUME NEW l \in Liquidaciones, L!Asentar(l) PROVE AnulacionDeL'
  BY <1>8
  DEF L!TypeOK, Rutas, Creacion, AnulacionDeL, L!Va, L!Suelta, L!Toma, L!Libres, L!TrasFalla,
      L!EnCurso, L!Actores, L!Asentar
<1>9. ASSUME NEW l \in Liquidaciones, L!Depositar(l) PROVE AnulacionDeL'
  BY <1>9
  DEF L!TypeOK, Rutas, Creacion, AnulacionDeL, L!Va, L!Suelta, L!Toma, L!Libres, L!TrasFalla,
      L!EnCurso, L!Actores, L!Depositar
<1>10. ASSUME NEW a \in lAnuladores, NEW l \in Liquidaciones, L!Tomar(a, l)
       PROVE  AnulacionDeL'
  BY <1>10
  DEF L!TypeOK, Rutas, Creacion, AnulacionDeL, L!Va, L!Suelta, L!Toma, L!Libres, L!TrasFalla,
      L!EnCurso, L!Actores, L!Tomar
<1>11. ASSUME NEW a \in lAnuladores, L!Reversar(a) PROVE AnulacionDeL'
  BY <1>11
  DEF L!TypeOK, Rutas, Creacion, AnulacionDeL, L!Va, L!Suelta, L!Toma, L!Libres, L!TrasFalla,
      L!EnCurso, L!Actores, L!Reversar
<1>12. ASSUME NEW a \in lAnuladores, L!Retirar(a) PROVE AnulacionDeL'
  BY <1>12
  DEF L!TypeOK, Rutas, Creacion, AnulacionDeL, L!Va, L!Suelta, L!Toma, L!Libres, L!TrasFalla,
      L!EnCurso, L!Actores, L!Retirar
<1>13. ASSUME NEW a \in lAnuladores, L!Liberar(a) PROVE AnulacionDeL'
  BY <1>13
  DEF L!TypeOK, Rutas, Creacion, AnulacionDeL, L!Va, L!Suelta, L!Toma, L!Libres, L!TrasFalla,
      L!EnCurso, L!Actores, L!Liberar
<1>14. ASSUME NEW a \in lAnuladores, L!Cerrar(a) PROVE AnulacionDeL'
  BY <1>14
  DEF L!TypeOK, Rutas, Creacion, AnulacionDeL, L!Va, L!Suelta, L!Toma, L!Libres, L!TrasFalla,
      L!EnCurso, L!Actores, L!Cerrar
<1>15. ASSUME NEW a \in lAnuladores, L!FallaAnular(a) PROVE AnulacionDeL'
  BY <1>15
  DEF L!TypeOK, Rutas, Creacion, AnulacionDeL, L!Va, L!Suelta, L!Toma, L!Libres, L!TrasFalla,
      L!EnCurso, L!Actores, L!FallaAnular
<1>16. ASSUME NEW v \in Voids, NEW p \in Pedidos, L!Anular(v, p) PROVE AnulacionDeL'
  BY <1>16
  DEF L!TypeOK, Rutas, Creacion, AnulacionDeL, L!Va, L!Suelta, L!Toma, L!Libres, L!TrasFalla,
      L!EnCurso, L!Actores, L!Anular
<1>17. ASSUME NEW v \in Voids, L!Voltear(v) PROVE AnulacionDeL'
  <2>1. UNCHANGED <<liq, libro, banco, lObj, tomados>>
    BY <1>17 DEF L!Voltear
  <2>2. /\ pedido' \in [Pedidos -> [estado : {"completed", "void"}, liq : Liquidaciones \cup {lNadie}]]
        /\ \A p \in Pedidos : pedido'[p].liq = pedido[p].liq
        /\ \A a \in L!Actores \ {v} : lPc'[a] = lPc[a]
        /\ lPc'[v] \in {"reponer", "fin"}
    BY <1>17, Volteado
  <2> QED
    BY <2>1, <2>2 DEF L!TypeOK, Rutas, Creacion, AnulacionDeL, L!EnCurso, L!Actores, L!Actores
<1>18. ASSUME NEW v \in Voids, L!Reponer(v) PROVE AnulacionDeL'
  <2>1. UNCHANGED <<liq, libro, banco, lObj, tomados>>
    BY <1>18 DEF L!Reponer
  <2>2. /\ pedido' \in [Pedidos -> [estado : {"completed", "void"}, liq : Liquidaciones \cup {lNadie}]]
        /\ \A p \in Pedidos : pedido'[p].liq = pedido[p].liq
        /\ \A a \in L!Actores \ {v} : lPc'[a] = lPc[a]
        /\ lPc'[v] \in {"reponer", "fin"}
    BY <1>18, Volteado
  <2> QED
    BY <2>1, <2>2 DEF L!TypeOK, Rutas, Creacion, AnulacionDeL, L!EnCurso, L!Actores, L!Actores
<1>19. ASSUME NEW a \in L!Actores, L!Corte(a) PROVE AnulacionDeL'
  BY <1>19
  DEF L!TypeOK, Rutas, Creacion, AnulacionDeL, L!Va, L!Suelta, L!Toma, L!Libres, L!TrasFalla,
      L!EnCurso, L!Actores, L!Corte
<1>20. CASE UNCHANGED L!vars
  BY <1>20
  DEF L!TypeOK, Rutas, Creacion, AnulacionDeL, L!Va, L!Suelta, L!Toma, L!Libres, L!TrasFalla,
      L!EnCurso, L!Actores, L!vars
<1> QED
  BY <1>1, <1>2, <1>3, <1>4, <1>5, <1>6, <1>7, <1>8, <1>9, <1>10, <1>11, <1>12, <1>13, <1>14,
     <1>15, <1>16, <1>17, <1>18, <1>19, <1>20
  DEF L!Next

LEMMA PedidaPaso ==
    ASSUME L!Supuestos
    PROVE  L!TypeOK /\ Rutas /\ Pedida /\ [L!Next]_(L!vars) => Pedida'
<1> SUFFICES ASSUME L!TypeOK, Rutas, Pedida, [L!Next]_(L!vars) PROVE Pedida'
  OBVIOUS
<1> USE DEF L!Supuestos
<1>1. ASSUME NEW l \in Liquidaciones, L!Pedir(l) PROVE Pedida'
  BY <1>1
  DEF L!TypeOK, Rutas, Pedida, L!Va, L!Suelta, L!Toma, L!Libres, L!TrasFalla, L!EnCurso,
      L!Actores, L!Pedir
<1>2. ASSUME NEW l \in Liquidaciones, L!Crear(l) PROVE Pedida'
  BY <1>2
  DEF L!TypeOK, Rutas, Pedida, L!Va, L!Suelta, L!Toma, L!Libres, L!TrasFalla, L!EnCurso,
      L!Actores, L!Crear
<1>3. ASSUME NEW l \in Liquidaciones, L!Contar(l) PROVE Pedida'
  BY <1>3
  DEF L!TypeOK, Rutas, Pedida, L!Va, L!Suelta, L!Toma, L!Libres, L!TrasFalla, L!EnCurso,
      L!Actores, L!Contar
<1>4. ASSUME NEW l \in Liquidaciones, L!Soltar(l) PROVE Pedida'
  BY <1>4
  DEF L!TypeOK, Rutas, Pedida, L!Va, L!Suelta, L!Toma, L!Libres, L!TrasFalla, L!EnCurso,
      L!Actores, L!Soltar
<1>5. ASSUME NEW l \in Liquidaciones, L!Borrar(l) PROVE Pedida'
  BY <1>5
  DEF L!TypeOK, Rutas, Pedida, L!Va, L!Suelta, L!Toma, L!Libres, L!TrasFalla, L!EnCurso,
      L!Actores, L!Borrar
<1>6. ASSUME NEW l \in Liquidaciones, NEW p \in Pedidos, L!Reservar(l, p) PROVE Pedida'
  BY <1>6
  DEF L!TypeOK, Rutas, Pedida, L!Va, L!Suelta, L!Toma, L!Libres, L!TrasFalla, L!EnCurso,
      L!Actores, L!Reservar
<1>7. ASSUME NEW l \in Liquidaciones, L!FallaSoltar(l) PROVE Pedida'
  BY <1>7
  DEF L!TypeOK, Rutas, Pedida, L!Va, L!Suelta, L!Toma, L!Libres, L!TrasFalla, L!EnCurso,
      L!Actores, L!FallaSoltar
<1>8. ASSUME NEW l \in Liquidaciones, L!Asentar(l) PROVE Pedida'
  BY <1>8
  DEF L!TypeOK, Rutas, Pedida, L!Va, L!Suelta, L!Toma, L!Libres, L!TrasFalla, L!EnCurso,
      L!Actores, L!Asentar
<1>9. ASSUME NEW l \in Liquidaciones, L!Depositar(l) PROVE Pedida'
  BY <1>9
  DEF L!TypeOK, Rutas, Pedida, L!Va, L!Suelta, L!Toma, L!Libres, L!TrasFalla, L!EnCurso,
      L!Actores, L!Depositar
<1>10. ASSUME NEW a \in lAnuladores, NEW l \in Liquidaciones, L!Tomar(a, l) PROVE Pedida'
  BY <1>10
  DEF L!TypeOK, Rutas, Pedida, L!Va, L!Suelta, L!Toma, L!Libres, L!TrasFalla, L!EnCurso,
      L!Actores, L!Tomar
<1>11. ASSUME NEW a \in lAnuladores, L!Reversar(a) PROVE Pedida'
  BY <1>11
  DEF L!TypeOK, Rutas, Pedida, L!Va, L!Suelta, L!Toma, L!Libres, L!TrasFalla, L!EnCurso,
      L!Actores, L!Reversar
<1>12. ASSUME NEW a \in lAnuladores, L!Retirar(a) PROVE Pedida'
  BY <1>12
  DEF L!TypeOK, Rutas, Pedida, L!Va, L!Suelta, L!Toma, L!Libres, L!TrasFalla, L!EnCurso,
      L!Actores, L!Retirar
<1>13. ASSUME NEW a \in lAnuladores, L!Liberar(a) PROVE Pedida'
  BY <1>13
  DEF L!TypeOK, Rutas, Pedida, L!Va, L!Suelta, L!Toma, L!Libres, L!TrasFalla, L!EnCurso,
      L!Actores, L!Liberar
<1>14. ASSUME NEW a \in lAnuladores, L!Cerrar(a) PROVE Pedida'
  BY <1>14
  DEF L!TypeOK, Rutas, Pedida, L!Va, L!Suelta, L!Toma, L!Libres, L!TrasFalla, L!EnCurso,
      L!Actores, L!Cerrar
<1>15. ASSUME NEW a \in lAnuladores, L!FallaAnular(a) PROVE Pedida'
  BY <1>15
  DEF L!TypeOK, Rutas, Pedida, L!Va, L!Suelta, L!Toma, L!Libres, L!TrasFalla, L!EnCurso,
      L!Actores, L!FallaAnular
<1>16. ASSUME NEW v \in Voids, NEW p \in Pedidos, L!Anular(v, p) PROVE Pedida'
  BY <1>16
  DEF L!TypeOK, Rutas, Pedida, L!Va, L!Suelta, L!Toma, L!Libres, L!TrasFalla, L!EnCurso,
      L!Actores, L!Anular
<1>17. ASSUME NEW v \in Voids, L!Voltear(v) PROVE Pedida'
  <2> DEFINE q == lObj[v]
  <2>1. q \in Pedidos /\ lObj' = lObj
    BY <1>17 DEF L!Voltear, Rutas
  <2>2. CASE pedido[q] = [estado |-> "completed", liq |-> lNadie]
    <3>1. pedido' = [pedido EXCEPT ![q].estado = "void"] /\ lPc' = [lPc EXCEPT ![v] = "reponer"]
      BY <1>17, <2>2 DEF L!Voltear, L!Va
    <3>2. pedido'[q] = [estado |-> "void", liq |-> lNadie] /\ \A p \in Pedidos \ {q} : pedido'[p] = pedido[p]
      BY <2>1, <2>2, <3>1 DEF L!TypeOK
    <3>3. \A w \in Voids : lPc[w] = "reponer" => lObj[w] # q /\ lObj[w] \in Pedidos
      BY <2>2 DEF Pedida, Rutas
    <3>4. \A w \in Voids : lPc'[w] = IF w = v THEN "reponer" ELSE lPc[w]
      BY <3>1 DEF L!TypeOK, L!Actores
    <3> QED
      BY <2>1, <3>2, <3>3, <3>4 DEF Pedida
  <2>3. CASE pedido[q] # [estado |-> "completed", liq |-> lNadie]
    <3>1. pedido' = pedido /\ lPc' = [lPc EXCEPT ![v] = "fin"]
      BY <1>17, <2>3 DEF L!Voltear, L!Va
    <3>2. \A w \in Voids : lPc'[w] = IF w = v THEN "fin" ELSE lPc[w]
      BY <3>1 DEF L!TypeOK, L!Actores
    <3> QED
      BY <2>1, <3>1, <3>2 DEF Pedida
  <2> QED
    BY <2>2, <2>3
<1>18. ASSUME NEW v \in Voids, L!Reponer(v) PROVE Pedida'
  BY <1>18
  DEF L!TypeOK, Rutas, Pedida, L!Va, L!Suelta, L!Toma, L!Libres, L!TrasFalla, L!EnCurso,
      L!Actores, L!Reponer
<1>19. ASSUME NEW a \in L!Actores, L!Corte(a) PROVE Pedida'
  BY <1>19
  DEF L!TypeOK, Rutas, Pedida, L!Va, L!Suelta, L!Toma, L!Libres, L!TrasFalla, L!EnCurso,
      L!Actores, L!Corte
<1>20. CASE UNCHANGED L!vars
  BY <1>20
  DEF L!TypeOK, Rutas, Pedida, L!Va, L!Suelta, L!Toma, L!Libres, L!TrasFalla, L!EnCurso,
      L!Actores, L!vars
<1> QED
  BY <1>1, <1>2, <1>3, <1>4, <1>5, <1>6, <1>7, <1>8, <1>9, <1>10, <1>11, <1>12, <1>13, <1>14,
     <1>15, <1>16, <1>17, <1>18, <1>19, <1>20
  DEF L!Next

-----------------------------------------------------------------------------
(* What a settlement leaves *)

LEMMA PresoPaso ==
    ASSUME L!Supuestos, ~Cruces
    PROVE  L!TypeOK /\ Rutas /\ Creacion /\ AnulacionDeL /\ L!NadaQuedaPreso /\ [L!Next]_(L!vars) => L!NadaQuedaPreso'
<1> SUFFICES ASSUME L!TypeOK, Rutas, Creacion, AnulacionDeL, L!NadaQuedaPreso, [L!Next]_(L!vars) PROVE L!NadaQuedaPreso'
  OBVIOUS
<1> USE DEF L!Supuestos
<1>1. ASSUME NEW l \in Liquidaciones, L!Pedir(l) PROVE L!NadaQuedaPreso'
  BY <1>1
  DEF L!TypeOK, Rutas, Creacion, AnulacionDeL, L!NadaQuedaPreso, L!Va, L!Suelta, L!Toma,
      L!Libres, L!TrasFalla, L!EnCurso, L!Actores, L!Pedir
<1>2. ASSUME NEW l \in Liquidaciones, L!Crear(l) PROVE L!NadaQuedaPreso'
  BY <1>2
  DEF L!TypeOK, Rutas, Creacion, AnulacionDeL, L!NadaQuedaPreso, L!Va, L!Suelta, L!Toma,
      L!Libres, L!TrasFalla, L!EnCurso, L!Actores, L!Crear
<1>3. ASSUME NEW l \in Liquidaciones, L!Contar(l) PROVE L!NadaQuedaPreso'
  BY <1>3
  DEF L!TypeOK, Rutas, Creacion, AnulacionDeL, L!NadaQuedaPreso, L!Va, L!Suelta, L!Toma,
      L!Libres, L!TrasFalla, L!EnCurso, L!Actores, L!Contar
<1>4. ASSUME NEW l \in Liquidaciones, L!Soltar(l) PROVE L!NadaQuedaPreso'
  BY <1>4
  DEF L!TypeOK, Rutas, Creacion, AnulacionDeL, L!NadaQuedaPreso, L!Va, L!Suelta, L!Toma,
      L!Libres, L!TrasFalla, L!EnCurso, L!Actores, L!Soltar
<1>5. ASSUME NEW l \in Liquidaciones, L!Borrar(l) PROVE L!NadaQuedaPreso'
  BY <1>5
  DEF L!TypeOK, Rutas, Creacion, AnulacionDeL, L!NadaQuedaPreso, L!Va, L!Suelta, L!Toma,
      L!Libres, L!TrasFalla, L!EnCurso, L!Actores, L!Borrar
<1>6. ASSUME NEW l \in Liquidaciones, NEW p \in Pedidos, L!Reservar(l, p)
      PROVE  L!NadaQuedaPreso'
  BY <1>6
  DEF L!TypeOK, Rutas, Creacion, AnulacionDeL, L!NadaQuedaPreso, L!Va, L!Suelta, L!Toma,
      L!Libres, L!TrasFalla, L!EnCurso, L!Actores, L!Reservar
<1>7. ASSUME NEW l \in Liquidaciones, L!FallaSoltar(l) PROVE L!NadaQuedaPreso'
  BY <1>7
  DEF L!TypeOK, Rutas, Creacion, AnulacionDeL, L!NadaQuedaPreso, L!Va, L!Suelta, L!Toma,
      L!Libres, L!TrasFalla, L!EnCurso, L!Actores, L!FallaSoltar
<1>8. ASSUME NEW l \in Liquidaciones, L!Asentar(l) PROVE L!NadaQuedaPreso'
  BY <1>8
  DEF L!TypeOK, Rutas, Creacion, AnulacionDeL, L!NadaQuedaPreso, L!Va, L!Suelta, L!Toma,
      L!Libres, L!TrasFalla, L!EnCurso, L!Actores, L!Asentar
<1>9. ASSUME NEW l \in Liquidaciones, L!Depositar(l) PROVE L!NadaQuedaPreso'
  BY <1>9
  DEF L!TypeOK, Rutas, Creacion, AnulacionDeL, L!NadaQuedaPreso, L!Va, L!Suelta, L!Toma,
      L!Libres, L!TrasFalla, L!EnCurso, L!Actores, L!Depositar
<1>10. ASSUME NEW a \in lAnuladores, NEW l \in Liquidaciones, L!Tomar(a, l)
       PROVE  L!NadaQuedaPreso'
  BY <1>10
  DEF L!TypeOK, Rutas, Creacion, AnulacionDeL, L!NadaQuedaPreso, L!Va, L!Suelta, L!Toma,
      L!Libres, L!TrasFalla, L!EnCurso, L!Actores, L!Tomar
<1>11. ASSUME NEW a \in lAnuladores, L!Reversar(a) PROVE L!NadaQuedaPreso'
  BY <1>11
  DEF L!TypeOK, Rutas, Creacion, AnulacionDeL, L!NadaQuedaPreso, L!Va, L!Suelta, L!Toma,
      L!Libres, L!TrasFalla, L!EnCurso, L!Actores, L!Reversar
<1>12. ASSUME NEW a \in lAnuladores, L!Retirar(a) PROVE L!NadaQuedaPreso'
  BY <1>12
  DEF L!TypeOK, Rutas, Creacion, AnulacionDeL, L!NadaQuedaPreso, L!Va, L!Suelta, L!Toma,
      L!Libres, L!TrasFalla, L!EnCurso, L!Actores, L!Retirar
<1>13. ASSUME NEW a \in lAnuladores, L!Liberar(a) PROVE L!NadaQuedaPreso'
  BY <1>13
  DEF L!TypeOK, Rutas, Creacion, AnulacionDeL, L!NadaQuedaPreso, L!Va, L!Suelta, L!Toma,
      L!Libres, L!TrasFalla, L!EnCurso, L!Actores, L!Liberar
<1>14. ASSUME NEW a \in lAnuladores, L!Cerrar(a) PROVE L!NadaQuedaPreso'
  BY <1>14
  DEF L!TypeOK, Rutas, Creacion, AnulacionDeL, L!NadaQuedaPreso, L!Va, L!Suelta, L!Toma,
      L!Libres, L!TrasFalla, L!EnCurso, L!Actores, L!Cerrar
<1>15. ASSUME NEW a \in lAnuladores, L!FallaAnular(a) PROVE L!NadaQuedaPreso'
  BY <1>15
  DEF L!TypeOK, Rutas, Creacion, AnulacionDeL, L!NadaQuedaPreso, L!Va, L!Suelta, L!Toma,
      L!Libres, L!TrasFalla, L!EnCurso, L!Actores, L!FallaAnular
<1>16. ASSUME NEW v \in Voids, NEW p \in Pedidos, L!Anular(v, p) PROVE L!NadaQuedaPreso'
  BY <1>16
  DEF L!TypeOK, Rutas, Creacion, AnulacionDeL, L!NadaQuedaPreso, L!Va, L!Suelta, L!Toma,
      L!Libres, L!TrasFalla, L!EnCurso, L!Actores, L!Anular
<1>17. ASSUME NEW v \in Voids, L!Voltear(v) PROVE L!NadaQuedaPreso'
  <2>1. UNCHANGED <<liq, libro, banco, lObj, tomados>>
    BY <1>17 DEF L!Voltear
  <2>2. /\ pedido' \in [Pedidos -> [estado : {"completed", "void"}, liq : Liquidaciones \cup {lNadie}]]
        /\ \A p \in Pedidos : pedido'[p].liq = pedido[p].liq
        /\ \A a \in L!Actores \ {v} : lPc'[a] = lPc[a]
        /\ lPc'[v] \in {"reponer", "fin"}
    BY <1>17, Volteado
  <2> QED
    BY <2>1, <2>2
    DEF L!TypeOK, Rutas, Creacion, AnulacionDeL, L!EnCurso, L!Actores, L!NadaQuedaPreso,
        L!Actores
<1>18. ASSUME NEW v \in Voids, L!Reponer(v) PROVE L!NadaQuedaPreso'
  <2>1. UNCHANGED <<liq, libro, banco, lObj, tomados>>
    BY <1>18 DEF L!Reponer
  <2>2. /\ pedido' \in [Pedidos -> [estado : {"completed", "void"}, liq : Liquidaciones \cup {lNadie}]]
        /\ \A p \in Pedidos : pedido'[p].liq = pedido[p].liq
        /\ \A a \in L!Actores \ {v} : lPc'[a] = lPc[a]
        /\ lPc'[v] \in {"reponer", "fin"}
    BY <1>18, Volteado
  <2> QED
    BY <2>1, <2>2
    DEF L!TypeOK, Rutas, Creacion, AnulacionDeL, L!EnCurso, L!Actores, L!NadaQuedaPreso,
        L!Actores
<1>19. ASSUME NEW a \in L!Actores, L!Corte(a) PROVE L!NadaQuedaPreso'
  BY <1>19
  DEF L!TypeOK, Rutas, Creacion, AnulacionDeL, L!NadaQuedaPreso, L!Va, L!Suelta, L!Toma,
      L!Libres, L!TrasFalla, L!EnCurso, L!Actores, L!Corte
<1>20. CASE UNCHANGED L!vars
  BY <1>20
  DEF L!TypeOK, Rutas, Creacion, AnulacionDeL, L!NadaQuedaPreso, L!Va, L!Suelta, L!Toma,
      L!Libres, L!TrasFalla, L!EnCurso, L!Actores, L!vars
<1> QED
  BY <1>1, <1>2, <1>3, <1>4, <1>5, <1>6, <1>7, <1>8, <1>9, <1>10, <1>11, <1>12, <1>13, <1>14,
     <1>15, <1>16, <1>17, <1>18, <1>19, <1>20
  DEF L!Next

LEMMA CobradoPaso ==
    ASSUME L!Supuestos, ~Cruces
    PROVE  L!TypeOK /\ Rutas /\ Creacion /\ AnulacionDeL /\ Pedida /\ L!CobradoUnaVez /\ [L!Next]_(L!vars) => L!CobradoUnaVez'
<1> SUFFICES ASSUME L!TypeOK, Rutas, Creacion, AnulacionDeL, Pedida, L!CobradoUnaVez, [L!Next]_(L!vars) PROVE L!CobradoUnaVez'
  OBVIOUS
<1> USE DEF L!Supuestos
<1>1. ASSUME NEW l \in Liquidaciones, L!Pedir(l) PROVE L!CobradoUnaVez'
  BY <1>1
  DEF L!TypeOK, Rutas, Creacion, AnulacionDeL, Pedida, L!CobradoUnaVez, L!Va, L!Suelta,
      L!Toma, L!Libres, L!TrasFalla, L!EnCurso, L!Actores, L!Pedir
<1>2. ASSUME NEW l \in Liquidaciones, L!Crear(l) PROVE L!CobradoUnaVez'
  BY <1>2
  DEF L!TypeOK, Rutas, Creacion, AnulacionDeL, Pedida, L!CobradoUnaVez, L!Va, L!Suelta,
      L!Toma, L!Libres, L!TrasFalla, L!EnCurso, L!Actores, L!Crear
<1>3. ASSUME NEW l \in Liquidaciones, L!Contar(l) PROVE L!CobradoUnaVez'
  BY <1>3
  DEF L!TypeOK, Rutas, Creacion, AnulacionDeL, Pedida, L!CobradoUnaVez, L!Va, L!Suelta,
      L!Toma, L!Libres, L!TrasFalla, L!EnCurso, L!Actores, L!Contar
<1>4. ASSUME NEW l \in Liquidaciones, L!Soltar(l) PROVE L!CobradoUnaVez'
  BY <1>4
  DEF L!TypeOK, Rutas, Creacion, AnulacionDeL, Pedida, L!CobradoUnaVez, L!Va, L!Suelta,
      L!Toma, L!Libres, L!TrasFalla, L!EnCurso, L!Actores, L!Soltar
<1>5. ASSUME NEW l \in Liquidaciones, L!Borrar(l) PROVE L!CobradoUnaVez'
  BY <1>5
  DEF L!TypeOK, Rutas, Creacion, AnulacionDeL, Pedida, L!CobradoUnaVez, L!Va, L!Suelta,
      L!Toma, L!Libres, L!TrasFalla, L!EnCurso, L!Actores, L!Borrar
<1>6. ASSUME NEW l \in Liquidaciones, NEW p \in Pedidos, L!Reservar(l, p)
      PROVE  L!CobradoUnaVez'
  BY <1>6
  DEF L!TypeOK, Rutas, Creacion, AnulacionDeL, Pedida, L!CobradoUnaVez, L!Va, L!Suelta,
      L!Toma, L!Libres, L!TrasFalla, L!EnCurso, L!Actores, L!Reservar
<1>7. ASSUME NEW l \in Liquidaciones, L!FallaSoltar(l) PROVE L!CobradoUnaVez'
  BY <1>7
  DEF L!TypeOK, Rutas, Creacion, AnulacionDeL, Pedida, L!CobradoUnaVez, L!Va, L!Suelta,
      L!Toma, L!Libres, L!TrasFalla, L!EnCurso, L!Actores, L!FallaSoltar
<1>8. ASSUME NEW l \in Liquidaciones, L!Asentar(l) PROVE L!CobradoUnaVez'
  BY <1>8
  DEF L!TypeOK, Rutas, Creacion, AnulacionDeL, Pedida, L!CobradoUnaVez, L!Va, L!Suelta,
      L!Toma, L!Libres, L!TrasFalla, L!EnCurso, L!Actores, L!Asentar
<1>9. ASSUME NEW l \in Liquidaciones, L!Depositar(l) PROVE L!CobradoUnaVez'
  BY <1>9
  DEF L!TypeOK, Rutas, Creacion, AnulacionDeL, Pedida, L!CobradoUnaVez, L!Va, L!Suelta,
      L!Toma, L!Libres, L!TrasFalla, L!EnCurso, L!Actores, L!Depositar
<1>10. ASSUME NEW a \in lAnuladores, NEW l \in Liquidaciones, L!Tomar(a, l)
       PROVE  L!CobradoUnaVez'
  BY <1>10
  DEF L!TypeOK, Rutas, Creacion, AnulacionDeL, Pedida, L!CobradoUnaVez, L!Va, L!Suelta,
      L!Toma, L!Libres, L!TrasFalla, L!EnCurso, L!Actores, L!Tomar
<1>11. ASSUME NEW a \in lAnuladores, L!Reversar(a) PROVE L!CobradoUnaVez'
  BY <1>11
  DEF L!TypeOK, Rutas, Creacion, AnulacionDeL, Pedida, L!CobradoUnaVez, L!Va, L!Suelta,
      L!Toma, L!Libres, L!TrasFalla, L!EnCurso, L!Actores, L!Reversar
<1>12. ASSUME NEW a \in lAnuladores, L!Retirar(a) PROVE L!CobradoUnaVez'
  BY <1>12
  DEF L!TypeOK, Rutas, Creacion, AnulacionDeL, Pedida, L!CobradoUnaVez, L!Va, L!Suelta,
      L!Toma, L!Libres, L!TrasFalla, L!EnCurso, L!Actores, L!Retirar
<1>13. ASSUME NEW a \in lAnuladores, L!Liberar(a) PROVE L!CobradoUnaVez'
  BY <1>13
  DEF L!TypeOK, Rutas, Creacion, AnulacionDeL, Pedida, L!CobradoUnaVez, L!Va, L!Suelta,
      L!Toma, L!Libres, L!TrasFalla, L!EnCurso, L!Actores, L!Liberar
<1>14. ASSUME NEW a \in lAnuladores, L!Cerrar(a) PROVE L!CobradoUnaVez'
  BY <1>14
  DEF L!TypeOK, Rutas, Creacion, AnulacionDeL, Pedida, L!CobradoUnaVez, L!Va, L!Suelta,
      L!Toma, L!Libres, L!TrasFalla, L!EnCurso, L!Actores, L!Cerrar
<1>15. ASSUME NEW a \in lAnuladores, L!FallaAnular(a) PROVE L!CobradoUnaVez'
  BY <1>15
  DEF L!TypeOK, Rutas, Creacion, AnulacionDeL, Pedida, L!CobradoUnaVez, L!Va, L!Suelta,
      L!Toma, L!Libres, L!TrasFalla, L!EnCurso, L!Actores, L!FallaAnular
<1>16. ASSUME NEW v \in Voids, NEW p \in Pedidos, L!Anular(v, p) PROVE L!CobradoUnaVez'
  BY <1>16
  DEF L!TypeOK, Rutas, Creacion, AnulacionDeL, Pedida, L!CobradoUnaVez, L!Va, L!Suelta,
      L!Toma, L!Libres, L!TrasFalla, L!EnCurso, L!Actores, L!Anular
<1>17. ASSUME NEW v \in Voids, L!Voltear(v) PROVE L!CobradoUnaVez'
  BY <1>17
  DEF L!TypeOK, Rutas, Creacion, AnulacionDeL, Pedida, L!CobradoUnaVez, L!Va, L!Suelta,
      L!Toma, L!Libres, L!TrasFalla, L!EnCurso, L!Actores, L!Voltear
<1>18. ASSUME NEW v \in Voids, L!Reponer(v) PROVE L!CobradoUnaVez'
  BY <1>18
  DEF L!TypeOK, Rutas, Creacion, AnulacionDeL, Pedida, L!CobradoUnaVez, L!Va, L!Suelta,
      L!Toma, L!Libres, L!TrasFalla, L!EnCurso, L!Actores, L!Reponer
<1>19. ASSUME NEW a \in L!Actores, L!Corte(a) PROVE L!CobradoUnaVez'
  BY <1>19
  DEF L!TypeOK, Rutas, Creacion, AnulacionDeL, Pedida, L!CobradoUnaVez, L!Va, L!Suelta,
      L!Toma, L!Libres, L!TrasFalla, L!EnCurso, L!Actores, L!Corte
<1>20. CASE UNCHANGED L!vars
  BY <1>20
  DEF L!TypeOK, Rutas, Creacion, AnulacionDeL, Pedida, L!CobradoUnaVez, L!Va, L!Suelta,
      L!Toma, L!Libres, L!TrasFalla, L!EnCurso, L!Actores, L!vars
<1> QED
  BY <1>1, <1>2, <1>3, <1>4, <1>5, <1>6, <1>7, <1>8, <1>9, <1>10, <1>11, <1>12, <1>13, <1>14,
     <1>15, <1>16, <1>17, <1>18, <1>19, <1>20
  DEF L!Next

-----------------------------------------------------------------------------
(* The theorem *)

LEMMA Inicial == L!Supuestos /\ L!Init => IInv
  BY
  DEF L!Supuestos, L!Init, IInv, L!TypeOK, Rutas, Creacion, AnulacionDeL, Pedida,
      L!NadaQuedaPreso,
         L!CobradoUnaVez, L!Actores, L!EnCurso

LEMMA IInvSiempre ==
    ASSUME L!Supuestos, ~Cruces
    PROVE  L!Spec => []IInv
<1>1. L!Init => IInv
  BY Inicial
<1>2. IInv /\ [L!Next]_(L!vars) => IInv'
  BY TiposPasoDeL, RutasPaso, CreacionPaso, AnulacionPasoDeL, PedidaPaso, PresoPaso,
     CobradoPaso
  DEF IInv
<1> QED
  BY <1>1, <1>2, PTL DEF L!Spec

\* However many settlements, annulments and voids of sales cross, fail or are cut, an
\* order that a live settlement collected is its own and stands, and no settlement that
\* nobody can annul keeps an order, provided no settlement is annulled while its creation
\* is under way (~Cruces).
THEOREM CobradoSiempreUnaVez ==
    ASSUME L!Supuestos, ~Cruces
    PROVE  L!Spec => [](L!CobradoUnaVez /\ L!NadaQuedaPreso)
<1>1. IInv => L!CobradoUnaVez /\ L!NadaQuedaPreso
  BY DEF IInv
<1> QED
  BY <1>1, IInvSiempre, PTL

-----------------------------------------------------------------------------
(* The reception of a purchase order, Recepcion, is R! *)

CONSTANTS
    Renglones, Pide, Iva, Recepciones, Trae, Credito, rAnuladores, rCruces, rCortan,
    rMaxCortes

VARIABLES
    orden, bodega, cxp, rLibro, recibos, rPc, rLeido, rota, rCortes

R == INSTANCE Recepcion WITH
    Anuladores <- rAnuladores, Cruces <- rCruces, Cortan <- rCortan,
    MaxCortes <- rMaxCortes, libro <- rLibro, pc <- rPc, leido <- rLeido,
    cortes <- rCortes

\* The instance's finite sets and sums are the library's.
LEMMA MismasFinitas == \A S : R!IsFiniteSet(S) <=> IsFiniteSet(S)
BY DEF R!IsFiniteSet, IsFiniteSet

LEMMA MismasSumas == \A f, S : R!SumFunctionOnSet(f, S) = SumFunctionOnSet(f, S)
BY DEF R!SumFunctionOnSet, R!FoldFunctionOnSet, R!MapThenFoldSet,
       SumFunctionOnSet, FoldFunctionOnSet, MapThenFoldSet

\* What each reception has done when it is at a step.
Ruta(r) ==
    /\ rPc[r] # "anular"
    /\ rPc[r] \in {"renglon", "entrar"} => rLeido[r].i \in 1..Len(Trae[r])
    /\ rPc[r] \in {"deber", "recibo", "asentar"} => rLeido[r].valor > 0
    /\ rLeido[r].valor = 0 => rLeido[r].iva = 0
    /\ rLibro[r] = IF rPc[r] = "hecho" THEN R!Total(r) ELSE 0
    /\ rPc[r] \in {"libre", "renglon", "entrar", "deber"} => cxp[r] = 0
    /\ rPc[r] \in {"recibo", "asentar", "hecho"} /\ r \in Credito => cxp[r] = R!Total(r)
    /\ rPc[r] = "fin" /\ ~rota => cxp[r] = 0
RutasDeR == \A r \in Recepciones : Ruta(r)

\* The units of a line that a reception advanced and are not in the stock yet.
EnVuelo(r, l) == IF rPc[r] = "entrar" /\ R!Lleva(r).renglon = l THEN R!Lleva(r).cant ELSE 0

\* A line does not pass what was ordered, and a reception knows no more than there is.
Tope == \A l \in Renglones : orden.recibido[l] <= Pide[l]
Sabe == \A r \in Recepciones, l \in Renglones :
    rLeido[r].recibido[l] + EnVuelo(r, l) <= orden.recibido[l]

\* What was advanced is in the stock or on its way there, unless a reception broke.
Cuadra(a, b) == a <= b /\ (~rota => a = b)
Vuelan(l) == SumFunctionOnSet([r \in Recepciones |-> EnVuelo(r, l)], Recepciones)
Bodegas == \A l \in Renglones : Cuadra(bodega[l] + Vuelan(l), orden.recibido[l])

\* What a reception will post, or has; and what has come in, with its tax.
Tiene(r) ==
    CASE rPc[r] \in {"renglon", "deber", "recibo", "asentar", "hecho"} -> R!Total(r)
      [] rPc[r] = "entrar" -> R!Total(r) + R!Lleva(r).cant + rLeido[r].parte
      [] OTHER -> 0
Tienen == SumFunctionOnSet([r \in Recepciones |-> Tiene(r)], Recepciones)
Bruto(l) == orden.recibido[l] + R!ParteIva(l, orden.recibido[l])
Brutos == SumFunctionOnSet([l \in Renglones |-> Bruto(l)], Renglones)
Caja == Cuadra(Tienen, Brutos)

\* A cancellation under way, or made, has no reception beside it nor before it.
NadieDeR == recibos = {} /\ \A r \in Recepciones : ~R!Recibiendo(r)
AnulaDeR ==
    /\ \A a \in rAnuladores : rPc[a] \in {"libre", "anular", "hecho", "fin"}
    /\ (\E a \in rAnuladores : rPc[a] = "anular") \/ orden.estado = "cancelled" => NadieDeR
    /\ recibos # {} => orden.estado \in {"partial", "received"}
Completa == orden.estado = "received" => \A l \in Renglones : orden.recibido[l] = Pide[l]

IInvDeR == R!TypeOK /\ RutasDeR /\ Tope /\ Sabe /\ Bodegas /\ Caja /\ AnulaDeR /\ Completa

\* How a step of one actor leaves the others.
Memorias == [recibido : [Renglones -> Nat], estado : {"sent", "partial"},
             i : Nat, parte : Nat, valor : Nat, iva : Nat]
PasosDeR == {"libre", "renglon", "entrar", "deber", "recibo", "asentar", "anular", "hecho", "fin"}
Solo(a) == \A b \in R!Actores : b # a => rPc'[b] = rPc[b] /\ rLeido'[b] = rLeido[b]
Sanos(a) == rPc' \in [R!Actores -> PasosDeR] /\ rLeido' \in [R!Actores -> Memorias] /\ Solo(a)

-----------------------------------------------------------------------------
(* The tax of a line *)

LEMMA Divide ==
    ASSUME NEW a \in Nat, NEW b \in Nat, a <= b, NEW c \in Nat \ {0}
    PROVE  a \div c \in Nat /\ b \div c \in Nat /\ a \div c <= b \div c
OBVIOUS

LEMMA IvaCrece ==
    ASSUME R!Supuestos, NEW l \in Renglones, NEW m \in Nat, NEW n \in Nat
    PROVE  /\ R!ParteIva(l, m) \in Nat /\ R!ParteIva(l, m + n) \in Nat
           /\ R!ParteIva(l, m) <= R!ParteIva(l, m + n)
<1>1. Iva[l] \in Nat /\ Pide[l] \in Nat \ {0}
  BY DEF R!Supuestos
<1> DEFINE a == 2 * Iva[l] * m + Pide[l]
           b == 2 * Iva[l] * (m + n) + Pide[l]
           c == 2 * Pide[l]
<1>2. c \in Nat \ {0}
  BY <1>1
<1>3. Iva[l] * m \in Nat /\ Iva[l] * n \in Nat /\ Iva[l] * (m + n) = Iva[l] * m + Iva[l] * n
  BY <1>1
<1>4. a \in Nat /\ b \in Nat /\ a <= b
  BY <1>1, <1>3
<1>5. a \div c \in Nat /\ b \div c \in Nat /\ a \div c <= b \div c
  <2> HIDE DEF a, b, c
  <2> QED
    BY <1>2, <1>4, Divide
<1> QED
  BY <1>5 DEF R!ParteIva

-----------------------------------------------------------------------------
(* What each step does *)

LEMMA Lee ==
    ASSUME R!Supuestos, R!TypeOK, NEW r \in Recepciones
    PROVE  /\ r \in R!Actores /\ rLeido[r] \in Memorias /\ rPc[r] \in PasosDeR
           /\ rLeido[r].recibido \in [Renglones -> Nat] /\ rLeido[r].i \in Nat
           /\ rLeido[r].parte \in Nat /\ rLeido[r].valor \in Nat /\ rLeido[r].iva \in Nat
           /\ R!Total(r) \in Nat /\ cxp[r] \in Nat /\ rLibro[r] \in Nat
           /\ Trae[r] # <<>> /\ Len(Trae[r]) \in Nat \ {0}
           /\ rLeido[r].i \in 1..Len(Trae[r]) =>
                R!Lleva(r).renglon \in Renglones /\ R!Lleva(r).cant \in Nat \ {0}
<1>1. /\ r \in R!Actores /\ rLeido[r] \in Memorias /\ rPc[r] \in PasosDeR
      /\ cxp[r] \in Nat /\ rLibro[r] \in Nat
  BY DEF R!TypeOK, Memorias, PasosDeR, R!Actores
<1>2. Trae[r] \in Seq([renglon : Renglones, cant : Nat \ {0}]) /\ Trae[r] # <<>>
  BY DEF R!Supuestos
<1>3. Len(Trae[r]) \in Nat \ {0}
  BY <1>2
<1>4. rLeido[r].i \in 1..Len(Trae[r]) =>
        R!Lleva(r).renglon \in Renglones /\ R!Lleva(r).cant \in Nat \ {0}
  <2> DEFINE S == [renglon : Renglones, cant : Nat \ {0}]
  <2>1. SUFFICES ASSUME rLeido[r].i \in 1..Len(Trae[r]) PROVE Trae[r][rLeido[r].i] \in S
    BY DEF R!Lleva
  <2>2. Trae[r] \in Seq(S)
    BY <1>2
  <2> QED
    <3> HIDE DEF S
    <3> QED
      BY <2>1, <2>2
<1>5. /\ rLeido[r].recibido \in [Renglones -> Nat] /\ rLeido[r].i \in Nat
      /\ rLeido[r].parte \in Nat /\ rLeido[r].valor \in Nat /\ rLeido[r].iva \in Nat
  BY <1>1 DEF Memorias
<1>6. Trae[r] # <<>>
  BY <1>2
<1>7. R!Total(r) \in Nat
  BY <1>5 DEF R!Total
<1> QED
  BY <1>1, <1>3, <1>4, <1>5, <1>6, <1>7

LEMMA VaHace ==
    ASSUME R!TypeOK, NEW a \in R!Actores, NEW s \in PasosDeR, R!Va(a, s)
    PROVE  rPc' \in [R!Actores -> PasosDeR] /\ rPc'[a] = s /\ \A b \in R!Actores : b # a => rPc'[b] = rPc[b]
BY DEF R!TypeOK, R!Va, PasosDeR

LEMMA PoneMemoria ==
    ASSUME R!TypeOK, NEW a \in R!Actores, NEW l \in Memorias, rLeido' = [rLeido EXCEPT ![a] = l]
    PROVE  rLeido' \in [R!Actores -> Memorias] /\ rLeido'[a] = l
           /\ \A b \in R!Actores : b # a => rLeido'[b] = rLeido[b]
BY DEF R!TypeOK, Memorias

\* Where a reception goes after a line.
LEMMA SigueHace ==
    ASSUME R!Supuestos, R!TypeOK, NEW r \in Recepciones, NEW k \in Nat \ {0}, NEW v \in Nat, R!Sigue(r, k, v)
    PROVE  /\ rPc' \in [R!Actores -> PasosDeR] /\ \A b \in R!Actores : b # r => rPc'[b] = rPc[b]
           /\ \/ rPc'[r] = "renglon" /\ k \in 1..Len(Trae[r])
              \/ rPc'[r] = "fin" /\ v = 0
              \/ rPc'[r] \in {"deber", "recibo"} /\ v > 0 /\ (r \in Credito => rPc'[r] = "deber")
<1>1. r \in R!Actores /\ Len(Trae[r]) \in Nat
  BY Lee
<1> DEFINE s == IF k <= Len(Trae[r]) THEN "renglon"
                ELSE IF v = 0 THEN "fin"
                ELSE IF r \in Credito THEN "deber" ELSE "recibo"
<1>0. R!Va(r, s)
  BY DEF R!Sigue
<1>2. CASE k <= Len(Trae[r])
  <2>1. s = "renglon"
    BY <1>1, <1>2
  <2> QED
    BY <1>0, <1>1, <1>2, <2>1, VaHace DEF PasosDeR
<1>3. CASE k > Len(Trae[r]) /\ v = 0
  <2>1. s = "fin"
    BY <1>1, <1>3
  <2> QED
    BY <1>0, <1>1, <1>3, <2>1, VaHace DEF PasosDeR
<1>4. CASE k > Len(Trae[r]) /\ v # 0
  <2>1. s \in {"deber", "recibo"} /\ (r \in Credito => s = "deber") /\ v > 0
    BY <1>1, <1>4
  <2> HIDE DEF s
  <2>2. s \in PasosDeR
    BY <2>1 DEF PasosDeR
  <2>3. rPc' \in [R!Actores -> PasosDeR] /\ rPc'[r] = s /\ \A b \in R!Actores : b # r => rPc'[b] = rPc[b]
    BY <1>0, <1>1, <2>2, VaHace
  <2> QED
    BY <2>1, <2>3
<1> QED
  BY <1>1, <1>2, <1>3, <1>4

LEMMA LeerHace ==
    ASSUME R!Supuestos, R!TypeOK, NEW r \in Recepciones, R!Leer(r)
    PROVE  /\ Sanos(r) /\ rPc[r] = "libre"
           /\ \/ rPc'[r] = "fin" /\ rLeido' = rLeido
              \/ /\ rPc'[r] = "renglon" /\ rLeido'[r].recibido = orden.recibido /\ rLeido'[r].i = 1
                 /\ rLeido'[r].valor = 0 /\ rLeido'[r].iva = 0
                 /\ orden.estado \notin {"received", "cancelled"}
<1>1. r \in R!Actores /\ rLeido \in [R!Actores -> Memorias]
  BY Lee DEF R!TypeOK, Memorias
<1>2. CASE orden.estado \in {"received", "cancelled"}
  <2>1. R!Va(r, "fin") /\ rLeido' = rLeido /\ rPc[r] = "libre"
    BY <1>2 DEF R!Leer
  <2> QED
    BY <1>1, <2>1, VaHace DEF Sanos, Solo, PasosDeR
<1>3. CASE orden.estado \notin {"received", "cancelled"}
  <2> DEFINE l == [[R!SinLeer EXCEPT !.recibido = orden.recibido] EXCEPT !.estado = orden.estado]
  <2>1. l \in Memorias /\ l.recibido = orden.recibido /\ l.i = 1 /\ l.valor = 0 /\ l.iva = 0
    BY <1>3 DEF R!TypeOK, R!SinLeer, Memorias, R!Nada
  <2>2. rLeido' = [rLeido EXCEPT ![r] = l] /\ R!Va(r, "renglon") /\ rPc[r] = "libre"
    BY <1>3 DEF R!Leer
  <2> HIDE DEF l
  <2>3. rLeido' \in [R!Actores -> Memorias] /\ rLeido'[r] = l
        /\ \A b \in R!Actores : b # r => rLeido'[b] = rLeido[b]
    BY <1>1, <2>1, <2>2, PoneMemoria
  <2>4. rPc' \in [R!Actores -> PasosDeR] /\ rPc'[r] = "renglon" /\ \A b \in R!Actores : b # r => rPc'[b] = rPc[b]
    BY <1>1, <2>2, VaHace DEF PasosDeR
  <2> QED
    BY <1>3, <2>1, <2>2, <2>3, <2>4 DEF Sanos, Solo
<1> QED
  BY <1>2, <1>3

LEMMA RenglonHace ==
    ASSUME R!Supuestos, R!TypeOK, RutasDeR, NEW r \in Recepciones, R!Renglon(r)
    PROVE  /\ Sanos(r) /\ rPc[r] = "renglon"
           /\ rLeido'[r].recibido = rLeido[r].recibido /\ rLeido'[r].valor = rLeido[r].valor
           /\ rLeido'[r].iva = rLeido[r].iva /\ rLeido'[r].i \in Nat
           /\ R!Lleva(r).renglon \in Renglones /\ R!Lleva(r).cant \in Nat \ {0}
           /\ \/ rPc'[r] = "fin" /\ rota' = (rota \/ rLeido[r].valor > 0) /\ orden' = orden /\ rLeido' = rLeido
              \/ /\ rPc'[r] = "entrar" /\ rota' = rota /\ rLeido'[r].i = rLeido[r].i
                 /\ orden.recibido[R!Lleva(r).renglon] + R!Lleva(r).cant <= Pide[R!Lleva(r).renglon]
                 /\ orden' = [orden EXCEPT !.recibido[R!Lleva(r).renglon] = @ + R!Lleva(r).cant]
                 /\ rLeido'[r].parte =
                      R!ParteIva(R!Lleva(r).renglon, orden.recibido[R!Lleva(r).renglon] + R!Lleva(r).cant)
                        - R!ParteIva(R!Lleva(r).renglon, orden.recibido[R!Lleva(r).renglon])
              \/ /\ rota' = rota /\ orden' = orden
                 /\ \/ rPc'[r] = "renglon" /\ rLeido'[r].i \in 1..Len(Trae[r])
                    \/ rPc'[r] = "fin" /\ rLeido[r].valor = 0
                    \/ rPc'[r] \in {"deber", "recibo"} /\ rLeido[r].valor > 0
                       /\ (r \in Credito => rPc'[r] = "deber")
<1>1. /\ r \in R!Actores /\ rLeido[r] \in Memorias /\ rPc[r] = "renglon" /\ rLeido[r].i \in 1..Len(Trae[r])
      /\ R!Lleva(r).renglon \in Renglones /\ R!Lleva(r).cant \in Nat \ {0} /\ rLeido \in [R!Actores -> Memorias]
  BY Lee DEF R!Renglon, RutasDeR, Ruta, R!TypeOK, Memorias
<1> DEFINE l == R!Lleva(r).renglon
           n == R!Lleva(r).cant
<1>2. CASE rLeido[r].recibido[l] + n > Pide[l]
  <2>1. R!Va(r, "fin") /\ rota' = (rota \/ rLeido[r].valor > 0) /\ UNCHANGED <<orden, rLeido>>
    BY <1>2 DEF R!Renglon, R!Rompe
  <2> QED
    BY <1>1, <2>1, VaHace, Lee DEF Sanos, Solo, PasosDeR
<1>3. CASE ~(rLeido[r].recibido[l] + n > Pide[l]) /\ R!Cabe(r, l, n)
  <2> DEFINE p == R!ParteIva(l, orden.recibido[l] + n) - R!ParteIva(l, orden.recibido[l])
             m == [rLeido[r] EXCEPT !.parte = p]
  <2>1. /\ rota' = rota /\ R!Va(r, "entrar")
        /\ orden' = [orden EXCEPT !.recibido[l] = @ + n]
        /\ rLeido' = [rLeido EXCEPT ![r] = m]
    BY <1>1, <1>3 DEF R!Renglon, R!Antes
  <2>2. p \in Nat
    <3>1. orden.recibido[l] \in Nat
      BY <1>1 DEF R!TypeOK
    <3> HIDE DEF l, n
    <3>2. l \in Renglones /\ n \in Nat
      BY <1>1 DEF l, n
    <3> QED
      BY <3>1, <3>2, IvaCrece
  <2>3. /\ m \in Memorias /\ m.parte = p /\ m.i = rLeido[r].i /\ m.valor = rLeido[r].valor
        /\ m.iva = rLeido[r].iva /\ m.recibido = rLeido[r].recibido
    <3> HIDE DEF p
    <3> QED
      BY <1>1, <2>2 DEF Memorias
  <2>4. rLeido' \in [R!Actores -> Memorias] /\ rLeido'[r] = m
        /\ \A b \in R!Actores : b # r => rLeido'[b] = rLeido[b]
    <3> HIDE DEF m
    <3> QED
      BY <1>1, <2>1, <2>3, PoneMemoria
  <2>5. rPc' \in [R!Actores -> PasosDeR] /\ rPc'[r] = "entrar" /\ \A b \in R!Actores : b # r => rPc'[b] = rPc[b]
    BY <1>1, <2>1, VaHace DEF PasosDeR
  <2>6. orden.recibido[l] + n <= Pide[l] /\ m.i \in Nat
    BY <1>1, <1>3, <2>3, Lee DEF R!Cabe
  <2> HIDE DEF m
  <2> QED
    BY <1>1, <2>1, <2>3, <2>4, <2>5, <2>6 DEF Sanos, Solo
<1>4. CASE ~(rLeido[r].recibido[l] + n > Pide[l]) /\ ~R!Cabe(r, l, n)
  <2> DEFINE m == [rLeido[r] EXCEPT !.i = @ + 1]
  <2>1. /\ rota' = rota /\ orden' = orden /\ R!Sigue(r, rLeido[r].i + 1, rLeido[r].valor)
        /\ rLeido' = [rLeido EXCEPT ![r] = m]
    BY <1>1, <1>4 DEF R!Renglon
  <2>2. /\ m \in Memorias /\ m.i = rLeido[r].i + 1 /\ m.valor = rLeido[r].valor
        /\ m.iva = rLeido[r].iva /\ m.recibido = rLeido[r].recibido
    <3>1. rLeido[r].i + 1 \in Nat
      BY Lee
    <3> QED
      BY <1>1, <3>1 DEF Memorias
  <2>3. rLeido' \in [R!Actores -> Memorias] /\ rLeido'[r] = m
        /\ \A b \in R!Actores : b # r => rLeido'[b] = rLeido[b]
    <3> HIDE DEF m
    <3> QED
      BY <1>1, <2>1, <2>2, PoneMemoria
  <2>4. rLeido[r].i + 1 \in Nat \ {0} /\ rLeido[r].valor \in Nat
    BY Lee
  <2>5. /\ rPc' \in [R!Actores -> PasosDeR] /\ \A b \in R!Actores : b # r => rPc'[b] = rPc[b]
        /\ \/ rPc'[r] = "renglon" /\ rLeido[r].i + 1 \in 1..Len(Trae[r])
           \/ rPc'[r] = "fin" /\ rLeido[r].valor = 0
           \/ rPc'[r] \in {"deber", "recibo"} /\ rLeido[r].valor > 0 /\ (r \in Credito => rPc'[r] = "deber")
    BY <2>1, <2>4, SigueHace
  <2> HIDE DEF m
  <2> QED
    BY <1>1, <2>1, <2>2, <2>3, <2>4, <2>5 DEF Sanos, Solo
<1> QED
  BY <1>2, <1>3, <1>4

LEMMA EntrarHace ==
    ASSUME R!Supuestos, R!TypeOK, RutasDeR, NEW r \in Recepciones, R!Entrar(r)
    PROVE  /\ Sanos(r) /\ rPc[r] = "entrar"
           /\ R!Lleva(r).renglon \in Renglones /\ R!Lleva(r).cant \in Nat \ {0}
           /\ bodega' = [bodega EXCEPT ![R!Lleva(r).renglon] = @ + R!Lleva(r).cant]
           /\ rLeido'[r].recibido = [rLeido[r].recibido EXCEPT ![R!Lleva(r).renglon] = @ + R!Lleva(r).cant]
           /\ rLeido'[r].valor = rLeido[r].valor + R!Lleva(r).cant
           /\ rLeido'[r].iva = rLeido[r].iva + rLeido[r].parte
           /\ \/ rPc'[r] = "renglon" /\ rLeido'[r].i \in 1..Len(Trae[r])
              \/ rPc'[r] \in {"deber", "recibo"} /\ (r \in Credito => rPc'[r] = "deber")
<1>1. /\ r \in R!Actores /\ rLeido[r] \in Memorias /\ rPc[r] = "entrar" /\ rLeido[r].i \in 1..Len(Trae[r])
      /\ R!Lleva(r).renglon \in Renglones /\ R!Lleva(r).cant \in Nat \ {0}
  BY Lee DEF R!Entrar, RutasDeR, Ruta
<1> DEFINE l == R!Lleva(r).renglon
           n == R!Lleva(r).cant
           q == [rLeido[r].recibido EXCEPT ![l] = @ + n]
           m == [recibido |-> q, estado |-> rLeido[r].estado, i |-> rLeido[r].i + 1,
                 parte |-> rLeido[r].parte, valor |-> rLeido[r].valor + n,
                 iva |-> rLeido[r].iva + rLeido[r].parte]
<1>2. q \in [Renglones -> Nat]
  BY <1>1, Lee
<1>3. /\ m \in Memorias /\ m.i = rLeido[r].i + 1 /\ m.valor = rLeido[r].valor + n
      /\ m.iva = rLeido[r].iva + rLeido[r].parte /\ m.recibido = q
  <2>0. n \in Nat /\ rLeido[r].i \in Nat /\ rLeido[r].valor \in Nat /\ rLeido[r].iva \in Nat
        /\ rLeido[r].parte \in Nat
    BY <1>1, Lee
  <2>1. rLeido[r].i + 1 \in Nat /\ rLeido[r].valor + n \in Nat /\ rLeido[r].iva + rLeido[r].parte \in Nat
    <3> HIDE DEF n
    <3> QED
      BY <2>0
  <2>2. rLeido[r].estado \in {"sent", "partial"} /\ rLeido[r].parte \in Nat
    BY <1>1 DEF Memorias
  <2> HIDE DEF q, n
  <2> QED
    BY <1>2, <2>1, <2>2 DEF Memorias
<1>4. /\ R!Sigue(r, rLeido[r].i + 1, rLeido[r].valor + n)
      /\ rLeido' = [rLeido EXCEPT ![r].recibido[l] = @ + n, ![r].valor = @ + n,
                              ![r].iva = @ + rLeido[r].parte, ![r].i = @ + 1]
      /\ bodega' = [bodega EXCEPT ![l] = @ + n]
  BY DEF R!Entrar
<1>5. rLeido' = [rLeido EXCEPT ![r] = m]
  <2>1. rLeido[r] = [recibido |-> rLeido[r].recibido, estado |-> rLeido[r].estado, i |-> rLeido[r].i,
                    parte |-> rLeido[r].parte, valor |-> rLeido[r].valor, iva |-> rLeido[r].iva]
    BY <1>1 DEF Memorias
  <2>2. rLeido \in [R!Actores -> Memorias]
    BY DEF R!TypeOK, Memorias
  <2> QED
    BY <1>1, <1>4, <2>1, <2>2
<1>6. rLeido' \in [R!Actores -> Memorias] /\ rLeido'[r] = m
      /\ \A b \in R!Actores : b # r => rLeido'[b] = rLeido[b]
  <2> HIDE DEF m
  <2> QED
    BY <1>1, <1>3, <1>5, PoneMemoria
<1>7. rLeido[r].i + 1 \in Nat \ {0} /\ rLeido[r].valor + n \in Nat \ {0}
  BY <1>1, Lee
<1>8. /\ rPc' \in [R!Actores -> PasosDeR] /\ \A b \in R!Actores : b # r => rPc'[b] = rPc[b]
      /\ \/ rPc'[r] = "renglon" /\ rLeido[r].i + 1 \in 1..Len(Trae[r])
         \/ rPc'[r] = "fin" /\ rLeido[r].valor + n = 0
         \/ rPc'[r] \in {"deber", "recibo"} /\ rLeido[r].valor + n > 0 /\ (r \in Credito => rPc'[r] = "deber")
  <2> HIDE DEF n
  <2> QED
    BY <1>4, <1>7, SigueHace
<1> HIDE DEF m
<1> QED
  BY <1>1, <1>3, <1>4, <1>6, <1>7, <1>8 DEF Sanos, Solo

\* The last steps of a reception.
LEMMA CierraHace ==
    ASSUME R!Supuestos, R!TypeOK, NEW r \in Recepciones, R!Deber(r) \/ R!Recibo(r) \/ R!Asentar(r) \/ R!Corte(r)
    PROVE  /\ Sanos(r) /\ rLeido' = rLeido
           /\ R!Deber(r) => rPc[r] = "deber" /\ rPc'[r] = "recibo"
           /\ R!Recibo(r) => rPc[r] = "recibo" /\ rPc'[r] = "asentar"
           /\ R!Asentar(r) => rPc[r] = "asentar" /\ rPc'[r] = "hecho"
           /\ R!Corte(r) => /\ rPc'[r] = "fin"
                          /\ rPc[r] \in {"renglon", "entrar", "deber", "recibo", "asentar"}
<1>1. r \in R!Actores /\ rLeido \in [R!Actores -> Memorias]
  BY Lee DEF R!TypeOK, Memorias
<1>2. rLeido' = rLeido
  BY DEF R!Deber, R!Recibo, R!Asentar, R!Corte
<1>3. ASSUME NEW s \in {"recibo", "asentar", "hecho", "fin"}, R!Va(r, s)
      PROVE  Sanos(r) /\ rPc'[r] = s
  <2>1. s \in PasosDeR
    BY DEF PasosDeR
  <2>2. rPc' \in [R!Actores -> PasosDeR] /\ rPc'[r] = s /\ \A b \in R!Actores : b # r => rPc'[b] = rPc[b]
    BY <1>1, <1>3, <2>1, VaHace
  <2> QED
    BY <1>1, <1>2, <2>2 DEF Sanos, Solo
<1>4. R!Deber(r) => Sanos(r) /\ rPc[r] = "deber" /\ rPc'[r] = "recibo"
  BY <1>3 DEF R!Deber
<1>5. R!Recibo(r) => Sanos(r) /\ rPc[r] = "recibo" /\ rPc'[r] = "asentar"
  BY <1>3 DEF R!Recibo
<1>6. R!Asentar(r) => Sanos(r) /\ rPc[r] = "asentar" /\ rPc'[r] = "hecho"
  BY <1>3 DEF R!Asentar
<1>7. R!Corte(r) => /\ Sanos(r) /\ rPc'[r] = "fin"
                  /\ rPc[r] \in {"renglon", "entrar", "deber", "recibo", "asentar"}
  BY <1>3 DEF R!Corte
<1> QED
  BY <1>2, <1>4, <1>5, <1>6, <1>7

LEMMA AnularHace ==
    ASSUME R!Supuestos, R!TypeOK, NEW a \in rAnuladores, R!LeerAnular(a) \/ R!GuardarAnular(a)
    PROVE  /\ a \in R!Actores /\ Sanos(a) /\ rLeido' = rLeido
           /\ \A r \in Recepciones : rPc'[r] = rPc[r]
           /\ rPc'[a] \in {"anular", "hecho", "fin"}
<1>1. a \in R!Actores /\ rLeido \in [R!Actores -> Memorias] /\ a \notin Recepciones /\ rLeido' = rLeido
  BY DEF R!TypeOK, Memorias, R!Actores, R!Supuestos, R!LeerAnular, R!GuardarAnular
<1>2. \E s \in {"anular", "hecho", "fin"} : R!Va(a, s)
  BY DEF R!LeerAnular, R!GuardarAnular
<1>3. rPc' \in [R!Actores -> PasosDeR] /\ rPc'[a] \in {"anular", "hecho", "fin"}
      /\ \A b \in R!Actores : b # a => rPc'[b] = rPc[b]
  BY <1>1, <1>2, VaHace DEF PasosDeR
<1> QED
  BY <1>1, <1>3 DEF Sanos, Solo, R!Actores

-----------------------------------------------------------------------------
(* Each step keeps what a reception has done *)

LEMMA TiposPasoDeR ==
    ASSUME R!Supuestos, ~rCruces, IInvDeR, [R!Next]_(R!vars)
    PROVE  R!TypeOK'
<1>1. ASSUME NEW r \in Recepciones, R!Leer(r) PROVE R!TypeOK'
  BY <1>1, LeerHace DEF IInvDeR, R!TypeOK, Sanos, Memorias, PasosDeR, R!Leer
<1>2. ASSUME NEW r \in Recepciones, R!Renglon(r) PROVE R!TypeOK'
  <2>1. R!TypeOK /\ RutasDeR
    BY DEF IInvDeR
  <2>2. Sanos(r) /\ R!Lleva(r).renglon \in Renglones /\ R!Lleva(r).cant \in Nat /\ rota' \in BOOLEAN
    BY <1>2, <2>1, RenglonHace DEF R!TypeOK
  <2>3. orden' = orden \/ orden' = [orden EXCEPT !.recibido[R!Lleva(r).renglon] = @ + R!Lleva(r).cant]
    BY <1>2, <2>1, RenglonHace
  <2>4. orden' \in [estado : {"sent", "partial", "received", "cancelled"}, recibido : [Renglones -> Nat]]
    <3> DEFINE l == R!Lleva(r).renglon
               n == R!Lleva(r).cant
    <3>1. l \in Renglones /\ n \in Nat
      BY <2>2
    <3>2. orden' = orden \/ orden' = [orden EXCEPT !.recibido[l] = @ + n]
      BY <2>3
    <3> HIDE DEF l, n
    <3> QED
      BY <2>1, <3>1, <3>2 DEF R!TypeOK
  <2> QED
    BY <1>2, <2>1, <2>2, <2>4 DEF R!TypeOK, Sanos, Memorias, PasosDeR, R!Renglon
<1>3. ASSUME NEW r \in Recepciones, R!Entrar(r) PROVE R!TypeOK'
  <2>1. R!TypeOK /\ RutasDeR
    BY DEF IInvDeR
  <2>2. /\ Sanos(r) /\ R!Lleva(r).renglon \in Renglones /\ R!Lleva(r).cant \in Nat
        /\ bodega' = [bodega EXCEPT ![R!Lleva(r).renglon] = @ + R!Lleva(r).cant]
    BY <1>3, <2>1, EntrarHace
  <2>3. bodega' \in [Renglones -> Nat]
    BY <2>1, <2>2 DEF R!TypeOK
  <2> QED
    BY <1>3, <2>1, <2>2, <2>3 DEF R!TypeOK, Sanos, Memorias, PasosDeR, R!Entrar
<1>4. ASSUME NEW r \in Recepciones, R!Deber(r) PROVE R!TypeOK'
  BY <1>4, Lee, CierraHace DEF IInvDeR, R!TypeOK, Sanos, Memorias, PasosDeR, R!Deber
<1>5. ASSUME NEW r \in Recepciones, R!Recibo(r) PROVE R!TypeOK'
  BY <1>5, CierraHace DEF IInvDeR, R!TypeOK, Sanos, Memorias, PasosDeR, R!Recibo, R!Estado
<1>6. ASSUME NEW r \in Recepciones, R!Asentar(r) PROVE R!TypeOK'
  BY <1>6, Lee, CierraHace DEF IInvDeR, R!TypeOK, Sanos, Memorias, PasosDeR, R!Asentar
<1>7. ASSUME NEW r \in Recepciones, R!Corte(r) PROVE R!TypeOK'
  <2>1. Sanos(r) /\ rota \in BOOLEAN /\ rota' \in BOOLEAN
    BY <1>7, CierraHace DEF IInvDeR, R!TypeOK, R!Corte
  <2>2. rMaxCortes \in Nat
    BY DEF R!Supuestos
  <2>3. rCortes \in 0..rMaxCortes /\ rCortes < rMaxCortes /\ rCortes' = rCortes + 1
    BY <1>7 DEF IInvDeR, R!TypeOK, R!Corte
  <2>4. rCortes' \in 0..rMaxCortes
    BY <2>2, <2>3
  <2> QED
    BY <1>7, <2>1, <2>4 DEF IInvDeR, R!TypeOK, Sanos, Memorias, PasosDeR, R!Corte
<1>8. ASSUME NEW a \in rAnuladores, R!LeerAnular(a) PROVE R!TypeOK'
  BY <1>8, AnularHace DEF IInvDeR, R!TypeOK, Sanos, Memorias, PasosDeR, R!LeerAnular
<1>9. ASSUME NEW a \in rAnuladores, R!GuardarAnular(a) PROVE R!TypeOK'
  BY <1>9, AnularHace DEF IInvDeR, R!TypeOK, Sanos, Memorias, PasosDeR, R!GuardarAnular
<1>10. ASSUME UNCHANGED R!vars PROVE R!TypeOK'
  BY <1>10 DEF IInvDeR, R!TypeOK, R!vars
<1> QED
  BY <1>1, <1>2, <1>3, <1>4, <1>5, <1>6, <1>7, <1>8, <1>9, <1>10 DEF R!Next

LEMMA RutaDeOtro ==
    ASSUME NEW q \in Recepciones, Ruta(q), rPc'[q] = rPc[q], rLeido'[q] = rLeido[q],
           cxp'[q] = cxp[q], rLibro'[q] = rLibro[q], rota => rota'
    PROVE  Ruta(q)'
BY DEF Ruta, R!Total

\* The requests beside r do not change: what remains is r's own.
LEMMA RutaDeUno ==
    ASSUME R!Supuestos, RutasDeR, NEW r \in Recepciones, Solo(r), rota => rota',
           \A q \in Recepciones : q # r => cxp'[q] = cxp[q] /\ rLibro'[q] = rLibro[q],
           Ruta(r)'
    PROVE  RutasDeR'
<1>1. \A q \in Recepciones : q # r => Ruta(q)'
  BY RutaDeOtro DEF RutasDeR, Solo, R!Actores
<1> QED
  BY <1>1 DEF RutasDeR

LEMMA RutasPasoDeR ==
    ASSUME R!Supuestos, ~rCruces, IInvDeR, [R!Next]_(R!vars)
    PROVE  RutasDeR'
<1>1. ASSUME NEW r \in Recepciones, R!Leer(r) PROVE RutasDeR'
  <2>1. R!TypeOK /\ RutasDeR /\ Ruta(r) /\ r \in R!Actores
    BY Lee DEF IInvDeR, RutasDeR
  <2>2. /\ Sanos(r) /\ rPc[r] = "libre"
        /\ \/ rPc'[r] = "fin" /\ rLeido' = rLeido
           \/ /\ rPc'[r] = "renglon" /\ rLeido'[r].i = 1 /\ rLeido'[r].valor = 0 /\ rLeido'[r].iva = 0
    BY <1>1, <2>1, LeerHace
  <2>3. 1 \in 1..Len(Trae[r]) /\ UNCHANGED <<cxp, rLibro, rota>>
    BY <1>1, <2>1, Lee DEF R!Leer
  <2>5. rota => rota'
    BY <1>1 DEF R!Leer
  <2>6. \A q \in Recepciones : q # r => cxp'[q] = cxp[q] /\ rLibro'[q] = rLibro[q]
    BY <1>1 DEF R!Leer, IInvDeR, R!TypeOK
  <2>7. Ruta(r)'
    BY <2>1, <2>2, <2>3 DEF Ruta
  <2> QED
    BY <2>1, <2>2, <2>5, <2>6, <2>7, RutaDeUno DEF Sanos
<1>2. ASSUME NEW r \in Recepciones, R!Renglon(r) PROVE RutasDeR'
  <2>1. R!TypeOK /\ RutasDeR /\ Ruta(r) /\ r \in R!Actores
    BY Lee DEF IInvDeR, RutasDeR
  <2>2. /\ Sanos(r) /\ rPc[r] = "renglon" /\ rLeido[r].valor \in Nat
        /\ rLeido'[r].valor = rLeido[r].valor /\ rLeido'[r].iva = rLeido[r].iva
        /\ \/ rPc'[r] = "fin"
           \/ rPc'[r] = "entrar" /\ rLeido'[r].i = rLeido[r].i
           \/ rPc'[r] = "renglon" /\ rLeido'[r].i \in 1..Len(Trae[r])
           \/ rPc'[r] \in {"deber", "recibo"} /\ rLeido[r].valor > 0 /\ (r \in Credito => rPc'[r] = "deber")
    BY <1>2, <2>1, RenglonHace, Lee
  <2>3. UNCHANGED <<cxp, rLibro>>
    BY <1>2 DEF R!Renglon
  <2>5. rota => rota'
    BY <1>2 DEF R!Renglon, R!Rompe
  <2>6. \A q \in Recepciones : q # r => cxp'[q] = cxp[q] /\ rLibro'[q] = rLibro[q]
    BY <1>2 DEF R!Renglon, R!Rompe, IInvDeR, R!TypeOK
  <2>7. Ruta(r)'
    BY <2>1, <2>2, <2>3 DEF Ruta
  <2> QED
    BY <2>1, <2>2, <2>5, <2>6, <2>7, RutaDeUno DEF Sanos
<1>3. ASSUME NEW r \in Recepciones, R!Entrar(r) PROVE RutasDeR'
  <2>1. R!TypeOK /\ RutasDeR /\ Ruta(r) /\ r \in R!Actores
    BY Lee DEF IInvDeR, RutasDeR
  <2>2. /\ Sanos(r) /\ rPc[r] = "entrar" /\ rLeido[r].valor \in Nat /\ R!Lleva(r).cant \in Nat \ {0}
        /\ rLeido'[r].valor = rLeido[r].valor + R!Lleva(r).cant
        /\ \/ rPc'[r] = "renglon" /\ rLeido'[r].i \in 1..Len(Trae[r])
           \/ rPc'[r] \in {"deber", "recibo"} /\ (r \in Credito => rPc'[r] = "deber")
    BY <1>3, <2>1, EntrarHace, Lee
  <2>3. UNCHANGED <<cxp, rLibro>> /\ rLeido'[r].valor > 0
    BY <1>3, <2>2 DEF R!Entrar
  <2>5. rota => rota'
    BY <1>3 DEF R!Entrar
  <2>6. \A q \in Recepciones : q # r => cxp'[q] = cxp[q] /\ rLibro'[q] = rLibro[q]
    BY <1>3 DEF R!Entrar, IInvDeR, R!TypeOK
  <2>7. Ruta(r)'
    BY <2>1, <2>2, <2>3 DEF Ruta
  <2> QED
    BY <2>1, <2>2, <2>5, <2>6, <2>7, RutaDeUno DEF Sanos
<1>4. ASSUME NEW r \in Recepciones, R!Deber(r) PROVE RutasDeR'
  <2>1. R!TypeOK /\ RutasDeR /\ Ruta(r) /\ r \in R!Actores
    BY Lee DEF IInvDeR, RutasDeR
  <2>2. Sanos(r) /\ rLeido' = rLeido /\ rPc[r] = "deber" /\ rPc'[r] = "recibo"
    BY <1>4, <2>1, CierraHace
  <2>3. UNCHANGED <<rLibro, rota>> /\ cxp'[r] = R!Total(r)
    BY <1>4, <2>1 DEF R!Deber, IInvDeR, R!TypeOK
  <2>5. rota => rota'
    BY <1>4 DEF R!Deber
  <2>6. \A q \in Recepciones : q # r => cxp'[q] = cxp[q] /\ rLibro'[q] = rLibro[q]
    BY <1>4 DEF R!Deber, IInvDeR, R!TypeOK
  <2>7. Ruta(r)'
    BY <2>1, <2>2, <2>3 DEF Ruta, R!Total
  <2> QED
    BY <2>1, <2>2, <2>5, <2>6, <2>7, RutaDeUno DEF Sanos
<1>5. ASSUME NEW r \in Recepciones, R!Recibo(r) PROVE RutasDeR'
  <2>1. R!TypeOK /\ RutasDeR /\ Ruta(r) /\ r \in R!Actores
    BY Lee DEF IInvDeR, RutasDeR
  <2>2. Sanos(r) /\ rLeido' = rLeido /\ rPc[r] = "recibo" /\ rPc'[r] = "asentar"
    BY <1>5, <2>1, CierraHace
  <2>3. UNCHANGED <<cxp, rLibro, rota>>
    BY <1>5 DEF R!Recibo
  <2>5. rota => rota'
    BY <1>5 DEF R!Recibo
  <2>6. \A q \in Recepciones : q # r => cxp'[q] = cxp[q] /\ rLibro'[q] = rLibro[q]
    BY <1>5 DEF R!Recibo, IInvDeR, R!TypeOK
  <2>7. Ruta(r)'
    BY <2>1, <2>2, <2>3 DEF Ruta, R!Total
  <2> QED
    BY <2>1, <2>2, <2>5, <2>6, <2>7, RutaDeUno DEF Sanos
<1>6. ASSUME NEW r \in Recepciones, R!Asentar(r) PROVE RutasDeR'
  <2>1. R!TypeOK /\ RutasDeR /\ Ruta(r) /\ r \in R!Actores
    BY Lee DEF IInvDeR, RutasDeR
  <2>2. Sanos(r) /\ rLeido' = rLeido /\ rPc[r] = "asentar" /\ rPc'[r] = "hecho"
    BY <1>6, <2>1, CierraHace
  <2>3. UNCHANGED <<cxp, rota>> /\ rLibro'[r] = R!Total(r)
    BY <1>6, <2>1 DEF R!Asentar, IInvDeR, R!TypeOK
  <2>5. rota => rota'
    BY <1>6 DEF R!Asentar
  <2>6. \A q \in Recepciones : q # r => cxp'[q] = cxp[q] /\ rLibro'[q] = rLibro[q]
    BY <1>6 DEF R!Asentar, IInvDeR, R!TypeOK
  <2>7. Ruta(r)'
    BY <2>1, <2>2, <2>3 DEF Ruta, R!Total
  <2> QED
    BY <2>1, <2>2, <2>5, <2>6, <2>7, RutaDeUno DEF Sanos
<1>7. ASSUME NEW r \in Recepciones, R!Corte(r) PROVE RutasDeR'
  <2>1. R!TypeOK /\ RutasDeR /\ Ruta(r) /\ r \in R!Actores
    BY Lee DEF IInvDeR, RutasDeR
  <2>2. /\ Sanos(r) /\ rLeido' = rLeido /\ rPc'[r] = "fin"
        /\ rPc[r] \in {"renglon", "entrar", "deber", "recibo", "asentar"}
    BY <1>7, <2>1, CierraHace
  <2>3. /\ UNCHANGED <<cxp, rLibro>>
        /\ rPc[r] \in {"deber", "recibo", "asentar"} => rota'
    BY <1>7, <2>1 DEF R!Corte, Ruta
  <2>5. rota => rota'
    BY <1>7 DEF R!Corte
  <2>6. \A q \in Recepciones : q # r => cxp'[q] = cxp[q] /\ rLibro'[q] = rLibro[q]
    BY <1>7 DEF R!Corte, IInvDeR, R!TypeOK
  <2>7. Ruta(r)'
    BY <2>1, <2>2, <2>3 DEF Ruta, R!Total
  <2> QED
    BY <2>1, <2>2, <2>5, <2>6, <2>7, RutaDeUno DEF Sanos
<1>8. ASSUME NEW a \in rAnuladores, R!LeerAnular(a) PROVE RutasDeR'
  <2>1. rLeido' = rLeido /\ \A r \in Recepciones : rPc'[r] = rPc[r]
    BY <1>8, AnularHace DEF IInvDeR
  <2>2. UNCHANGED <<cxp, rLibro, rota>>
    BY <1>8 DEF R!LeerAnular
  <2> QED
    BY <2>1, <2>2, RutaDeOtro DEF IInvDeR, RutasDeR
<1>9. ASSUME NEW a \in rAnuladores, R!GuardarAnular(a) PROVE RutasDeR'
  <2>1. rLeido' = rLeido /\ \A r \in Recepciones : rPc'[r] = rPc[r]
    BY <1>9, AnularHace DEF IInvDeR
  <2>2. UNCHANGED <<cxp, rLibro, rota>>
    BY <1>9 DEF R!GuardarAnular
  <2> QED
    BY <2>1, <2>2, RutaDeOtro DEF IInvDeR, RutasDeR
<1>10. ASSUME UNCHANGED R!vars PROVE RutasDeR'
  BY <1>10, RutaDeOtro DEF IInvDeR, RutasDeR, R!vars
<1> QED
  BY <1>1, <1>2, <1>3, <1>4, <1>5, <1>6, <1>7, <1>8, <1>9, <1>10 DEF R!Next

-----------------------------------------------------------------------------
(* Each step keeps the goods and the money *)

LEMMA VueloNatural ==
    ASSUME R!Supuestos, R!TypeOK, RutasDeR, NEW r \in Recepciones
    PROVE  /\ Tiene(r) \in Nat
           /\ \A l \in Renglones : EnVuelo(r, l) \in Nat /\ orden.recibido[l] \in Nat
<1>1. rPc[r] = "entrar" => R!Lleva(r).cant \in Nat
  BY Lee DEF RutasDeR, Ruta
<1>2. R!Total(r) \in Nat /\ rLeido[r].parte \in Nat
  BY Lee
<1> QED
  BY <1>1, <1>2 DEF Tiene, EnVuelo, R!TypeOK

LEMMA VueloDespues ==
    ASSUME R!Supuestos, R!TypeOK', RutasDeR', NEW r \in Recepciones
    PROVE  Tiene(r)' \in Nat /\ \A l \in Renglones : EnVuelo(r, l)' \in Nat
<1>1. ASSUME rLeido'[r].i \in 1..Len(Trae[r]) PROVE Trae[r][rLeido'[r].i].cant \in Nat
  <2> DEFINE S == [renglon : Renglones, cant : Nat \ {0}]
             i == rLeido'[r].i
  <2>1. Trae[r] \in Seq(S) /\ i \in 1..Len(Trae[r])
    BY <1>1 DEF R!Supuestos
  <2>2. Trae[r][i] \in S
    <3> HIDE DEF S, i
    <3> QED
      BY <2>1
  <2> QED
    BY <2>2
<1>2. rPc'[r] = "entrar" => R!Lleva(r).cant' \in Nat
  BY <1>1 DEF RutasDeR, Ruta, R!Lleva
<1>3. rLeido'[r].parte \in Nat /\ R!Total(r)' \in Nat
  BY DEF R!TypeOK, R!Actores, R!Total
<1> QED
  BY <1>2, <1>3 DEF Tiene, EnVuelo

\* A step of one reception changes its own part of the sums.
LEMMA VuelanCambia ==
    ASSUME R!Supuestos, R!TypeOK, R!TypeOK', RutasDeR, RutasDeR', NEW r \in Recepciones, Solo(r)
    PROVE  /\ Tienen' = Tienen - Tiene(r) + Tiene(r)' /\ Tienen \in Nat
           /\ \A l \in Renglones :
                Vuelan(l)' = Vuelan(l) - EnVuelo(r, l) + EnVuelo(r, l)' /\ Vuelan(l) \in Nat
<1>1. IsFiniteSet(Recepciones)
  BY MismasFinitas DEF R!Supuestos
<1>2. \A q \in Recepciones :
        /\ Tiene(q) \in Nat /\ Tiene(q)' \in Nat
        /\ \A l \in Renglones : EnVuelo(q, l) \in Nat /\ EnVuelo(q, l)' \in Nat
  <2>1. \A q \in Recepciones : Tiene(q) \in Nat /\ \A l \in Renglones : EnVuelo(q, l) \in Nat
    BY VueloNatural
  <2>2. \A q \in Recepciones : Tiene(q)' \in Nat /\ \A l \in Renglones : EnVuelo(q, l)' \in Nat
    BY VueloDespues
  <2> QED
    BY <2>1, <2>2
<1>3. \A q \in Recepciones : q # r =>
        Tiene(q)' = Tiene(q) /\ \A l \in Renglones : EnVuelo(q, l)' = EnVuelo(q, l)
  BY DEF Solo, R!Actores, Tiene, EnVuelo, R!Lleva, R!Total
<1>4. Tienen' = Tienen - Tiene(r) + Tiene(r)' /\ Tienen \in Nat
  <2> DEFINE f == [q \in Recepciones |-> Tiene(q)]
             g == [q \in Recepciones |-> Tiene(q)']
  <2>1. /\ \A q \in Recepciones : f[q] \in Nat /\ g[q] \in Nat /\ f[q] \in Int /\ g[q] \in Int
        /\ \A q \in Recepciones \ {r} : g[q] = f[q]
        /\ f[r] = Tiene(r) /\ g[r] = Tiene(r)'
    BY <1>2, <1>3
  <2>2. Tienen = SumFunctionOnSet(f, Recepciones) /\ Tienen' = SumFunctionOnSet(g, Recepciones)
    BY DEF Tienen
  <2> HIDE DEF f, g
  <2>3. SumFunctionOnSet(g, Recepciones) = SumFunctionOnSet(f, Recepciones) - f[r] + g[r]
    BY <1>1, <2>1, SumaCambia
  <2>4. SumFunctionOnSet(f, Recepciones) \in Nat
    BY <1>1, <2>1, SumaNatural
  <2> QED
    BY <2>1, <2>2, <2>3, <2>4
<1>5. ASSUME NEW l \in Renglones
      PROVE  Vuelan(l)' = Vuelan(l) - EnVuelo(r, l) + EnVuelo(r, l)' /\ Vuelan(l) \in Nat
  <2> DEFINE f == [q \in Recepciones |-> EnVuelo(q, l)]
             g == [q \in Recepciones |-> EnVuelo(q, l)']
  <2>1. /\ \A q \in Recepciones : f[q] \in Nat /\ g[q] \in Nat /\ f[q] \in Int /\ g[q] \in Int
        /\ \A q \in Recepciones \ {r} : g[q] = f[q]
        /\ f[r] = EnVuelo(r, l) /\ g[r] = EnVuelo(r, l)'
    BY <1>2, <1>3
  <2>2. Vuelan(l) = SumFunctionOnSet(f, Recepciones) /\ Vuelan(l)' = SumFunctionOnSet(g, Recepciones)
    BY DEF Vuelan
  <2> HIDE DEF f, g
  <2>3. SumFunctionOnSet(g, Recepciones) = SumFunctionOnSet(f, Recepciones) - f[r] + g[r]
    BY <1>1, <2>1, SumaCambia
  <2>4. SumFunctionOnSet(f, Recepciones) \in Nat
    BY <1>1, <2>1, SumaNatural
  <2> QED
    BY <2>1, <2>2, <2>3, <2>4
<1> QED
  BY <1>4, <1>5

\* What has come in grows by what a line is advanced, and its tax.
LEMMA BrutosCambia ==
    ASSUME R!Supuestos, R!TypeOK, NEW l \in Renglones, NEW n \in Nat,
           orden' = [orden EXCEPT !.recibido[l] = @ + n]
    PROVE  /\ Brutos \in Int
           /\ Brutos' = Brutos + n
                + (R!ParteIva(l, orden.recibido[l] + n) - R!ParteIva(l, orden.recibido[l]))
<1>1. IsFiniteSet(Renglones)
  BY MismasFinitas DEF R!Supuestos
<1>2. /\ \A k \in Renglones : orden.recibido[k] \in Nat
      /\ orden'.recibido[l] = orden.recibido[l] + n
      /\ \A k \in Renglones \ {l} : orden'.recibido[k] = orden.recibido[k]
  BY DEF R!TypeOK
<1> DEFINE f == [k \in Renglones |-> Bruto(k)]
           g == [k \in Renglones |-> orden'.recibido[k] + R!ParteIva(k, orden'.recibido[k])]
<1>3. \A k \in Renglones, m \in Nat : R!ParteIva(k, m) \in Nat
  <2> TAKE k \in Renglones, m \in Nat
  <2>1. 0 \in Nat /\ m + 0 = m
    OBVIOUS
  <2> QED
    BY <2>1, IvaCrece
<1>4. \A k \in Renglones : orden'.recibido[k] \in Nat
  BY <1>2
<1>5. /\ \A k \in Renglones : f[k] \in Int /\ g[k] \in Int
      /\ \A k \in Renglones \ {l} : g[k] = f[k]
  BY <1>2, <1>3, <1>4 DEF Bruto
<1>6. f[l] = orden.recibido[l] + R!ParteIva(l, orden.recibido[l])
      /\ g[l] = orden.recibido[l] + n + R!ParteIva(l, orden.recibido[l] + n)
      /\ R!ParteIva(l, orden.recibido[l]) \in Nat /\ R!ParteIva(l, orden.recibido[l] + n) \in Nat
      /\ orden.recibido[l] \in Nat
  BY <1>2, <1>3, <1>4 DEF Bruto
<1>7. Brutos = SumFunctionOnSet(f, Renglones) /\ Brutos' = SumFunctionOnSet(g, Renglones)
  BY DEF Brutos, Bruto, R!ParteIva
<1> HIDE DEF f, g
<1>8. SumFunctionOnSet(g, Renglones) = SumFunctionOnSet(f, Renglones) - f[l] + g[l]
  BY <1>1, <1>5, SumaCambia
<1>9. SumFunctionOnSet(f, Renglones) \in Int
  BY <1>1, <1>5, SumaEntera
<1> QED
  BY <1>6, <1>7, <1>8, <1>9

\* A step that leaves the receptions alone leaves the sums alone.
LEMMA NadaVuela ==
    ASSUME rLeido' = rLeido, \A q \in Recepciones : rPc'[q] = rPc[q]
    PROVE  /\ \A q \in Recepciones : Tiene(q)' = Tiene(q)
           /\ \A q \in Recepciones, l \in Renglones : EnVuelo(q, l)' = EnVuelo(q, l)
           /\ Tienen' = Tienen /\ \A l \in Renglones : Vuelan(l)' = Vuelan(l)
<1>1. \A q \in Recepciones : Tiene(q)' = Tiene(q)
  BY DEF Tiene, R!Lleva, R!Total
<1>2. \A q \in Recepciones, l \in Renglones : EnVuelo(q, l)' = EnVuelo(q, l)
  BY DEF EnVuelo, R!Lleva
<1>3. Tienen' = Tienen
  <2>1. [q \in Recepciones |-> Tiene(q)'] = [q \in Recepciones |-> Tiene(q)]
    BY <1>1
  <2> QED
    BY <2>1 DEF Tienen
<1>4. ASSUME NEW l \in Renglones PROVE Vuelan(l)' = Vuelan(l)
  <2>1. [q \in Recepciones |-> EnVuelo(q, l)'] = [q \in Recepciones |-> EnVuelo(q, l)]
    BY <1>2
  <2> QED
    BY <2>1 DEF Vuelan
<1> QED
  BY <1>1, <1>2, <1>3, <1>4

LEMMA BrutosQuieto ==
    ASSUME orden'.recibido = orden.recibido
    PROVE  Brutos' = Brutos
BY DEF Brutos, Bruto, R!ParteIva

LEMMA BrutosEnteros ==
    ASSUME R!Supuestos, R!TypeOK
    PROVE  Brutos \in Int
<1>1. IsFiniteSet(Renglones)
  BY MismasFinitas DEF R!Supuestos
<1> DEFINE f == [k \in Renglones |-> Bruto(k)]
<1>2. \A k \in Renglones : f[k] \in Int
  <2>1. SUFFICES ASSUME NEW k \in Renglones PROVE Bruto(k) \in Int
    OBVIOUS
  <2>2. orden.recibido[k] \in Nat /\ 0 \in Nat
    BY DEF R!TypeOK
  <2>3. R!ParteIva(k, orden.recibido[k]) \in Nat
    BY <2>2, IvaCrece
  <2> QED
    BY <2>2, <2>3 DEF Bruto
<1>3. SumFunctionOnSet(f, Renglones) \in Int
  <2> HIDE DEF f
  <2> QED
    BY <1>1, <1>2, SumaEntera
<1> QED
  BY <1>3 DEF Brutos

LEMMA TopePaso ==
    ASSUME R!Supuestos, ~rCruces, IInvDeR, [R!Next]_(R!vars)
    PROVE  Tope'
<1>1. ASSUME NEW r \in Recepciones, R!Leer(r) PROVE Tope'
  BY <1>1 DEF IInvDeR, Tope, R!Leer
<1>2. ASSUME NEW r \in Recepciones, R!Renglon(r) PROVE Tope'
  <2> DEFINE l == R!Lleva(r).renglon
             n == R!Lleva(r).cant
  <2>1. R!TypeOK /\ RutasDeR /\ Ruta(r) /\ Tope /\ Sabe /\ Bodegas /\ Caja /\ r \in R!Actores
    BY Lee DEF IInvDeR, RutasDeR
  <2>2. /\ Sanos(r) /\ rPc[r] = "renglon" /\ l \in Renglones /\ n \in Nat \ {0}
        /\ \/ orden' = orden
           \/ orden.recibido[l] + n <= Pide[l] /\ orden' = [orden EXCEPT !.recibido[l] = @ + n]
    BY <1>2, <2>1, RenglonHace
  <2> HIDE DEF l, n
  <2>3. CASE orden' = orden
    BY <2>1, <2>3 DEF Tope
  <2>4. CASE orden.recibido[l] + n <= Pide[l] /\ orden' = [orden EXCEPT !.recibido[l] = @ + n]
    BY <2>1, <2>2, <2>4 DEF Tope, R!TypeOK
  <2> QED
    BY <2>2, <2>3, <2>4
<1>3. ASSUME NEW r \in Recepciones, R!Entrar(r) PROVE Tope'
  BY <1>3 DEF IInvDeR, Tope, R!Entrar
<1>4. ASSUME NEW r \in Recepciones, R!Deber(r) PROVE Tope'
  BY <1>4 DEF IInvDeR, Tope, R!Deber
<1>5. ASSUME NEW r \in Recepciones, R!Recibo(r) PROVE Tope'
  BY <1>5 DEF IInvDeR, R!TypeOK, Tope, R!Recibo
<1>6. ASSUME NEW r \in Recepciones, R!Asentar(r) PROVE Tope'
  BY <1>6 DEF IInvDeR, Tope, R!Asentar
<1>7. ASSUME NEW r \in Recepciones, R!Corte(r) PROVE Tope'
  BY <1>7 DEF IInvDeR, Tope, R!Corte
<1>8. ASSUME NEW a \in rAnuladores, R!LeerAnular(a) PROVE Tope'
  BY <1>8 DEF IInvDeR, Tope, R!LeerAnular
<1>9. ASSUME NEW a \in rAnuladores, R!GuardarAnular(a) PROVE Tope'
  BY <1>9 DEF IInvDeR, R!TypeOK, Tope, R!GuardarAnular
<1>10. ASSUME UNCHANGED R!vars PROVE Tope'
  BY <1>10 DEF IInvDeR, Tope, R!vars
<1> QED
  BY <1>1, <1>2, <1>3, <1>4, <1>5, <1>6, <1>7, <1>8, <1>9, <1>10 DEF R!Next

LEMMA SabeDeUno ==
    ASSUME R!Supuestos, R!TypeOK, R!TypeOK', RutasDeR, Sabe, NEW r \in Recepciones, Solo(r),
           \A l \in Renglones : orden.recibido[l] <= orden'.recibido[l],
           \A l \in Renglones : rLeido'[r].recibido[l] + EnVuelo(r, l)' <= orden'.recibido[l]
    PROVE  Sabe'
<1>1. SUFFICES ASSUME NEW q \in Recepciones, NEW l \in Renglones, q # r
               PROVE  rLeido'[q].recibido[l] + EnVuelo(q, l)' <= orden'.recibido[l]
  BY DEF Sabe
<1>2. rLeido'[q] = rLeido[q] /\ EnVuelo(q, l)' = EnVuelo(q, l)
  BY <1>1 DEF Solo, R!Actores, EnVuelo, R!Lleva
<1>3. rLeido[q].recibido[l] + EnVuelo(q, l) <= orden.recibido[l]
  BY DEF Sabe
<1>4. rLeido[q].recibido[l] \in Nat
  BY Lee
<1>5. EnVuelo(q, l) \in Nat /\ orden.recibido[l] \in Nat
  BY VueloNatural
<1>6. orden'.recibido[l] \in Nat
  BY DEF R!TypeOK
<1> QED
  BY <1>2, <1>3, <1>4, <1>5, <1>6

LEMMA SabePaso ==
    ASSUME R!Supuestos, ~rCruces, IInvDeR, [R!Next]_(R!vars)
    PROVE  Sabe'
<1>1. ASSUME NEW r \in Recepciones, R!Leer(r) PROVE Sabe'
  <2>1. R!TypeOK /\ RutasDeR /\ Ruta(r) /\ Tope /\ Sabe /\ Bodegas /\ Caja /\ r \in R!Actores
    BY Lee DEF IInvDeR, RutasDeR
  <2>2. /\ Sanos(r) /\ rPc[r] = "libre"
        /\ \/ rPc'[r] = "fin" /\ rLeido' = rLeido
           \/ rPc'[r] = "renglon" /\ rLeido'[r].recibido = orden.recibido
    BY <1>1, <2>1, LeerHace
  <2>3. orden' = orden
    BY <1>1 DEF R!Leer
  <2>6. ASSUME NEW k \in Renglones
        PROVE  /\ rLeido[r].recibido[k] + EnVuelo(r, k) <= orden.recibido[k]
               /\ rLeido[r].recibido[k] \in Nat /\ EnVuelo(r, k) \in Nat /\ orden.recibido[k] \in Nat
    BY <2>1, Lee, VueloNatural DEF Sabe
  <2>7. \A k \in Renglones : orden.recibido[k] <= orden'.recibido[k]
    BY <2>3, <2>6
  <2>8. \A k \in Renglones : rLeido'[r].recibido[k] + EnVuelo(r, k)' <= orden'.recibido[k]
    BY <2>2, <2>3, <2>6 DEF EnVuelo
  <2>9. R!TypeOK'
    BY TiposPasoDeR
  <2> QED
    BY <2>1, <2>2, <2>7, <2>8, <2>9, SabeDeUno DEF Sanos
<1>2. ASSUME NEW r \in Recepciones, R!Renglon(r) PROVE Sabe'
  <2> DEFINE l == R!Lleva(r).renglon
             n == R!Lleva(r).cant
  <2>1. R!TypeOK /\ RutasDeR /\ Ruta(r) /\ Tope /\ Sabe /\ Bodegas /\ Caja /\ r \in R!Actores
    BY Lee DEF IInvDeR, RutasDeR
  <2>2. /\ Sanos(r) /\ rPc[r] = "renglon" /\ l \in Renglones /\ n \in Nat \ {0}
        /\ rLeido'[r].recibido = rLeido[r].recibido
        /\ \/ orden' = orden /\ rPc'[r] # "entrar"
           \/ orden' = [orden EXCEPT !.recibido[l] = @ + n] /\ rLeido'[r].i = rLeido[r].i
    BY <1>2, <2>1, RenglonHace
  <2>6. ASSUME NEW k \in Renglones
        PROVE  /\ rLeido[r].recibido[k] + EnVuelo(r, k) <= orden.recibido[k]
               /\ rLeido[r].recibido[k] \in Nat /\ EnVuelo(r, k) \in Nat /\ orden.recibido[k] \in Nat
    BY <2>1, Lee, VueloNatural DEF Sabe
  <2>3. \A k \in Renglones : EnVuelo(r, k)' =
          IF rPc'[r] = "entrar" /\ Trae[r][rLeido'[r].i].renglon = k THEN Trae[r][rLeido'[r].i].cant ELSE 0
    BY DEF EnVuelo, R!Lleva
  <2>4. ASSUME orden' = orden, rPc'[r] # "entrar"
        PROVE  (\A k \in Renglones : /\ rLeido'[r].recibido[k] + EnVuelo(r, k)' <= orden'.recibido[k]
                              /\ orden.recibido[k] <= orden'.recibido[k])
    BY <2>2, <2>3, <2>4, <2>6
  <2>5. ASSUME orden' = [orden EXCEPT !.recibido[l] = @ + n], rLeido'[r].i = rLeido[r].i
        PROVE  (\A k \in Renglones : /\ rLeido'[r].recibido[k] + EnVuelo(r, k)' <= orden'.recibido[k]
                              /\ orden.recibido[k] <= orden'.recibido[k])
    <3>1. \A k \in Renglones : EnVuelo(r, k)' = 0 \/ (k = l /\ EnVuelo(r, k)' = n)
      BY <2>3, <2>5 DEF R!Lleva
    <3> HIDE DEF l, n
    <3>2. \A k \in Renglones : orden'.recibido[k] = IF k = l THEN orden.recibido[k] + n
                                                           ELSE orden.recibido[k]
      BY <2>1, <2>2, <2>5 DEF R!TypeOK
    <3> QED
      BY <2>2, <2>6, <3>1, <3>2
  <2>7. \A k \in Renglones : orden.recibido[k] <= orden'.recibido[k]
    BY <2>2, <2>4, <2>5
  <2>8. \A k \in Renglones : rLeido'[r].recibido[k] + EnVuelo(r, k)' <= orden'.recibido[k]
    BY <2>2, <2>4, <2>5
  <2>9. R!TypeOK'
    BY TiposPasoDeR
  <2> QED
    BY <2>1, <2>2, <2>7, <2>8, <2>9, SabeDeUno DEF Sanos
<1>3. ASSUME NEW r \in Recepciones, R!Entrar(r) PROVE Sabe'
  <2> DEFINE l == R!Lleva(r).renglon
             n == R!Lleva(r).cant
  <2>1. R!TypeOK /\ RutasDeR /\ Ruta(r) /\ Tope /\ Sabe /\ Bodegas /\ Caja /\ r \in R!Actores
    BY Lee DEF IInvDeR, RutasDeR
  <2>2. /\ Sanos(r) /\ rPc[r] = "entrar" /\ l \in Renglones /\ n \in Nat \ {0}
        /\ rLeido'[r].recibido = [rLeido[r].recibido EXCEPT ![l] = @ + n]
        /\ rPc'[r] # "entrar"
    BY <1>3, <2>1, EntrarHace
  <2>3. orden' = orden
    BY <1>3 DEF R!Entrar
  <2>6. ASSUME NEW k \in Renglones
        PROVE  /\ rLeido[r].recibido[k] + EnVuelo(r, k) <= orden.recibido[k]
               /\ rLeido[r].recibido[k] \in Nat /\ EnVuelo(r, k) \in Nat /\ orden.recibido[k] \in Nat
    BY <2>1, Lee, VueloNatural DEF Sabe
  <2>7. \A k \in Renglones : orden.recibido[k] <= orden'.recibido[k]
    BY <2>3, <2>6
  <2>4. EnVuelo(r, l) = n /\ \A k \in Renglones : EnVuelo(r, k)' = 0
    BY <2>2 DEF EnVuelo
  <2> HIDE DEF l, n
  <2>5. \A k \in Renglones : rLeido'[r].recibido[k] = IF k = l THEN rLeido[r].recibido[k] + n
                                                            ELSE rLeido[r].recibido[k]
    BY <2>1, <2>2, Lee
  <2>8. \A k \in Renglones : rLeido'[r].recibido[k] + EnVuelo(r, k)' <= orden'.recibido[k]
    BY <2>2, <2>3, <2>4, <2>5, <2>6
  <2>9. R!TypeOK'
    BY TiposPasoDeR
  <2> QED
    BY <2>1, <2>2, <2>7, <2>8, <2>9, SabeDeUno DEF Sanos
<1>4. ASSUME NEW r \in Recepciones, R!Deber(r) PROVE Sabe'
  <2>1. R!TypeOK /\ RutasDeR /\ Ruta(r) /\ Tope /\ Sabe /\ Bodegas /\ Caja /\ r \in R!Actores
    BY Lee DEF IInvDeR, RutasDeR
  <2>2. Sanos(r) /\ rLeido' = rLeido /\ rPc'[r] # "entrar"
    BY <1>4, <2>1, CierraHace
  <2>3. orden'.recibido = orden.recibido
    BY <1>4 DEF R!Deber
  <2>6. ASSUME NEW k \in Renglones
        PROVE  /\ rLeido[r].recibido[k] + EnVuelo(r, k) <= orden.recibido[k]
               /\ rLeido[r].recibido[k] \in Nat /\ EnVuelo(r, k) \in Nat /\ orden.recibido[k] \in Nat
    BY <2>1, Lee, VueloNatural DEF Sabe
  <2>7. \A k \in Renglones : orden.recibido[k] <= orden'.recibido[k]
    BY <2>3, <2>6
  <2>8. \A k \in Renglones : rLeido'[r].recibido[k] + EnVuelo(r, k)' <= orden'.recibido[k]
    BY <2>2, <2>3, <2>6 DEF EnVuelo
  <2>9. R!TypeOK'
    BY TiposPasoDeR
  <2> QED
    BY <2>1, <2>2, <2>7, <2>8, <2>9, SabeDeUno DEF Sanos
<1>5. ASSUME NEW r \in Recepciones, R!Recibo(r) PROVE Sabe'
  <2>1. R!TypeOK /\ RutasDeR /\ Ruta(r) /\ Tope /\ Sabe /\ Bodegas /\ Caja /\ r \in R!Actores
    BY Lee DEF IInvDeR, RutasDeR
  <2>2. Sanos(r) /\ rLeido' = rLeido /\ rPc'[r] # "entrar"
    BY <1>5, <2>1, CierraHace
  <2>3. orden'.recibido = orden.recibido
    BY <1>5 DEF IInvDeR, R!TypeOK, R!Recibo
  <2>6. ASSUME NEW k \in Renglones
        PROVE  /\ rLeido[r].recibido[k] + EnVuelo(r, k) <= orden.recibido[k]
               /\ rLeido[r].recibido[k] \in Nat /\ EnVuelo(r, k) \in Nat /\ orden.recibido[k] \in Nat
    BY <2>1, Lee, VueloNatural DEF Sabe
  <2>7. \A k \in Renglones : orden.recibido[k] <= orden'.recibido[k]
    BY <2>3, <2>6
  <2>8. \A k \in Renglones : rLeido'[r].recibido[k] + EnVuelo(r, k)' <= orden'.recibido[k]
    BY <2>2, <2>3, <2>6 DEF EnVuelo
  <2>9. R!TypeOK'
    BY TiposPasoDeR
  <2> QED
    BY <2>1, <2>2, <2>7, <2>8, <2>9, SabeDeUno DEF Sanos
<1>6. ASSUME NEW r \in Recepciones, R!Asentar(r) PROVE Sabe'
  <2>1. R!TypeOK /\ RutasDeR /\ Ruta(r) /\ Tope /\ Sabe /\ Bodegas /\ Caja /\ r \in R!Actores
    BY Lee DEF IInvDeR, RutasDeR
  <2>2. Sanos(r) /\ rLeido' = rLeido /\ rPc'[r] # "entrar"
    BY <1>6, <2>1, CierraHace
  <2>3. orden'.recibido = orden.recibido
    BY <1>6 DEF R!Asentar
  <2>6. ASSUME NEW k \in Renglones
        PROVE  /\ rLeido[r].recibido[k] + EnVuelo(r, k) <= orden.recibido[k]
               /\ rLeido[r].recibido[k] \in Nat /\ EnVuelo(r, k) \in Nat /\ orden.recibido[k] \in Nat
    BY <2>1, Lee, VueloNatural DEF Sabe
  <2>7. \A k \in Renglones : orden.recibido[k] <= orden'.recibido[k]
    BY <2>3, <2>6
  <2>8. \A k \in Renglones : rLeido'[r].recibido[k] + EnVuelo(r, k)' <= orden'.recibido[k]
    BY <2>2, <2>3, <2>6 DEF EnVuelo
  <2>9. R!TypeOK'
    BY TiposPasoDeR
  <2> QED
    BY <2>1, <2>2, <2>7, <2>8, <2>9, SabeDeUno DEF Sanos
<1>7. ASSUME NEW r \in Recepciones, R!Corte(r) PROVE Sabe'
  <2>1. R!TypeOK /\ RutasDeR /\ Ruta(r) /\ Tope /\ Sabe /\ Bodegas /\ Caja /\ r \in R!Actores
    BY Lee DEF IInvDeR, RutasDeR
  <2>2. Sanos(r) /\ rLeido' = rLeido /\ rPc'[r] # "entrar"
    BY <1>7, <2>1, CierraHace
  <2>3. orden'.recibido = orden.recibido
    BY <1>7 DEF R!Corte
  <2>6. ASSUME NEW k \in Renglones
        PROVE  /\ rLeido[r].recibido[k] + EnVuelo(r, k) <= orden.recibido[k]
               /\ rLeido[r].recibido[k] \in Nat /\ EnVuelo(r, k) \in Nat /\ orden.recibido[k] \in Nat
    BY <2>1, Lee, VueloNatural DEF Sabe
  <2>7. \A k \in Renglones : orden.recibido[k] <= orden'.recibido[k]
    BY <2>3, <2>6
  <2>8. \A k \in Renglones : rLeido'[r].recibido[k] + EnVuelo(r, k)' <= orden'.recibido[k]
    BY <2>2, <2>3, <2>6 DEF EnVuelo
  <2>9. R!TypeOK'
    BY TiposPasoDeR
  <2> QED
    BY <2>1, <2>2, <2>7, <2>8, <2>9, SabeDeUno DEF Sanos
<1>8. ASSUME NEW a \in rAnuladores, R!LeerAnular(a) PROVE Sabe'
  <2>1. rLeido' = rLeido /\ \A r \in Recepciones : rPc'[r] = rPc[r]
    BY <1>8, AnularHace DEF IInvDeR
  <2>2. orden'.recibido = orden.recibido
    BY <1>8 DEF R!LeerAnular
  <2> QED
    BY <2>1, <2>2, NadaVuela DEF IInvDeR, Sabe
<1>9. ASSUME NEW a \in rAnuladores, R!GuardarAnular(a) PROVE Sabe'
  <2>1. rLeido' = rLeido /\ \A r \in Recepciones : rPc'[r] = rPc[r]
    BY <1>9, AnularHace DEF IInvDeR
  <2>2. orden'.recibido = orden.recibido
    BY <1>9 DEF IInvDeR, R!TypeOK, R!GuardarAnular
  <2> QED
    BY <2>1, <2>2, NadaVuela DEF IInvDeR, Sabe
<1>10. ASSUME UNCHANGED R!vars PROVE Sabe'
  <2>1. rLeido' = rLeido /\ orden' = orden /\ \A r \in Recepciones : rPc'[r] = rPc[r]
    BY <1>10 DEF R!vars
  <2> QED
    BY <2>1, NadaVuela DEF IInvDeR, Sabe
<1> QED
  BY <1>1, <1>2, <1>3, <1>4, <1>5, <1>6, <1>7, <1>8, <1>9, <1>10 DEF R!Next

LEMMA Traspasa ==
    ASSUME NEW b \in Int, NEW c \in Int, NEW v \in Int, NEW x \in Int, NEW y \in Int,
           NEW o \in Int, NEW p \in Int, NEW t \in BOOLEAN, NEW u \in BOOLEAN, t => u,
           b + v <= o, ~t => b + v = o, c + y - b - x <= p - o, ~u => c + y - b - x = p - o
    PROVE  c + (v - x + y) <= p /\ (~u => c + (v - x + y) = p)
<1>1. CASE u
  BY <1>1
<1>2. CASE ~u
  BY <1>2
<1> QED
  BY <1>1, <1>2

LEMMA BodegasDeUno ==
    ASSUME R!Supuestos, R!TypeOK, R!TypeOK', RutasDeR, RutasDeR', Bodegas,
           NEW r \in Recepciones, Solo(r), rota \in BOOLEAN, rota' \in BOOLEAN, rota => rota',
           \A l \in Renglones :
              LET d == orden'.recibido[l] - orden.recibido[l]
                  e == bodega'[l] + EnVuelo(r, l)' - bodega[l] - EnVuelo(r, l)
              IN  e <= d /\ (~rota' => e = d)
    PROVE  Bodegas'
<1>1. SUFFICES ASSUME NEW l \in Renglones
               PROVE  Cuadra(bodega[l] + Vuelan(l), orden.recibido[l])'
  BY DEF Bodegas
<1>2. Vuelan(l)' = Vuelan(l) - EnVuelo(r, l) + EnVuelo(r, l)' /\ Vuelan(l) \in Nat
  BY VuelanCambia
<1>3. /\ bodega[l] \in Nat /\ bodega'[l] \in Nat /\ orden.recibido[l] \in Nat
      /\ orden'.recibido[l] \in Nat
  BY DEF R!TypeOK
<1>4. EnVuelo(r, l) \in Nat /\ EnVuelo(r, l)' \in Nat
  BY VueloNatural, VueloDespues
<1>5. bodega[l] + Vuelan(l) <= orden.recibido[l]
      /\ (~rota => bodega[l] + Vuelan(l) = orden.recibido[l])
  BY DEF Bodegas, Cuadra
<1>6. /\ bodega'[l] + EnVuelo(r, l)' - bodega[l] - EnVuelo(r, l) <= orden'.recibido[l] - orden.recibido[l]
      /\ ~rota' => bodega'[l] + EnVuelo(r, l)' - bodega[l] - EnVuelo(r, l)
                     = orden'.recibido[l] - orden.recibido[l]
  OBVIOUS
<1> DEFINE b == bodega[l]
           c == bodega'[l]
           v == Vuelan(l)
           x == EnVuelo(r, l)
           y == EnVuelo(r, l)'
           o == orden.recibido[l]
           p == orden'.recibido[l]
           t == rota
           u == rota'
<1>7. /\ b \in Int /\ c \in Int /\ v \in Int /\ x \in Int /\ y \in Int /\ o \in Int /\ p \in Int
      /\ t \in BOOLEAN /\ u \in BOOLEAN /\ (t => u) /\ b + v <= o /\ (~t => b + v = o)
      /\ c + y - b - x <= p - o /\ (~u => c + y - b - x = p - o)
  BY <1>2, <1>3, <1>4, <1>5, <1>6
<1>8. c + (v - x + y) <= p /\ (~u => c + (v - x + y) = p)
  <2> HIDE DEF b, c, v, x, y, o, p, t, u
  <2> QED
    BY <1>7, Traspasa
<1>9. (bodega[l] + Vuelan(l))' = c + (v - x + y)
  BY <1>2
<1> QED
  BY <1>8, <1>9 DEF Cuadra

LEMMA BodegasPaso ==
    ASSUME R!Supuestos, ~rCruces, IInvDeR, [R!Next]_(R!vars)
    PROVE  Bodegas'
<1>1. ASSUME NEW r \in Recepciones, R!Leer(r) PROVE Bodegas'
  <2>1. R!TypeOK /\ RutasDeR /\ Ruta(r) /\ Tope /\ Sabe /\ Bodegas /\ Caja /\ r \in R!Actores
    BY Lee DEF IInvDeR, RutasDeR
  <2>2. Sanos(r) /\ rPc[r] # "entrar" /\ rPc'[r] # "entrar"
    BY <1>1, <2>1, LeerHace
  <2>3. UNCHANGED <<orden, bodega, rota>>
    BY <1>1 DEF R!Leer
  <2>6. ASSUME NEW k \in Renglones
        PROVE  bodega[k] \in Nat /\ orden.recibido[k] \in Nat /\ EnVuelo(r, k) \in Nat
    BY <2>1, VueloNatural DEF R!TypeOK
  <2>7. \A k \in Renglones :
          LET d == orden'.recibido[k] - orden.recibido[k]
              e == bodega'[k] + EnVuelo(r, k)' - bodega[k] - EnVuelo(r, k)
          IN  e <= d /\ (~rota' => e = d)
    BY <2>2, <2>3, <2>6 DEF EnVuelo
  <2>8. R!TypeOK' /\ RutasDeR' /\ rota \in BOOLEAN /\ rota' \in BOOLEAN
    BY <2>1, TiposPasoDeR, RutasPasoDeR DEF R!TypeOK
  <2>9. rota => rota'
    BY <2>3
  <2> QED
    BY <2>1, <2>2, <2>7, <2>8, <2>9, BodegasDeUno DEF Sanos
<1>2. ASSUME NEW r \in Recepciones, R!Renglon(r) PROVE Bodegas'
  <2> DEFINE l == R!Lleva(r).renglon
             n == R!Lleva(r).cant
  <2>1. R!TypeOK /\ RutasDeR /\ Ruta(r) /\ Tope /\ Sabe /\ Bodegas /\ Caja /\ r \in R!Actores
    BY Lee DEF IInvDeR, RutasDeR
  <2>2. /\ Sanos(r) /\ rPc[r] = "renglon" /\ l \in Renglones /\ n \in Nat \ {0}
        /\ \/ orden' = orden /\ rPc'[r] # "entrar"
           \/ orden' = [orden EXCEPT !.recibido[l] = @ + n] /\ rLeido'[r].i = rLeido[r].i /\ rPc'[r] = "entrar"
    BY <1>2, <2>1, RenglonHace
  <2>3. bodega' = bodega /\ (rota => rota')
    BY <1>2 DEF R!Renglon, R!Rompe
  <2>6. ASSUME NEW k \in Renglones
        PROVE  bodega[k] \in Nat /\ orden.recibido[k] \in Nat /\ EnVuelo(r, k) \in Nat
    BY <2>1, VueloNatural DEF R!TypeOK
  <2>4. \A k \in Renglones :
          /\ EnVuelo(r, k) = 0
          /\ \/ orden' = orden /\ EnVuelo(r, k)' = 0
             \/ /\ orden' = [orden EXCEPT !.recibido[l] = @ + n]
                /\ EnVuelo(r, k)' = IF k = l THEN n ELSE 0
    BY <2>2 DEF EnVuelo, R!Lleva
  <2> HIDE DEF l, n
  <2>5. \A k \in Renglones :
          \/ orden'.recibido[k] = orden.recibido[k] /\ EnVuelo(r, k)' = 0
          \/ orden'.recibido[k] = orden.recibido[k] + n /\ EnVuelo(r, k)' = n
    BY <2>1, <2>2, <2>4 DEF R!TypeOK
  <2>7. \A k \in Renglones :
          LET d == orden'.recibido[k] - orden.recibido[k]
              e == bodega'[k] + EnVuelo(r, k)' - bodega[k] - EnVuelo(r, k)
          IN  e <= d /\ (~rota' => e = d)
    BY <2>2, <2>3, <2>4, <2>5, <2>6
  <2>8. R!TypeOK' /\ RutasDeR' /\ rota \in BOOLEAN /\ rota' \in BOOLEAN
    BY <2>1, TiposPasoDeR, RutasPasoDeR DEF R!TypeOK
  <2>9. rota => rota'
    BY <2>3
  <2> QED
    BY <2>1, <2>2, <2>7, <2>8, <2>9, BodegasDeUno DEF Sanos
<1>3. ASSUME NEW r \in Recepciones, R!Entrar(r) PROVE Bodegas'
  <2> DEFINE l == R!Lleva(r).renglon
             n == R!Lleva(r).cant
  <2>1. R!TypeOK /\ RutasDeR /\ Ruta(r) /\ Tope /\ Sabe /\ Bodegas /\ Caja /\ r \in R!Actores
    BY Lee DEF IInvDeR, RutasDeR
  <2>2. /\ Sanos(r) /\ rPc[r] = "entrar" /\ l \in Renglones /\ n \in Nat \ {0}
        /\ bodega' = [bodega EXCEPT ![l] = @ + n] /\ rPc'[r] # "entrar"
    BY <1>3, <2>1, EntrarHace
  <2>3. UNCHANGED <<orden, rota>>
    BY <1>3 DEF R!Entrar
  <2>6. ASSUME NEW k \in Renglones
        PROVE  bodega[k] \in Nat /\ orden.recibido[k] \in Nat /\ EnVuelo(r, k) \in Nat
    BY <2>1, VueloNatural DEF R!TypeOK
  <2>4. \A k \in Renglones : EnVuelo(r, k)' = 0 /\ EnVuelo(r, k) = IF k = l THEN n ELSE 0
    BY <2>2 DEF EnVuelo
  <2> HIDE DEF l, n
  <2>5. \A k \in Renglones : bodega'[k] = IF k = l THEN bodega[k] + n ELSE bodega[k]
    BY <2>1, <2>2 DEF R!TypeOK
  <2>7. \A k \in Renglones :
          LET d == orden'.recibido[k] - orden.recibido[k]
              e == bodega'[k] + EnVuelo(r, k)' - bodega[k] - EnVuelo(r, k)
          IN  e <= d /\ (~rota' => e = d)
    BY <2>2, <2>3, <2>4, <2>5, <2>6
  <2>8. R!TypeOK' /\ RutasDeR' /\ rota \in BOOLEAN /\ rota' \in BOOLEAN
    BY <2>1, TiposPasoDeR, RutasPasoDeR DEF R!TypeOK
  <2>9. rota => rota'
    BY <2>3
  <2> QED
    BY <2>1, <2>2, <2>7, <2>8, <2>9, BodegasDeUno DEF Sanos
<1>4. ASSUME NEW r \in Recepciones, R!Deber(r) PROVE Bodegas'
  <2>1. R!TypeOK /\ RutasDeR /\ Ruta(r) /\ Tope /\ Sabe /\ Bodegas /\ Caja /\ r \in R!Actores
    BY Lee DEF IInvDeR, RutasDeR
  <2>2. Sanos(r) /\ rPc[r] # "entrar" /\ rPc'[r] # "entrar"
    BY <1>4, <2>1, CierraHace
  <2>3. UNCHANGED <<bodega, rota>> /\ orden'.recibido = orden.recibido
    BY <1>4 DEF R!Deber
  <2>6. ASSUME NEW k \in Renglones
        PROVE  bodega[k] \in Nat /\ orden.recibido[k] \in Nat /\ EnVuelo(r, k) \in Nat
    BY <2>1, VueloNatural DEF R!TypeOK
  <2>7. \A k \in Renglones :
          LET d == orden'.recibido[k] - orden.recibido[k]
              e == bodega'[k] + EnVuelo(r, k)' - bodega[k] - EnVuelo(r, k)
          IN  e <= d /\ (~rota' => e = d)
    BY <2>2, <2>3, <2>6 DEF EnVuelo
  <2>8. R!TypeOK' /\ RutasDeR' /\ rota \in BOOLEAN /\ rota' \in BOOLEAN
    BY <2>1, TiposPasoDeR, RutasPasoDeR DEF R!TypeOK
  <2>9. rota => rota'
    BY <2>3
  <2> QED
    BY <2>1, <2>2, <2>7, <2>8, <2>9, BodegasDeUno DEF Sanos
<1>5. ASSUME NEW r \in Recepciones, R!Recibo(r) PROVE Bodegas'
  <2>1. R!TypeOK /\ RutasDeR /\ Ruta(r) /\ Tope /\ Sabe /\ Bodegas /\ Caja /\ r \in R!Actores
    BY Lee DEF IInvDeR, RutasDeR
  <2>2. Sanos(r) /\ rPc[r] # "entrar" /\ rPc'[r] # "entrar"
    BY <1>5, <2>1, CierraHace
  <2>3. UNCHANGED <<bodega, rota>> /\ orden'.recibido = orden.recibido
    BY <1>5 DEF IInvDeR, R!TypeOK, R!Recibo
  <2>6. ASSUME NEW k \in Renglones
        PROVE  bodega[k] \in Nat /\ orden.recibido[k] \in Nat /\ EnVuelo(r, k) \in Nat
    BY <2>1, VueloNatural DEF R!TypeOK
  <2>7. \A k \in Renglones :
          LET d == orden'.recibido[k] - orden.recibido[k]
              e == bodega'[k] + EnVuelo(r, k)' - bodega[k] - EnVuelo(r, k)
          IN  e <= d /\ (~rota' => e = d)
    BY <2>2, <2>3, <2>6 DEF EnVuelo
  <2>8. R!TypeOK' /\ RutasDeR' /\ rota \in BOOLEAN /\ rota' \in BOOLEAN
    BY <2>1, TiposPasoDeR, RutasPasoDeR DEF R!TypeOK
  <2>9. rota => rota'
    BY <2>3
  <2> QED
    BY <2>1, <2>2, <2>7, <2>8, <2>9, BodegasDeUno DEF Sanos
<1>6. ASSUME NEW r \in Recepciones, R!Asentar(r) PROVE Bodegas'
  <2>1. R!TypeOK /\ RutasDeR /\ Ruta(r) /\ Tope /\ Sabe /\ Bodegas /\ Caja /\ r \in R!Actores
    BY Lee DEF IInvDeR, RutasDeR
  <2>2. Sanos(r) /\ rPc[r] # "entrar" /\ rPc'[r] # "entrar"
    BY <1>6, <2>1, CierraHace
  <2>3. UNCHANGED <<bodega, rota>> /\ orden'.recibido = orden.recibido
    BY <1>6 DEF R!Asentar
  <2>6. ASSUME NEW k \in Renglones
        PROVE  bodega[k] \in Nat /\ orden.recibido[k] \in Nat /\ EnVuelo(r, k) \in Nat
    BY <2>1, VueloNatural DEF R!TypeOK
  <2>7. \A k \in Renglones :
          LET d == orden'.recibido[k] - orden.recibido[k]
              e == bodega'[k] + EnVuelo(r, k)' - bodega[k] - EnVuelo(r, k)
          IN  e <= d /\ (~rota' => e = d)
    BY <2>2, <2>3, <2>6 DEF EnVuelo
  <2>8. R!TypeOK' /\ RutasDeR' /\ rota \in BOOLEAN /\ rota' \in BOOLEAN
    BY <2>1, TiposPasoDeR, RutasPasoDeR DEF R!TypeOK
  <2>9. rota => rota'
    BY <2>3
  <2> QED
    BY <2>1, <2>2, <2>7, <2>8, <2>9, BodegasDeUno DEF Sanos
<1>7. ASSUME NEW r \in Recepciones, R!Corte(r) PROVE Bodegas'
  <2>1. R!TypeOK /\ RutasDeR /\ Ruta(r) /\ Tope /\ Sabe /\ Bodegas /\ Caja /\ r \in R!Actores
    BY Lee DEF IInvDeR, RutasDeR
  <2>2. Sanos(r) /\ rPc'[r] # "entrar"
    BY <1>7, <2>1, CierraHace
  <2>3. UNCHANGED <<orden, bodega>> /\ (rota => rota') /\ (rPc[r] = "entrar" => rota')
    BY <1>7 DEF R!Corte
  <2>6. ASSUME NEW k \in Renglones
        PROVE  bodega[k] \in Nat /\ orden.recibido[k] \in Nat /\ EnVuelo(r, k) \in Nat
    BY <2>1, VueloNatural DEF R!TypeOK
  <2>4. \A k \in Renglones : EnVuelo(r, k)' = 0 /\ (rPc[r] # "entrar" => EnVuelo(r, k) = 0)
    BY <2>2 DEF EnVuelo
  <2>7. \A k \in Renglones :
          LET d == orden'.recibido[k] - orden.recibido[k]
              e == bodega'[k] + EnVuelo(r, k)' - bodega[k] - EnVuelo(r, k)
          IN  e <= d /\ (~rota' => e = d)
    BY <2>3, <2>4, <2>6
  <2>8. R!TypeOK' /\ RutasDeR' /\ rota \in BOOLEAN /\ rota' \in BOOLEAN
    BY <2>1, TiposPasoDeR, RutasPasoDeR DEF R!TypeOK
  <2>9. rota => rota'
    BY <2>3
  <2> QED
    BY <2>1, <2>2, <2>7, <2>8, <2>9, BodegasDeUno DEF Sanos
<1>8. ASSUME NEW a \in rAnuladores, R!LeerAnular(a) PROVE Bodegas'
  <2>1. rLeido' = rLeido /\ \A r \in Recepciones : rPc'[r] = rPc[r]
    BY <1>8, AnularHace DEF IInvDeR
  <2>2. orden'.recibido = orden.recibido /\ UNCHANGED <<bodega, rota>>
    BY <1>8 DEF R!LeerAnular
  <2> QED
    BY <2>1, <2>2, NadaVuela DEF IInvDeR, Bodegas, Cuadra
<1>9. ASSUME NEW a \in rAnuladores, R!GuardarAnular(a) PROVE Bodegas'
  <2>1. rLeido' = rLeido /\ \A r \in Recepciones : rPc'[r] = rPc[r]
    BY <1>9, AnularHace DEF IInvDeR
  <2>2. orden'.recibido = orden.recibido /\ UNCHANGED <<bodega, rota>>
    BY <1>9 DEF IInvDeR, R!TypeOK, R!GuardarAnular
  <2> QED
    BY <2>1, <2>2, NadaVuela DEF IInvDeR, Bodegas, Cuadra
<1>10. ASSUME UNCHANGED R!vars PROVE Bodegas'
  <2>1. rLeido' = rLeido /\ orden' = orden /\ UNCHANGED <<bodega, rota>> /\ \A r \in Recepciones : rPc'[r] = rPc[r]
    BY <1>10 DEF R!vars
  <2> QED
    BY <2>1, NadaVuela DEF IInvDeR, Bodegas, Cuadra
<1> QED
  BY <1>1, <1>2, <1>3, <1>4, <1>5, <1>6, <1>7, <1>8, <1>9, <1>10 DEF R!Next

LEMMA CajaDeUno ==
    ASSUME R!Supuestos, R!TypeOK, R!TypeOK', RutasDeR, RutasDeR', Caja,
           NEW r \in Recepciones, Solo(r), rota \in BOOLEAN, rota' \in BOOLEAN, rota => rota',
           NEW d \in Int, Brutos' = Brutos + d,
           Tiene(r)' - Tiene(r) <= d, ~rota' => Tiene(r)' - Tiene(r) = d
    PROVE  Caja'
<1>1. Tienen' = Tienen - Tiene(r) + Tiene(r)' /\ Tienen \in Nat
  BY VuelanCambia
<1>2. Tiene(r) \in Nat /\ Tiene(r)' \in Nat
  BY VueloNatural, VueloDespues
<1>3. Brutos \in Int
  BY BrutosEnteros
<1>4. Tienen <= Brutos /\ (~rota => Tienen = Brutos)
  BY DEF Caja, Cuadra
<1> DEFINE b == 0
           v == Tienen
           x == Tiene(r)
           y == Tiene(r)'
           o == Brutos
           p == Brutos + d
           t == rota
           u == rota'
<1>5. /\ b \in Int /\ v \in Int /\ x \in Int /\ y \in Int /\ o \in Int /\ p \in Int
      /\ t \in BOOLEAN /\ u \in BOOLEAN /\ (t => u) /\ b + v <= o /\ (~t => b + v = o)
      /\ b + y - b - x <= p - o /\ (~u => b + y - b - x = p - o)
  BY <1>1, <1>2, <1>3, <1>4
<1>6. b + (v - x + y) <= p /\ (~u => b + (v - x + y) = p)
  <2> HIDE DEF b, v, x, y, o, p, t, u
  <2> QED
    BY <1>5, Traspasa
<1>7. v - x + y = Tienen' /\ p = Brutos' /\ b + (v - x + y) = Tienen'
  BY <1>1, <1>2
<1> QED
  BY <1>6, <1>7 DEF Cuadra, Caja

LEMMA CajaPaso ==
    ASSUME R!Supuestos, ~rCruces, IInvDeR, [R!Next]_(R!vars)
    PROVE  Caja'
<1>1. ASSUME NEW r \in Recepciones, R!Leer(r) PROVE Caja'
  <2>1. R!TypeOK /\ RutasDeR /\ Ruta(r) /\ Tope /\ Sabe /\ Bodegas /\ Caja /\ r \in R!Actores
    BY Lee DEF IInvDeR, RutasDeR
  <2>2. /\ Sanos(r) /\ rPc[r] = "libre"
        /\ \/ rPc'[r] = "fin"
           \/ rPc'[r] = "renglon" /\ rLeido'[r].valor = 0 /\ rLeido'[r].iva = 0
    BY <1>1, <2>1, LeerHace
  <2>3. orden'.recibido = orden.recibido /\ (rota => rota')
    BY <1>1 DEF R!Leer
  <2>6. Tiene(r) \in Nat /\ R!Total(r) \in Nat /\ rLeido[r].valor \in Nat /\ rLeido[r].iva \in Nat
    BY <2>1, VueloNatural, Lee
  <2>7. Brutos' = Brutos + 0
    BY <2>1, <2>3, BrutosQuieto, BrutosEnteros
  <2>8. Tiene(r)' - Tiene(r) <= 0 /\ (~rota' => Tiene(r)' - Tiene(r) = 0)
    BY <2>2 DEF Tiene, R!Total
  <2>9. R!TypeOK' /\ RutasDeR' /\ rota \in BOOLEAN /\ rota' \in BOOLEAN /\ (rota => rota') /\ 0 \in Int
    BY <2>1, <2>3, TiposPasoDeR, RutasPasoDeR DEF R!TypeOK
  <2> QED
    BY <2>1, <2>2, <2>7, <2>8, <2>9, CajaDeUno DEF Sanos
<1>2. ASSUME NEW r \in Recepciones, R!Renglon(r) PROVE Caja'
  <2> DEFINE l == R!Lleva(r).renglon
             n == R!Lleva(r).cant
  <2>1. R!TypeOK /\ RutasDeR /\ Ruta(r) /\ Tope /\ Sabe /\ Bodegas /\ Caja /\ r \in R!Actores
    BY Lee DEF IInvDeR, RutasDeR
  <2>2. /\ Sanos(r) /\ rPc[r] = "renglon" /\ l \in Renglones /\ n \in Nat \ {0}
        /\ rLeido'[r].valor = rLeido[r].valor /\ rLeido'[r].iva = rLeido[r].iva
    BY <1>2, <2>1, RenglonHace
  <2>6. Tiene(r) \in Nat /\ R!Total(r) \in Nat /\ rLeido[r].valor \in Nat /\ rLeido[r].iva \in Nat
    BY <2>1, VueloNatural, Lee
  <2> DEFINE m == R!ParteIva(l, orden.recibido[l] + n) - R!ParteIva(l, orden.recibido[l])
  <2>3. \/ rPc'[r] = "fin" /\ rota' = (rota \/ rLeido[r].valor > 0) /\ orden' = orden
        \/ /\ rPc'[r] = "entrar" /\ rota' = rota /\ rLeido'[r].i = rLeido[r].i
           /\ orden' = [orden EXCEPT !.recibido[l] = @ + n] /\ rLeido'[r].parte = m
        \/ /\ rota' = rota /\ orden' = orden
           /\ \/ rPc'[r] \in {"renglon", "deber", "recibo"}
              \/ rPc'[r] = "fin" /\ rLeido[r].valor = 0
    BY <1>2, <2>1, RenglonHace
  <2>4. R!TypeOK' /\ RutasDeR' /\ rota \in BOOLEAN /\ rota' \in BOOLEAN /\ (rota => rota')
    BY <2>1, <2>3, TiposPasoDeR, RutasPasoDeR DEF R!TypeOK
  <2>5. Tiene(r) = R!Total(r) /\ R!Total(r)' = R!Total(r) /\ (rLeido[r].valor = 0 => R!Total(r) = 0)
    BY <2>1, <2>2 DEF Tiene, R!Total, Ruta
  <2>7. ASSUME orden' = orden, rPc'[r] # "entrar" PROVE Caja'
    <3>1. Brutos' = Brutos + 0
      BY <2>1, <2>7, BrutosQuieto, BrutosEnteros
    <3>4. rPc'[r] \in {"renglon", "deber", "recibo"} \/ (rPc'[r] = "fin" /\ (rota' \/ rLeido[r].valor = 0))
      <4>1. rLeido[r].valor = 0 \/ rLeido[r].valor > 0
        BY <2>6
      <4> QED
        BY <2>3, <2>7, <4>1
    <3>5. /\ rPc'[r] \in {"renglon", "deber", "recibo"} => Tiene(r)' = R!Total(r)'
          /\ rPc'[r] = "fin" => Tiene(r)' = 0
      BY DEF Tiene
    <3>2. Tiene(r)' = R!Total(r) \/ (Tiene(r)' = 0 /\ (rota' \/ R!Total(r) = 0))
      BY <2>5, <3>4, <3>5
    <3>3. Tiene(r)' - Tiene(r) <= 0 /\ (~rota' => Tiene(r)' - Tiene(r) = 0) /\ 0 \in Int
      BY <2>5, <2>6, <3>2
    <3> QED
      BY <2>1, <2>2, <2>4, <3>1, <3>3, CajaDeUno DEF Sanos
  <2>8. ASSUME orden' = [orden EXCEPT !.recibido[l] = @ + n], rPc'[r] = "entrar",
               rLeido'[r].i = rLeido[r].i, rLeido'[r].parte = m
        PROVE  Caja'
    <3>1. orden.recibido[l] \in Nat
      BY <2>1, <2>2 DEF R!TypeOK
    <3>2. Tiene(r)' = R!Total(r) + n + m
      BY <2>5, <2>8 DEF Tiene, R!Lleva
    <3> HIDE DEF l, n
    <3>3. m \in Int
      BY <2>2, <3>1, IvaCrece
    <3>4. Brutos' = Brutos + n + m
      BY <2>1, <2>2, <2>8, BrutosCambia
    <3> HIDE DEF m
    <3>5. n + m \in Int /\ Brutos' = Brutos + (n + m)
      BY <2>1, <2>2, <3>3, <3>4, BrutosEnteros
    <3>6. Tiene(r)' - Tiene(r) <= n + m /\ Tiene(r)' - Tiene(r) = n + m
      BY <2>2, <2>5, <2>6, <3>2, <3>3
    <3> QED
      BY <2>1, <2>2, <2>4, <3>5, <3>6, CajaDeUno DEF Sanos
  <2> QED
    BY <2>3, <2>7, <2>8
<1>3. ASSUME NEW r \in Recepciones, R!Entrar(r) PROVE Caja'
  <2>1. R!TypeOK /\ RutasDeR /\ Ruta(r) /\ Tope /\ Sabe /\ Bodegas /\ Caja /\ r \in R!Actores
    BY Lee DEF IInvDeR, RutasDeR
  <2>2. /\ Sanos(r) /\ rPc[r] = "entrar" /\ rPc'[r] \in {"renglon", "deber", "recibo"}
        /\ R!Lleva(r).cant \in Nat /\ rLeido[r].parte \in Nat
        /\ rLeido'[r].valor = rLeido[r].valor + R!Lleva(r).cant
        /\ rLeido'[r].iva = rLeido[r].iva + rLeido[r].parte
    BY <1>3, <2>1, EntrarHace, Lee
  <2>3. orden'.recibido = orden.recibido /\ (rota => rota')
    BY <1>3 DEF R!Entrar
  <2>4. Tiene(r) = rLeido[r].valor + rLeido[r].iva + R!Lleva(r).cant + rLeido[r].parte
    BY <2>2 DEF Tiene, R!Total
  <2>5. Tiene(r)' = (rLeido[r].valor + R!Lleva(r).cant) + (rLeido[r].iva + rLeido[r].parte)
    BY <2>2 DEF Tiene, R!Total
  <2>6. Tiene(r) \in Nat /\ R!Total(r) \in Nat /\ rLeido[r].valor \in Nat /\ rLeido[r].iva \in Nat
    BY <2>1, VueloNatural, Lee
  <2>7. Brutos' = Brutos + 0
    BY <2>1, <2>3, BrutosQuieto, BrutosEnteros
  <2>8. Tiene(r)' - Tiene(r) <= 0 /\ (~rota' => Tiene(r)' - Tiene(r) = 0)
    <3> DEFINE n == R!Lleva(r).cant
    <3>1. n \in Nat /\ Tiene(r) = rLeido[r].valor + rLeido[r].iva + n + rLeido[r].parte
          /\ Tiene(r)' = (rLeido[r].valor + n) + (rLeido[r].iva + rLeido[r].parte)
      BY <2>2, <2>4, <2>5
    <3> HIDE DEF n
    <3> QED
      BY <2>2, <2>6, <3>1
  <2>9. R!TypeOK' /\ RutasDeR' /\ rota \in BOOLEAN /\ rota' \in BOOLEAN /\ (rota => rota') /\ 0 \in Int
    BY <2>1, <2>3, TiposPasoDeR, RutasPasoDeR DEF R!TypeOK
  <2> QED
    BY <2>1, <2>2, <2>7, <2>8, <2>9, CajaDeUno DEF Sanos
<1>4. ASSUME NEW r \in Recepciones, R!Deber(r) PROVE Caja'
  <2>1. R!TypeOK /\ RutasDeR /\ Ruta(r) /\ Tope /\ Sabe /\ Bodegas /\ Caja /\ r \in R!Actores
    BY Lee DEF IInvDeR, RutasDeR
  <2>2. /\ Sanos(r) /\ rLeido' = rLeido /\ rPc[r] \in {"deber", "recibo", "asentar"}
        /\ rPc'[r] \in {"recibo", "asentar", "hecho"}
    BY <1>4, <2>1, CierraHace
  <2>3. orden'.recibido = orden.recibido /\ (rota => rota')
    BY <1>4 DEF R!Deber
  <2>6. Tiene(r) \in Nat /\ R!Total(r) \in Nat /\ rLeido[r].valor \in Nat /\ rLeido[r].iva \in Nat
    BY <2>1, VueloNatural, Lee
  <2>7. Brutos' = Brutos + 0
    BY <2>1, <2>3, BrutosQuieto, BrutosEnteros
  <2>8. Tiene(r)' - Tiene(r) <= 0 /\ (~rota' => Tiene(r)' - Tiene(r) = 0)
    <3>1. Tiene(r) = R!Total(r) /\ Tiene(r)' = R!Total(r)
      BY <2>2 DEF Tiene, R!Total
    <3> QED
      BY <2>6, <3>1
  <2>9. R!TypeOK' /\ RutasDeR' /\ rota \in BOOLEAN /\ rota' \in BOOLEAN /\ (rota => rota') /\ 0 \in Int
    BY <2>1, <2>3, TiposPasoDeR, RutasPasoDeR DEF R!TypeOK
  <2> QED
    BY <2>1, <2>2, <2>7, <2>8, <2>9, CajaDeUno DEF Sanos
<1>5. ASSUME NEW r \in Recepciones, R!Recibo(r) PROVE Caja'
  <2>1. R!TypeOK /\ RutasDeR /\ Ruta(r) /\ Tope /\ Sabe /\ Bodegas /\ Caja /\ r \in R!Actores
    BY Lee DEF IInvDeR, RutasDeR
  <2>2. /\ Sanos(r) /\ rLeido' = rLeido /\ rPc[r] \in {"deber", "recibo", "asentar"}
        /\ rPc'[r] \in {"recibo", "asentar", "hecho"}
    BY <1>5, <2>1, CierraHace
  <2>3. orden'.recibido = orden.recibido /\ (rota => rota')
    BY <1>5 DEF IInvDeR, R!TypeOK, R!Recibo
  <2>6. Tiene(r) \in Nat /\ R!Total(r) \in Nat /\ rLeido[r].valor \in Nat /\ rLeido[r].iva \in Nat
    BY <2>1, VueloNatural, Lee
  <2>7. Brutos' = Brutos + 0
    BY <2>1, <2>3, BrutosQuieto, BrutosEnteros
  <2>8. Tiene(r)' - Tiene(r) <= 0 /\ (~rota' => Tiene(r)' - Tiene(r) = 0)
    <3>1. Tiene(r) = R!Total(r) /\ Tiene(r)' = R!Total(r)
      BY <2>2 DEF Tiene, R!Total
    <3> QED
      BY <2>6, <3>1
  <2>9. R!TypeOK' /\ RutasDeR' /\ rota \in BOOLEAN /\ rota' \in BOOLEAN /\ (rota => rota') /\ 0 \in Int
    BY <2>1, <2>3, TiposPasoDeR, RutasPasoDeR DEF R!TypeOK
  <2> QED
    BY <2>1, <2>2, <2>7, <2>8, <2>9, CajaDeUno DEF Sanos
<1>6. ASSUME NEW r \in Recepciones, R!Asentar(r) PROVE Caja'
  <2>1. R!TypeOK /\ RutasDeR /\ Ruta(r) /\ Tope /\ Sabe /\ Bodegas /\ Caja /\ r \in R!Actores
    BY Lee DEF IInvDeR, RutasDeR
  <2>2. /\ Sanos(r) /\ rLeido' = rLeido /\ rPc[r] \in {"deber", "recibo", "asentar"}
        /\ rPc'[r] \in {"recibo", "asentar", "hecho"}
    BY <1>6, <2>1, CierraHace
  <2>3. orden'.recibido = orden.recibido /\ (rota => rota')
    BY <1>6 DEF R!Asentar
  <2>6. Tiene(r) \in Nat /\ R!Total(r) \in Nat /\ rLeido[r].valor \in Nat /\ rLeido[r].iva \in Nat
    BY <2>1, VueloNatural, Lee
  <2>7. Brutos' = Brutos + 0
    BY <2>1, <2>3, BrutosQuieto, BrutosEnteros
  <2>8. Tiene(r)' - Tiene(r) <= 0 /\ (~rota' => Tiene(r)' - Tiene(r) = 0)
    <3>1. Tiene(r) = R!Total(r) /\ Tiene(r)' = R!Total(r)
      BY <2>2 DEF Tiene, R!Total
    <3> QED
      BY <2>6, <3>1
  <2>9. R!TypeOK' /\ RutasDeR' /\ rota \in BOOLEAN /\ rota' \in BOOLEAN /\ (rota => rota') /\ 0 \in Int
    BY <2>1, <2>3, TiposPasoDeR, RutasPasoDeR DEF R!TypeOK
  <2> QED
    BY <2>1, <2>2, <2>7, <2>8, <2>9, CajaDeUno DEF Sanos
<1>7. ASSUME NEW r \in Recepciones, R!Corte(r) PROVE Caja'
  <2>1. R!TypeOK /\ RutasDeR /\ Ruta(r) /\ Tope /\ Sabe /\ Bodegas /\ Caja /\ r \in R!Actores
    BY Lee DEF IInvDeR, RutasDeR
  <2>2. /\ Sanos(r) /\ rPc'[r] = "fin"
        /\ rPc[r] \in {"renglon", "entrar", "deber", "recibo", "asentar"}
    BY <1>7, <2>1, CierraHace
  <2>3. /\ orden'.recibido = orden.recibido /\ (rota => rota')
        /\ rPc[r] = "entrar" \/ rLeido[r].valor > 0 => rota'
    BY <1>7 DEF R!Corte
  <2>4. Tiene(r)' = 0
    BY <2>2 DEF Tiene
  <2>6. Tiene(r) \in Nat /\ R!Total(r) \in Nat /\ rLeido[r].valor \in Nat /\ rLeido[r].iva \in Nat
    BY <2>1, VueloNatural, Lee
  <2>7. Brutos' = Brutos + 0
    BY <2>1, <2>3, BrutosQuieto, BrutosEnteros
  <2>8. Tiene(r)' - Tiene(r) <= 0 /\ (~rota' => Tiene(r)' - Tiene(r) = 0)
    <3>1. rPc[r] = "renglon" /\ rLeido[r].valor = 0 => Tiene(r) = 0
      BY <2>1, <2>2 DEF Tiene, R!Total, Ruta
    <3>2. rPc[r] \in {"deber", "recibo", "asentar"} => rLeido[r].valor > 0
      BY <2>1 DEF Ruta
    <3> QED
      BY <2>2, <2>3, <2>4, <2>6, <3>1, <3>2
  <2>9. R!TypeOK' /\ RutasDeR' /\ rota \in BOOLEAN /\ rota' \in BOOLEAN /\ (rota => rota') /\ 0 \in Int
    BY <2>1, <2>3, TiposPasoDeR, RutasPasoDeR DEF R!TypeOK
  <2> QED
    BY <2>1, <2>2, <2>7, <2>8, <2>9, CajaDeUno DEF Sanos
<1>8. ASSUME NEW a \in rAnuladores, R!LeerAnular(a) PROVE Caja'
  <2>1. rLeido' = rLeido /\ \A r \in Recepciones : rPc'[r] = rPc[r]
    BY <1>8, AnularHace DEF IInvDeR
  <2>2. orden'.recibido = orden.recibido /\ rota' = rota
    BY <1>8 DEF R!LeerAnular
  <2> QED
    BY <2>1, <2>2, NadaVuela, BrutosQuieto DEF IInvDeR, Caja, Cuadra
<1>9. ASSUME NEW a \in rAnuladores, R!GuardarAnular(a) PROVE Caja'
  <2>1. rLeido' = rLeido /\ \A r \in Recepciones : rPc'[r] = rPc[r]
    BY <1>9, AnularHace DEF IInvDeR
  <2>2. orden'.recibido = orden.recibido /\ rota' = rota
    BY <1>9 DEF IInvDeR, R!TypeOK, R!GuardarAnular
  <2> QED
    BY <2>1, <2>2, NadaVuela, BrutosQuieto DEF IInvDeR, Caja, Cuadra
<1>10. ASSUME UNCHANGED R!vars PROVE Caja'
  <2>1. rLeido' = rLeido /\ orden' = orden /\ rota' = rota /\ \A r \in Recepciones : rPc'[r] = rPc[r]
    BY <1>10 DEF R!vars
  <2> QED
    BY <2>1, NadaVuela, BrutosQuieto DEF IInvDeR, Caja, Cuadra
<1> QED
  BY <1>1, <1>2, <1>3, <1>4, <1>5, <1>6, <1>7, <1>8, <1>9, <1>10 DEF R!Next

-----------------------------------------------------------------------------
(* Each step keeps the status of the order *)

\* What a reception does while no cancellation is under way.
LEMMA AnulaDeUno ==
    ASSUME R!Supuestos, AnulaDeR, NEW r \in Recepciones, Solo(r),
           \A a \in rAnuladores : rPc[a] # "anular", orden'.estado # "cancelled",
           recibos' # {} => orden'.estado \in {"partial", "received"}
    PROVE  AnulaDeR'
<1>1. \A a \in rAnuladores : rPc'[a] = rPc[a]
  BY DEF Solo, R!Actores, R!Supuestos
<1> QED
  BY <1>1 DEF AnulaDeR

LEMMA AnulaPaso ==
    ASSUME R!Supuestos, ~rCruces, IInvDeR, [R!Next]_(R!vars)
    PROVE  AnulaDeR'
<1>1. ASSUME NEW r \in Recepciones, R!Leer(r) PROVE AnulaDeR'
  <2>1. R!TypeOK /\ AnulaDeR /\ r \in R!Actores
    BY Lee DEF IInvDeR
  <2>2. /\ Sanos(r)
        /\ rPc'[r] # "fin" => orden.estado \notin {"received", "cancelled"}
    BY <1>1, <2>1, LeerHace
  <2>3. UNCHANGED <<orden, recibos>> /\ \A a \in rAnuladores : rPc[a] # "anular"
    BY <1>1 DEF R!Leer
  <2>4. CASE orden.estado # "cancelled"
    BY <2>1, <2>2, <2>3, <2>4, AnulaDeUno DEF Sanos, AnulaDeR
  <2>5. CASE orden.estado = "cancelled"
    <3>1. rPc'[r] = "fin" /\ NadieDeR
      BY <2>1, <2>2, <2>5 DEF AnulaDeR
    <3>2. NadieDeR'
      BY <2>2, <2>3, <3>1 DEF NadieDeR, R!Recibiendo, Sanos, Solo, R!Actores
    <3>3. \A a \in rAnuladores : rPc'[a] = rPc[a]
      BY <2>2 DEF Sanos, Solo, R!Actores, R!Supuestos
    <3> QED
      BY <2>1, <2>3, <3>2, <3>3 DEF AnulaDeR
  <2> QED
    BY <2>4, <2>5
<1>2. ASSUME NEW r \in Recepciones, R!Renglon(r) PROVE AnulaDeR'
  <2>1. R!TypeOK /\ RutasDeR /\ AnulaDeR /\ r \in R!Actores
    BY Lee DEF IInvDeR
  <2>2. Sanos(r) /\ rPc[r] = "renglon"
    BY <1>2, <2>1, RenglonHace
  <2>3. ~NadieDeR
    BY <2>2 DEF NadieDeR, R!Recibiendo
  <2>4. (\A a \in rAnuladores : rPc[a] # "anular") /\ orden.estado # "cancelled"
    BY <2>1, <2>3 DEF AnulaDeR
  <2>5. /\ orden'.estado # "cancelled"
        /\ recibos' # {} => orden'.estado \in {"partial", "received"}
    <3>1. recibos' = recibos /\ orden'.estado = orden.estado
      BY <1>2, <2>1 DEF R!Renglon, R!TypeOK
    <3> QED
      BY <2>1, <2>4, <3>1 DEF AnulaDeR
  <2> QED
    BY <2>1, <2>2, <2>4, <2>5, AnulaDeUno DEF Sanos
<1>3. ASSUME NEW r \in Recepciones, R!Entrar(r) PROVE AnulaDeR'
  <2>1. R!TypeOK /\ RutasDeR /\ AnulaDeR /\ r \in R!Actores
    BY Lee DEF IInvDeR
  <2>2. Sanos(r) /\ rPc[r] = "entrar"
    BY <1>3, <2>1, EntrarHace
  <2>3. ~NadieDeR
    BY <2>2 DEF NadieDeR, R!Recibiendo
  <2>4. (\A a \in rAnuladores : rPc[a] # "anular") /\ orden.estado # "cancelled"
    BY <2>1, <2>3 DEF AnulaDeR
  <2>5. /\ orden'.estado # "cancelled"
        /\ recibos' # {} => orden'.estado \in {"partial", "received"}
    BY <1>3, <2>1, <2>4 DEF R!Entrar, AnulaDeR
  <2> QED
    BY <2>1, <2>2, <2>4, <2>5, AnulaDeUno DEF Sanos
<1>4. ASSUME NEW r \in Recepciones, R!Deber(r) PROVE AnulaDeR'
  <2>1. R!TypeOK /\ RutasDeR /\ AnulaDeR /\ r \in R!Actores
    BY Lee DEF IInvDeR
  <2>2. Sanos(r) /\ rPc[r] = "deber"
    BY <1>4, <2>1, CierraHace
  <2>3. ~NadieDeR
    BY <2>2 DEF NadieDeR, R!Recibiendo
  <2>4. (\A a \in rAnuladores : rPc[a] # "anular") /\ orden.estado # "cancelled"
    BY <2>1, <2>3 DEF AnulaDeR
  <2>5. /\ orden'.estado # "cancelled"
        /\ recibos' # {} => orden'.estado \in {"partial", "received"}
    BY <1>4, <2>1, <2>4 DEF R!Deber, AnulaDeR
  <2> QED
    BY <2>1, <2>2, <2>4, <2>5, AnulaDeUno DEF Sanos
<1>5. ASSUME NEW r \in Recepciones, R!Recibo(r) PROVE AnulaDeR'
  <2>1. R!TypeOK /\ RutasDeR /\ AnulaDeR /\ r \in R!Actores
    BY Lee DEF IInvDeR
  <2>2. Sanos(r) /\ rPc[r] = "recibo"
    BY <1>5, <2>1, CierraHace
  <2>3. ~NadieDeR
    BY <2>2 DEF NadieDeR, R!Recibiendo
  <2>4. (\A a \in rAnuladores : rPc[a] # "anular") /\ orden.estado # "cancelled"
    BY <2>1, <2>3 DEF AnulaDeR
  <2>5. /\ orden'.estado # "cancelled"
        /\ recibos' # {} => orden'.estado \in {"partial", "received"}
    BY <1>5, <2>1 DEF R!Recibo, R!Estado, R!TypeOK
  <2> QED
    BY <2>1, <2>2, <2>4, <2>5, AnulaDeUno DEF Sanos
<1>6. ASSUME NEW r \in Recepciones, R!Asentar(r) PROVE AnulaDeR'
  <2>1. R!TypeOK /\ RutasDeR /\ AnulaDeR /\ r \in R!Actores
    BY Lee DEF IInvDeR
  <2>2. Sanos(r) /\ rPc[r] = "asentar"
    BY <1>6, <2>1, CierraHace
  <2>3. ~NadieDeR
    BY <2>2 DEF NadieDeR, R!Recibiendo
  <2>4. (\A a \in rAnuladores : rPc[a] # "anular") /\ orden.estado # "cancelled"
    BY <2>1, <2>3 DEF AnulaDeR
  <2>5. /\ orden'.estado # "cancelled"
        /\ recibos' # {} => orden'.estado \in {"partial", "received"}
    BY <1>6, <2>1, <2>4 DEF R!Asentar, AnulaDeR
  <2> QED
    BY <2>1, <2>2, <2>4, <2>5, AnulaDeUno DEF Sanos
<1>7. ASSUME NEW r \in Recepciones, R!Corte(r) PROVE AnulaDeR'
  <2>1. R!TypeOK /\ RutasDeR /\ AnulaDeR /\ r \in R!Actores
    BY Lee DEF IInvDeR
  <2>2. Sanos(r) /\ rPc[r] \in {"renglon", "entrar", "deber", "recibo", "asentar"}
    BY <1>7, <2>1, CierraHace
  <2>3. ~NadieDeR
    BY <2>2 DEF NadieDeR, R!Recibiendo
  <2>4. (\A a \in rAnuladores : rPc[a] # "anular") /\ orden.estado # "cancelled"
    BY <2>1, <2>3 DEF AnulaDeR
  <2>5. /\ orden'.estado # "cancelled"
        /\ recibos' # {} => orden'.estado \in {"partial", "received"}
    BY <1>7, <2>1, <2>4 DEF R!Corte, AnulaDeR
  <2> QED
    BY <2>1, <2>2, <2>4, <2>5, AnulaDeUno DEF Sanos
<1>8. ASSUME NEW a \in rAnuladores, R!LeerAnular(a) PROVE AnulaDeR'
  <2>1. R!TypeOK /\ AnulaDeR /\ \A r \in Recepciones : rPc'[r] = rPc[r]
    BY <1>8, AnularHace DEF IInvDeR
  <2>2. UNCHANGED <<orden, recibos>> /\ ~ \E r \in Recepciones : R!Recibiendo(r)
    BY <1>8 DEF R!LeerAnular
  <2>3. a \in R!Actores /\ Sanos(a) /\ rPc'[a] \in {"anular", "fin"}
        /\ (rPc'[a] = "anular" => orden.estado \notin {"received", "partial"})
    <3>1. a \in R!Actores /\ Sanos(a)
      BY <1>8, <2>1, AnularHace
    <3> QED
      BY <1>8, <2>1, <3>1 DEF R!LeerAnular, R!Va, R!TypeOK
  <2>4. \A b \in rAnuladores : rPc'[b] = rPc[b] \/ (b = a /\ rPc'[b] \in {"anular", "fin"})
    BY <2>3 DEF Sanos, Solo, R!Actores
  <2>5. NadieDeR' = NadieDeR
    BY <2>1, <2>2 DEF NadieDeR, R!Recibiendo
  <2>6. (\E b \in rAnuladores : rPc'[b] = "anular") \/ orden.estado = "cancelled" => NadieDeR
    BY <2>1, <2>2, <2>3, <2>4 DEF AnulaDeR, NadieDeR
  <2> QED
    BY <2>1, <2>2, <2>4, <2>5, <2>6 DEF AnulaDeR
<1>9. ASSUME NEW a \in rAnuladores, R!GuardarAnular(a) PROVE AnulaDeR'
  <2>1. R!TypeOK /\ AnulaDeR /\ \A r \in Recepciones : rPc'[r] = rPc[r]
    BY <1>9, AnularHace DEF IInvDeR
  <2>2. recibos' = recibos /\ rPc[a] = "anular" /\ orden'.estado = "cancelled"
    BY <1>9, <2>1 DEF R!GuardarAnular, R!TypeOK
  <2>3. a \in R!Actores /\ Sanos(a) /\ rPc'[a] = "hecho"
    <3>1. a \in R!Actores /\ Sanos(a)
      BY <1>9, <2>1, AnularHace
    <3> QED
      BY <1>9, <2>1, <3>1 DEF R!GuardarAnular, R!Va, R!TypeOK
  <2>4. NadieDeR /\ NadieDeR'
    BY <2>1, <2>2 DEF AnulaDeR, NadieDeR, R!Recibiendo
  <2>5. \A b \in rAnuladores : rPc'[b] = rPc[b] \/ rPc'[b] = "hecho"
    BY <2>3 DEF Sanos, Solo, R!Actores
  <2> QED
    BY <2>1, <2>4, <2>5 DEF AnulaDeR, NadieDeR
<1>10. ASSUME UNCHANGED R!vars PROVE AnulaDeR'
  BY <1>10 DEF IInvDeR, AnulaDeR, NadieDeR, R!Recibiendo, R!vars
<1> QED
  BY <1>1, <1>2, <1>3, <1>4, <1>5, <1>6, <1>7, <1>8, <1>9, <1>10 DEF R!Next

LEMMA CompletaPaso ==
    ASSUME R!Supuestos, ~rCruces, IInvDeR, [R!Next]_(R!vars)
    PROVE  Completa'
<1>1. ASSUME NEW r \in Recepciones, R!Leer(r) PROVE Completa'
  BY <1>1 DEF IInvDeR, Completa, R!Leer
<1>2. ASSUME NEW r \in Recepciones, R!Renglon(r) PROVE Completa'
  <2> DEFINE l == R!Lleva(r).renglon
             n == R!Lleva(r).cant
  <2>1. R!TypeOK /\ RutasDeR /\ Completa
    BY DEF IInvDeR
  <2>2. /\ l \in Renglones /\ n \in Nat \ {0}
        /\ \/ orden' = orden
           \/ orden.recibido[l] + n <= Pide[l] /\ orden' = [orden EXCEPT !.recibido[l] = @ + n]
    BY <1>2, <2>1, RenglonHace
  <2> HIDE DEF l, n
  <2>3. CASE orden' = orden
    BY <2>1, <2>3 DEF Completa
  <2>4. CASE orden.recibido[l] + n <= Pide[l] /\ orden' = [orden EXCEPT !.recibido[l] = @ + n]
    <3>1. orden.recibido[l] \in Nat /\ Pide[l] \in Nat /\ orden'.estado = orden.estado
      BY <2>1, <2>2, <2>4 DEF R!TypeOK, R!Supuestos
    <3>2. orden.recibido[l] # Pide[l]
      BY <2>2, <2>4, <3>1
    <3> QED
      BY <2>1, <2>2, <3>1, <3>2 DEF Completa
  <2> QED
    BY <2>2, <2>3, <2>4
<1>3. ASSUME NEW r \in Recepciones, R!Entrar(r) PROVE Completa'
  BY <1>3 DEF IInvDeR, Completa, R!Entrar
<1>4. ASSUME NEW r \in Recepciones, R!Deber(r) PROVE Completa'
  BY <1>4 DEF IInvDeR, Completa, R!Deber
<1>5. ASSUME NEW r \in Recepciones, R!Recibo(r) PROVE Completa'
  <2>1. R!TypeOK /\ RutasDeR /\ Tope /\ Sabe
    BY DEF IInvDeR
  <2>2. orden'.recibido = orden.recibido /\ orden'.estado = R!Estado(r)
    BY <1>5, <2>1 DEF R!Recibo, R!TypeOK
  <2>3. SUFFICES ASSUME R!Estado(r) = "received", NEW l \in Renglones
                 PROVE  orden.recibido[l] = Pide[l]
    BY <2>2 DEF Completa
  <2>4. rLeido[r].recibido[l] >= Pide[l]
    BY <2>3 DEF R!Estado
  <2>5. rLeido[r].recibido[l] + EnVuelo(r, l) <= orden.recibido[l] /\ orden.recibido[l] <= Pide[l]
    BY <2>1 DEF Sabe, Tope
  <2>6. rLeido[r].recibido[l] \in Nat /\ EnVuelo(r, l) \in Nat /\ orden.recibido[l] \in Nat
    BY <2>1, Lee, VueloNatural
  <2>7. Pide[l] \in Nat
    BY DEF R!Supuestos
  <2> QED
    BY <2>4, <2>5, <2>6, <2>7
<1>6. ASSUME NEW r \in Recepciones, R!Asentar(r) PROVE Completa'
  BY <1>6 DEF IInvDeR, Completa, R!Asentar
<1>7. ASSUME NEW r \in Recepciones, R!Corte(r) PROVE Completa'
  BY <1>7 DEF IInvDeR, Completa, R!Corte
<1>8. ASSUME NEW a \in rAnuladores, R!LeerAnular(a) PROVE Completa'
  BY <1>8 DEF IInvDeR, Completa, R!LeerAnular
<1>9. ASSUME NEW a \in rAnuladores, R!GuardarAnular(a) PROVE Completa'
  BY <1>9 DEF IInvDeR, R!TypeOK, Completa, R!GuardarAnular
<1>10. ASSUME UNCHANGED R!vars PROVE Completa'
  BY <1>10 DEF IInvDeR, Completa, R!vars
<1> QED
  BY <1>1, <1>2, <1>3, <1>4, <1>5, <1>6, <1>7, <1>8, <1>9, <1>10 DEF R!Next

-----------------------------------------------------------------------------
(* The invariant, and what it says *)

LEMMA Mitad ==
    ASSUME NEW c \in Nat \ {0}
    PROVE  c \div (2 * c) = 0
OBVIOUS

LEMMA InicialDeR ==
    ASSUME R!Supuestos, R!Init
    PROVE  IInvDeR
<1>1. IsFiniteSet(Recepciones) /\ IsFiniteSet(Renglones)
  BY MismasFinitas DEF R!Supuestos
<1>2. /\ \A a \in R!Actores : rPc[a] = "libre" /\ rLeido[a] = R!SinLeer
      /\ \A l \in Renglones : orden.recibido[l] = 0 /\ bodega[l] = 0
      /\ R!SinLeer.valor = 0 /\ R!SinLeer.iva = 0 /\ orden.estado = "sent" /\ recibos = {}
      /\ \A l \in Renglones : R!SinLeer.recibido[l] = 0
      /\ \A r \in Recepciones : rLibro[r] = 0 /\ cxp[r] = 0 /\ r \in R!Actores
  BY DEF R!Init, R!Nada, R!SinLeer, R!Actores
<1>3. R!TypeOK
  <2>1. R!SinLeer \in Memorias /\ R!Nada \in [Renglones -> Nat]
    BY DEF R!SinLeer, Memorias, R!Nada
  <2>2. 0 \in 0..rMaxCortes
    BY DEF R!Supuestos
  <2> QED
    BY <2>1, <2>2 DEF R!Init, R!TypeOK, Memorias
<1>4. RutasDeR
  BY <1>2 DEF RutasDeR, Ruta
<1>5. Tope
  BY <1>2 DEF Tope, R!Supuestos
<1>6. Sabe
  BY <1>2 DEF Sabe, EnVuelo
<1>7. Bodegas
  <2>1. SUFFICES ASSUME NEW l \in Renglones PROVE Cuadra(bodega[l] + Vuelan(l), orden.recibido[l])
    BY DEF Bodegas
  <2> DEFINE f == [r \in Recepciones |-> EnVuelo(r, l)]
  <2>2. \A r \in Recepciones : f[r] = 0
    BY <1>2 DEF EnVuelo
  <2>3. SumFunctionOnSet(f, Recepciones) = 0
    <3> HIDE DEF f
    <3> QED
      BY <1>1, <2>2, SumaDeCeros
  <2> QED
    BY <1>2, <2>3 DEF Vuelan, Cuadra
<1>8. Caja
  <2> DEFINE f == [r \in Recepciones |-> Tiene(r)]
             g == [l \in Renglones |-> Bruto(l)]
  <2>1. \A r \in Recepciones : f[r] = 0
    BY <1>2 DEF Tiene
  <2>2. \A l \in Renglones : g[l] = 0
    <3>1. SUFFICES ASSUME NEW l \in Renglones PROVE Bruto(l) = 0
      OBVIOUS
    <3>2. Pide[l] \in Nat \ {0} /\ Iva[l] \in Nat
      BY DEF R!Supuestos
    <3>3. R!ParteIva(l, 0) = Pide[l] \div (2 * Pide[l])
      BY <3>2 DEF R!ParteIva
    <3>4. R!ParteIva(l, 0) = 0
      BY <3>2, <3>3, Mitad
    <3> QED
      BY <1>2, <3>4 DEF Bruto
  <2>3. SumFunctionOnSet(f, Recepciones) = 0
    <3> HIDE DEF f
    <3> QED
      BY <1>1, <2>1, SumaDeCeros
  <2>4. SumFunctionOnSet(g, Renglones) = 0
    <3> HIDE DEF g
    <3> QED
      BY <1>1, <2>2, SumaDeCeros
  <2> QED
    BY <2>3, <2>4 DEF Caja, Cuadra, Tienen, Brutos
<1>9. AnulaDeR /\ Completa
  BY <1>2 DEF AnulaDeR, Completa, NadieDeR, R!Actores
<1> QED
  BY <1>3, <1>4, <1>5, <1>6, <1>7, <1>8, <1>9 DEF IInvDeR

LEMMA IInvSiempreDeR ==
    ASSUME R!Supuestos, ~rCruces
    PROVE  R!Spec => []IInvDeR
<1>1. R!Init => IInvDeR
  BY InicialDeR
<1>2. IInvDeR /\ [R!Next]_(R!vars) => IInvDeR'
  <2> SUFFICES ASSUME IInvDeR, [R!Next]_(R!vars) PROVE IInvDeR'
    OBVIOUS
  <2> QED
    BY TiposPasoDeR, RutasPasoDeR, TopePaso, SabePaso, BodegasPaso, CajaPaso, AnulaPaso,
       CompletaPaso
    DEF IInvDeR
<1> QED
  BY <1>1, <1>2, PTL DEF R!Spec

\* What is owed and posted, against what the receptions have.
LEMMA LoAsentado ==
    ASSUME R!Supuestos, R!TypeOK, RutasDeR
    PROVE  /\ SumFunctionOnSet(rLibro, Recepciones) <= Tienen
           /\ (\A r \in Recepciones : ~R!Recibiendo(r)) /\ ~rota =>
                /\ SumFunctionOnSet(rLibro, Recepciones) = Tienen
                /\ SumFunctionOnSet(cxp, Credito) = SumFunctionOnSet(rLibro, Credito)
<1>1. IsFiniteSet(Recepciones) /\ IsFiniteSet(Credito) /\ Credito \subseteq Recepciones
  BY FS_Subset, MismasFinitas DEF R!Supuestos
<1> DEFINE f == [r \in Recepciones |-> Tiene(r)]
<1>2. \A r \in Recepciones : rLibro[r] \in Int /\ f[r] \in Int /\ rLibro[r] <= f[r]
  <2>1. SUFFICES ASSUME NEW r \in Recepciones
                 PROVE  rLibro[r] \in Int /\ Tiene(r) \in Int /\ rLibro[r] <= Tiene(r)
    OBVIOUS
  <2>2. Tiene(r) \in Nat /\ R!Total(r) \in Nat /\ rLibro[r] \in Nat
    BY VueloNatural, Lee
  <2>3. rLibro[r] = IF rPc[r] = "hecho" THEN R!Total(r) ELSE 0
    BY DEF RutasDeR, Ruta
  <2> QED
    BY <2>2, <2>3 DEF Tiene
<1>3. SumFunctionOnSet(rLibro, Recepciones) <= SumFunctionOnSet(f, Recepciones)
  <2> HIDE DEF f
  <2> QED
    BY <1>1, <1>2, SumaMonotona
<1>4. ASSUME \A r \in Recepciones : ~R!Recibiendo(r), ~rota
      PROVE  /\ \A r \in Recepciones : rLibro[r] = f[r]
             /\ \A r \in Credito : rLibro[r] \in Int /\ cxp[r] = rLibro[r]
  <2>1. \A r \in Recepciones : rPc[r] \in {"libre", "hecho", "fin"}
    BY <1>4 DEF R!Recibiendo
  <2>2. \A r \in Recepciones : rLibro[r] = Tiene(r)
    BY <2>1 DEF RutasDeR, Ruta, Tiene
  <2>3. \A r \in Credito : cxp[r] = rLibro[r]
    BY <1>1, <1>4, <2>1 DEF RutasDeR, Ruta
  <2> QED
    BY <1>1, <1>2, <2>2, <2>3
<1>5. ASSUME \A r \in Recepciones : ~R!Recibiendo(r), ~rota
      PROVE  SumFunctionOnSet(rLibro, Recepciones) = SumFunctionOnSet(f, Recepciones)
  <2>1. \A r \in Recepciones : f[r] \in Int /\ rLibro[r] = f[r]
    BY <1>2, <1>4, <1>5
  <2> HIDE DEF f
  <2> QED
    BY <1>1, <2>1, SumaIgual
<1>6. ASSUME \A r \in Recepciones : ~R!Recibiendo(r), ~rota
      PROVE  SumFunctionOnSet(cxp, Credito) = SumFunctionOnSet(rLibro, Credito)
  <2>1. \A r \in Credito : rLibro[r] \in Int /\ cxp[r] = rLibro[r]
    BY <1>4, <1>6
  <2> QED
    BY <1>1, <2>1, SumaIgual
<1>7. Tienen = SumFunctionOnSet(f, Recepciones)
  BY DEF Tienen
<1> HIDE DEF f
<1> QED
  BY <1>3, <1>5, <1>6, <1>7

LEMMA LoQueLlego ==
    ASSUME R!Supuestos, R!TypeOK, RutasDeR, Bodegas
    PROVE  /\ \A l \in Renglones : bodega[l] <= orden.recibido[l]
           /\ (\A r \in Recepciones : ~R!Recibiendo(r)) /\ ~rota => bodega = orden.recibido
<1>1. IsFiniteSet(Recepciones)
  BY MismasFinitas DEF R!Supuestos
<1>2. ASSUME NEW l \in Renglones
      PROVE  /\ bodega[l] <= orden.recibido[l]
             /\ (\A r \in Recepciones : ~R!Recibiendo(r)) /\ ~rota => bodega[l] = orden.recibido[l]
  <2> DEFINE f == [r \in Recepciones |-> EnVuelo(r, l)]
  <2>1. \A r \in Recepciones : f[r] \in Nat
    BY VueloNatural
  <2>2. (\A r \in Recepciones : ~R!Recibiendo(r)) => \A r \in Recepciones : f[r] = 0
    BY DEF R!Recibiendo, EnVuelo
  <2>3. Vuelan(l) = SumFunctionOnSet(f, Recepciones)
    BY DEF Vuelan
  <2> HIDE DEF f
  <2>4. Vuelan(l) \in Nat
    BY <1>1, <2>1, <2>3, SumaNatural
  <2>5. (\A r \in Recepciones : ~R!Recibiendo(r)) => Vuelan(l) = 0
    BY <1>1, <2>2, <2>3, SumaDeCeros
  <2>6. bodega[l] \in Nat /\ orden.recibido[l] \in Nat
    BY DEF R!TypeOK
  <2>7. bodega[l] + Vuelan(l) <= orden.recibido[l]
        /\ (~rota => bodega[l] + Vuelan(l) = orden.recibido[l])
    BY DEF Bodegas, Cuadra
  <2> QED
    BY <2>4, <2>5, <2>6, <2>7
<1>3. bodega \in [Renglones -> Nat] /\ orden.recibido \in [Renglones -> Nat]
  BY DEF R!TypeOK
<1> QED
  BY <1>2, <1>3

\* Type correctness of the reception of an order.
THEOREM CompraTipos ==
    ASSUME R!Supuestos, ~rCruces
    PROVE  R!Spec => []R!TypeOK
<1>1. IInvDeR => R!TypeOK
  BY DEF IInvDeR
<1> QED
  BY <1>1, IInvSiempreDeR, PTL

\* However many receptions of one order are asked for, crossed and cut anywhere: never
\* more of a line than was ordered, never more goods nor pesos than were advanced, all of
\* them, to the peso of the tax, when none was left halfway; and a status that says no more
\* than what came in, provided no cancellation crosses a reception (~Cruces).
THEOREM CompraSiempreCuadra ==
    ASSUME R!Supuestos, ~rCruces
    PROVE  R!Spec => [](R!LlegoYSeDebe /\ R!EstadoNoAdelanta)
<1>1. IInvDeR => R!LlegoYSeDebe
  <2>1. SUFFICES ASSUME IInvDeR PROVE R!LlegoYSeDebe
    OBVIOUS
  <2> DEFINE dice == SumFunctionOnSet(rLibro, Recepciones)
  <2>2. R!TypeOK /\ RutasDeR /\ Tope /\ Bodegas /\ Caja
    BY <2>1 DEF IInvDeR
  <2>3. /\ dice <= Tienen
        /\ (\A r \in Recepciones : ~R!Recibiendo(r)) /\ ~rota =>
             dice = Tienen /\ SumFunctionOnSet(cxp, Credito) = SumFunctionOnSet(rLibro, Credito)
    BY <2>2, LoAsentado
  <2>4. Tienen <= Brutos /\ (~rota => Tienen = Brutos)
    BY <2>2 DEF Caja, Cuadra
  <2>5. dice \in Int /\ Tienen \in Int /\ Brutos \in Int
    <3>1. IsFiniteSet(Recepciones) /\ \A r \in Recepciones : rLibro[r] \in Int
      BY <2>2, MismasFinitas DEF R!Supuestos, R!TypeOK
    <3> DEFINE f == [r \in Recepciones |-> Tiene(r)]
    <3>2. \A r \in Recepciones : f[r] \in Int
      BY <2>2, VueloNatural
    <3>3. dice \in Int
      BY <3>1, SumaEntera
    <3>4. Tienen = SumFunctionOnSet(f, Recepciones)
      BY DEF Tienen
    <3>5. Tienen \in Int
      <4> HIDE DEF f
      <4> QED
        BY <3>1, <3>2, <3>4, SumaEntera
    <3>6. Brutos \in Int
      BY <2>2, BrutosEnteros
    <3> QED
      BY <3>3, <3>5, <3>6
  <2>6. /\ \A l \in Renglones : bodega[l] <= orden.recibido[l]
        /\ (\A r \in Recepciones : ~R!Recibiendo(r)) /\ ~rota => bodega = orden.recibido
    BY <2>2, LoQueLlego
  <2>7. Brutos = SumFunctionOnSet([l \in Renglones |-> orden.recibido[l] + R!ParteIva(l, orden.recibido[l])],
                                  Renglones)
    BY DEF Brutos, Bruto
  <2>8. dice <= Brutos
        /\ ((\A r \in Recepciones : ~R!Recibiendo(r)) /\ ~rota => dice = Brutos)
    <3> HIDE DEF dice
    <3> QED
      BY <2>3, <2>4, <2>5
  <2> QED
    BY <2>2, <2>3, <2>6, <2>7, <2>8, MismasSumas DEF R!LlegoYSeDebe, Tope
<1>2. IInvDeR => R!EstadoNoAdelanta
  BY DEF IInvDeR, R!EstadoNoAdelanta, Completa, AnulaDeR, NadieDeR
<1> QED
  BY <1>1, <1>2, IInvSiempreDeR, PTL

=============================================================================
