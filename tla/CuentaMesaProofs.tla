--------------------------- MODULE CuentaMesaProofs ---------------------------
(***************************************************************************)
(* For any number of waiters, edits, voids and closings of the drawer and  *)
(* any account: charges alone never write over each other, and an account  *)
(* nobody wrote over is closed only when it is paid, and what it has as    *)
(* paid is what its sales took plus the charges under way.                 *)
(* And, for any sales, senders, regularisations and voids of VentaOffline: *)
(* the stock always adds up, and the missing units of a sale leave once.   *)
(***************************************************************************)
EXTENDS CuentaMesa, Sumas, TLAPS

\* No charge has failed and no edit has been saved.
Limpia == /\ \A c \in Cobros : pc[c] # "error"
          /\ \A m \in Ediciones : pc[m] # "fin"

\* A charge about to take its part read no later paymentSeq, and with the same one it
\* read the account there is.
LecturaVale ==
    \A c \in Cobros : pc[c] = "tomar" =>
        /\ leido[c].seq <= cuenta.seq
        /\ Limpia /\ leido[c].seq = cuenta.seq =>
             leido[c].pagado = cuenta.pagado /\ leido[c].qty = cuenta.qty

\* What it asks for fits in what it read.
PedidoCabe ==
    \A c \in Cobros : pc[c] = "tomar" =>
        \A p \in Productos :
            Pide[c][p] > 0 => Pide[c][p] <= leido[c].qty[p] - leido[c].pagado[p]

-----------------------------------------------------------------------------
(* What the helpers return *)

LEMMA ParteTipo ==
    ASSUME Supuestos, TypeOK, NEW c \in Cobros
    PROVE  /\ Parte(c) \in Unidades
           /\ PagadoDespues(c) \in Unidades
           /\ \A p \in Productos : leido[c].pagado[p] <= PagadoDespues(c)[p]
  <1>1. leido[c].pagado \in Unidades /\ leido[c].qty \in Unidades /\ Pide[c] \in Unidades
    BY DEF Supuestos, TypeOK, Cuentas, Actores
  <1>2. QED
    BY <1>1 DEF Parte, PagadoDespues, Mayor, Falta, Unidades

LEMMA RecortaTipo ==
    ASSUME Supuestos, TypeOK, NEW m \in Ediciones
    PROVE  /\ Recorta(leido[m].pagado, Edita[m]) \in Unidades
           /\ \A p \in Productos : Recorta(leido[m].pagado, Edita[m])[p] <= Edita[m][p]
  <1>1. leido[m].pagado \in Unidades /\ Edita[m] \in Unidades
    BY DEF Supuestos, TypeOK, Cuentas, Actores
  <1>2. QED
    BY <1>1 DEF Recorta, Unidades

-----------------------------------------------------------------------------
(* Types *)

LEMMA TiposInit == Supuestos /\ Init => TypeOK
  <1> SUFFICES ASSUME Supuestos, Init PROVE TypeOK
    OBVIOUS
  <1>1. cuenta \in Cuentas
    BY DEF Supuestos, Init, Cuentas, Unidades, Nada
  <1>2. Nada \in Unidades
    BY DEF Nada, Unidades
  <1>3. ventas \in [Cobros -> Unidades]
    BY <1>2 DEF Init
  <1>4. leido \in [Actores -> Cuentas]
    BY <1>1 DEF Init
  <1>5. fallas \in 0..MaxFallas
    BY DEF Init, Supuestos
  <1>6. QED
    BY <1>1, <1>3, <1>4, <1>5 DEF Init, TypeOK, Pasos

LEMMA TiposNext ==
    ASSUME Supuestos, TypeOK, [Next]_vars
    PROVE  TypeOK'
  <1> USE DEF TypeOK, Pasos, Va, Abre, Actores
  <1>1. ASSUME NEW c \in Cobros, Leer(c) PROVE TypeOK'
    BY <1>1 DEF Leer
  <1>2. ASSUME NEW c \in Cobros, Tomar(c) PROVE TypeOK'
    <2>1. PagadoDespues(c) \in Unidades
      BY ParteTipo
    <2>2. cuenta' \in Cuentas
      <3>1. cuenta.seq + 1 \in Nat
        BY DEF Cuentas
      <3>2. (IF Salda(c) THEN "closed" ELSE cuenta.estado) \in {"open", "closed", "void"}
        BY DEF Cuentas
      <3>3. CASE cuenta.estado = "open" /\ cuenta.seq = leido[c].seq
        BY <1>2, <2>1, <3>1, <3>2, <3>3, ZenonT(60) DEF Tomar, Cuentas
      <3>4. CASE ~(cuenta.estado = "open" /\ cuenta.seq = leido[c].seq)
        BY <1>2, <3>4 DEF Tomar
      <3>5. QED
        BY <3>3, <3>4
    <2>3. pisada' \in BOOLEAN
      BY <1>2, Zenon DEF Tomar
    <2>4. QED
      BY <1>2, <2>2, <2>3 DEF Tomar
  <1>3. ASSUME NEW c \in Cobros, Vender(c) PROVE TypeOK'
    <2>1. Parte(c) \in Unidades
      BY ParteTipo
    <2>2. fallas' \in 0..MaxFallas
      BY <1>3 DEF Vender, Supuestos
    <2>3. QED
      BY <1>3, <2>1, <2>2 DEF Vender
  <1>4. ASSUME NEW c \in Cobros, Devolver(c) PROVE TypeOK'
    <2>1. cuenta' \in Cuentas
      BY <1>4 DEF Devolver, Cuentas
    <2>2. pisada' \in BOOLEAN
      BY <1>4, Zenon DEF Devolver
    <2>3. QED
      BY <1>4, <2>1, <2>2 DEF Devolver
  <1>5. ASSUME NEW c \in Cobros, Enlazar(c) PROVE TypeOK'
    BY <1>5 DEF Enlazar
  <1>6. ASSUME NEW m \in Ediciones, LeerEdicion(m) PROVE TypeOK'
    BY <1>6 DEF LeerEdicion
  <1>7. ASSUME NEW m \in Ediciones, Guardar(m) PROVE TypeOK'
    <2>1. Recorta(leido[m].pagado, Edita[m]) \in Unidades
      BY RecortaTipo
    <2>2. Edita[m] \in Unidades
      BY DEF Supuestos
    <2>3. cuenta' \in Cuentas
      <3> DEFINE pagado == Recorta(leido[m].pagado, Edita[m])
      <3>1. CASE cuenta.v = leido[m].v
        <4>1. cuenta' = [cuenta EXCEPT !.qty = Edita[m], !.v = cuenta.v + 1, !.pagado = pagado]
          BY <1>7, <3>1 DEF Guardar, Cuentas
        <4>2. cuenta.v + 1 \in Nat
          BY DEF Cuentas
        <4> HIDE DEF pagado
        <4>3. pagado \in Unidades
          BY <2>1 DEF pagado
        <4>4. QED
          BY <2>2, <4>1, <4>2, <4>3 DEF Cuentas
      <3>2. CASE cuenta.v # leido[m].v
        BY <1>7, <3>2 DEF Guardar
      <3>3. QED
        BY <3>1, <3>2
    <2>4. pisada' \in BOOLEAN
      BY <1>7, Zenon DEF Guardar
    <2>5. QED
      BY <1>7, <2>3, <2>4 DEF Guardar
  <1>8. ASSUME NEW n \in Anuladores, LeerAnulacion(n) PROVE TypeOK'
    BY <1>8 DEF LeerAnulacion
  <1>9. ASSUME NEW n \in Anuladores, Anular(n) PROVE TypeOK'
    <2>1. cuenta' \in Cuentas
      BY <1>9 DEF Anular, Cuentas
    <2>2. QED
      BY <1>9, <2>1 DEF Anular
  <1>10. ASSUME NEW k \in Cierres, Contar(k) \/ Cerrar(k) PROVE TypeOK'
    BY <1>10 DEF Contar, Cerrar
  <1>11. CASE Abrir
    BY <1>11 DEF Abrir
  <1>12. CASE UNCHANGED vars
    BY <1>12 DEF vars
  <1>13. QED
    BY <1>1, <1>2, <1>3, <1>4, <1>5, <1>6, <1>7, <1>8, <1>9, <1>10, <1>11, <1>12 DEF Next

\* The account keeps its shape, whatever charges, edits, voids or closings cross.
THEOREM TiposSiempre ==
    ASSUME Supuestos
    PROVE  Spec => []TypeOK
  <1>1. Init => TypeOK
    BY TiposInit
  <1>2. TypeOK /\ [Next]_vars => TypeOK'
    BY TiposNext
  <1>3. QED
    BY <1>1, <1>2, PTL DEF Spec

-----------------------------------------------------------------------------
(* Charges alone never write over each other *)

\* A charge that failed and an edit that was saved stay so.
LEMMA LimpiaAntes ==
    ASSUME TypeOK, [Next]_vars, Limpia'
    PROVE  Limpia
  <1> USE DEF TypeOK, Pasos, Va, Abre, Actores
  <1>1. ASSUME NEW a \in Actores, pc[a] \in {"error", "fin"} PROVE pc'[a] = pc[a]
    <2>1. ASSUME NEW c \in Cobros,
                 Leer(c) \/ Tomar(c) \/ Vender(c) \/ Devolver(c) \/ Enlazar(c)
          PROVE  pc'[a] = pc[a]
      BY <1>1, <2>1 DEF Leer, Tomar, Vender, Devolver, Enlazar
    <2>2. ASSUME NEW m \in Ediciones, LeerEdicion(m) \/ Guardar(m) PROVE pc'[a] = pc[a]
      BY <1>1, <2>2 DEF LeerEdicion, Guardar
    <2>3. ASSUME NEW n \in Anuladores, LeerAnulacion(n) \/ Anular(n) PROVE pc'[a] = pc[a]
      BY <1>1, <2>3 DEF LeerAnulacion, Anular
    <2>4. ASSUME NEW k \in Cierres, Contar(k) \/ Cerrar(k) PROVE pc'[a] = pc[a]
      BY <1>1, <2>4 DEF Contar, Cerrar
    <2>5. CASE Abrir \/ UNCHANGED vars
      BY <2>5 DEF Abrir, vars
    <2>6. QED
      BY <2>1, <2>2, <2>3, <2>4, <2>5 DEF Next
  <1>2. QED
    BY <1>1 DEF Limpia

LEMMA LecturaNext ==
    ASSUME Supuestos, TypeOK, LecturaVale, [Next]_vars
    PROVE  LecturaVale'
  <1> SUFFICES ASSUME NEW d \in Cobros, pc'[d] = "tomar"
               PROVE  /\ leido'[d].seq <= cuenta'.seq
                      /\ Limpia' /\ leido'[d].seq = cuenta'.seq =>
                           leido'[d].pagado = cuenta'.pagado /\ leido'[d].qty = cuenta'.qty
    BY DEF LecturaVale
  <1> USE DEF Va, Abre
  <1> DEFINE Igual == /\ pc[d] = "tomar" /\ leido'[d] = leido[d]
                      /\ cuenta'.seq = cuenta.seq
                      /\ cuenta'.pagado = cuenta.pagado /\ cuenta'.qty = cuenta.qty
             Meta == /\ leido'[d].seq <= cuenta'.seq
                     /\ Limpia' /\ leido'[d].seq = cuenta'.seq =>
                          leido'[d].pagado = cuenta'.pagado /\ leido'[d].qty = cuenta'.qty
  <1>1. Limpia' => Limpia
    BY LimpiaAntes
  <1>2. cuenta.seq \in Nat /\ leido[d].seq \in Nat
    BY DEF TypeOK, Cuentas, Actores
  <1>3. pc \in [Actores -> Pasos] /\ leido \in [Actores -> Cuentas] /\ cuenta \in Cuentas
    BY DEF TypeOK
  <1>4. Igual => Meta
    <2> SUFFICES ASSUME Igual PROVE Meta
      OBVIOUS
    <2>1. /\ leido[d].seq <= cuenta.seq
          /\ Limpia /\ leido[d].seq = cuenta.seq =>
               leido[d].pagado = cuenta.pagado /\ leido[d].qty = cuenta.qty
      BY DEF LecturaVale
    <2>2. QED
      BY <1>1, <2>1
  <1>5. ASSUME NEW c \in Cobros, Leer(c) PROVE Meta
    <2>1. CASE c = d
      BY <1>2, <1>3, <1>5, <2>1 DEF Leer, Actores
    <2>2. CASE c # d
      BY <1>3, <1>4, <1>5, <2>2 DEF Leer, Actores
    <2>3. QED
      BY <2>1, <2>2
  <1>6. ASSUME NEW c \in Cobros, Tomar(c) PROVE Meta
    <2>1. c # d /\ pc[d] = "tomar" /\ leido' = leido
      BY <1>3, <1>6 DEF Tomar, Actores
    <2>2. cuenta' = cuenta \/ cuenta'.seq = cuenta.seq + 1
      BY <1>3, <1>6 DEF Tomar, Cuentas
    <2>3. leido[d].seq <= cuenta.seq
      BY <2>1 DEF LecturaVale
    <2>4. CASE cuenta' = cuenta
      BY <1>4, <2>1, <2>4
    <2>5. CASE cuenta'.seq = cuenta.seq + 1
      BY <1>2, <2>1, <2>3, <2>5
    <2>6. QED
      BY <2>2, <2>4, <2>5
  <1>7. ASSUME NEW c \in Cobros, Vender(c) \/ Enlazar(c) PROVE Meta
    BY <1>3, <1>4, <1>7 DEF Vender, Enlazar, Actores
  <1>8. ASSUME NEW c \in Cobros, Devolver(c) PROVE Meta
    <2>1. c # d /\ pc[d] = "tomar" /\ leido' = leido /\ cuenta'.seq = cuenta.seq
      BY <1>3, <1>8 DEF Devolver, Actores, Cuentas
    <2>2. ~Limpia'
      BY <1>3, <1>8 DEF Devolver, Limpia, Actores
    <2>3. QED
      BY <2>1, <2>2 DEF LecturaVale
  <1>9. ASSUME NEW m \in Ediciones, LeerEdicion(m) PROVE Meta
    <2>1. m # d
      BY DEF Supuestos
    <2>2. QED
      BY <1>3, <1>4, <1>9, <2>1 DEF LeerEdicion, Actores
  <1>10. ASSUME NEW m \in Ediciones, Guardar(m) PROVE Meta
    <2>1. m # d
      BY DEF Supuestos
    <2>2. pc[d] = "tomar" /\ leido' = leido
      BY <1>3, <1>10, <2>1 DEF Guardar, Actores
    <2>3. CASE cuenta.v = leido[m].v
      <3>1. ~Limpia'
        BY <1>3, <1>10, <2>3 DEF Guardar, Limpia, Actores
      <3>2. cuenta'.seq = cuenta.seq
        BY <1>3, <1>10, <2>3 DEF Guardar, Cuentas
      <3>3. QED
        BY <2>2, <3>1, <3>2 DEF LecturaVale
    <2>4. CASE cuenta.v # leido[m].v
      BY <1>4, <1>10, <2>2, <2>4 DEF Guardar
    <2>5. QED
      BY <2>3, <2>4
  <1>11. ASSUME NEW n \in Anuladores, LeerAnulacion(n) \/ Anular(n) PROVE Meta
    <2>1. n # d
      BY DEF Supuestos
    <2>2. pc[d] = "tomar" /\ leido'[d] = leido[d]
      BY <1>3, <1>11, <2>1 DEF LeerAnulacion, Anular, Actores
    <2>3. /\ cuenta'.seq = cuenta.seq
          /\ cuenta'.pagado = cuenta.pagado /\ cuenta'.qty = cuenta.qty
      BY <1>3, <1>11 DEF LeerAnulacion, Anular, Cuentas
    <2>4. QED
      BY <1>4, <2>2, <2>3
  <1>12. ASSUME NEW k \in Cierres, Contar(k) \/ Cerrar(k) PROVE Meta
    <2>1. k # d
      BY DEF Supuestos
    <2>2. QED
      BY <1>3, <1>4, <1>12, <2>1 DEF Contar, Cerrar, Actores
  <1>13. CASE Abrir \/ UNCHANGED vars
    BY <1>4, <1>13 DEF Abrir, vars
  <1>14. QED
    BY <1>5, <1>6, <1>7, <1>8, <1>9, <1>10, <1>11, <1>12, <1>13 DEF Next

LEMMA PisanNext ==
    ASSUME Supuestos, TypeOK, LecturaVale, SoloFallasPisan, [Next]_vars
    PROVE  SoloFallasPisan'
  <1> SUFFICES ASSUME Limpia'
               PROVE  ~pisada'
    BY DEF SoloFallasPisan, Limpia
  <1> USE DEF Va, Abre
  <1>1. Limpia /\ ~pisada
    BY LimpiaAntes DEF SoloFallasPisan, Limpia
  <1>2. pc \in [Actores -> Pasos]
    BY DEF TypeOK
  <1>3. ASSUME NEW c \in Cobros, Tomar(c) PROVE ~pisada'
    <2>1. CASE cuenta.estado = "open" /\ cuenta.seq = leido[c].seq
      <3>1. cuenta.pagado = leido[c].pagado /\ cuenta.qty = leido[c].qty
        BY <1>1, <1>3, <2>1 DEF LecturaVale, Tomar
      <3>2. QED
        BY <1>1, <1>3, <2>1, <3>1 DEF Tomar
    <2>2. CASE ~(cuenta.estado = "open" /\ cuenta.seq = leido[c].seq)
      BY <1>1, <1>3, <2>2 DEF Tomar
    <2>3. QED
      BY <2>1, <2>2
  <1>4. ASSUME NEW c \in Cobros, Devolver(c) PROVE ~pisada'
    BY <1>2, <1>4 DEF Devolver, Limpia, Actores
  <1>5. ASSUME NEW c \in Cobros, Leer(c) \/ Vender(c) \/ Enlazar(c) PROVE ~pisada'
    BY <1>1, <1>5 DEF Leer, Vender, Enlazar
  <1>6. ASSUME NEW m \in Ediciones, Guardar(m) PROVE ~pisada'
    <2>1. cuenta.v # leido[m].v
      BY <1>2, <1>6 DEF Guardar, Limpia, Actores
    <2>2. QED
      BY <1>1, <1>6, <2>1 DEF Guardar
  <1>7. ASSUME NEW m \in Ediciones, LeerEdicion(m) PROVE ~pisada'
    BY <1>1, <1>7 DEF LeerEdicion
  <1>8. ASSUME NEW n \in Anuladores, LeerAnulacion(n) \/ Anular(n) PROVE ~pisada'
    BY <1>1, <1>8 DEF LeerAnulacion, Anular
  <1>9. ASSUME NEW k \in Cierres, Contar(k) \/ Cerrar(k) PROVE ~pisada'
    BY <1>1, <1>9 DEF Contar, Cerrar
  <1>10. CASE Abrir \/ UNCHANGED vars
    BY <1>1, <1>10 DEF Abrir, vars
  <1>11. QED
    BY <1>3, <1>4, <1>5, <1>6, <1>7, <1>8, <1>9, <1>10 DEF Next

\* What is paid of an account is written over only when a charge has failed or an edit
\* was saved: charges alone, in any number and order, never do it.
THEOREM CobrosNoSePisan ==
    ASSUME Supuestos
    PROVE  Spec => []SoloFallasPisan
  <1> DEFINE IInv == TypeOK /\ LecturaVale /\ SoloFallasPisan
  <1>1. Init => IInv
    <2>1. Init => TypeOK
      BY TiposInit
    <2>2. ASSUME Init PROVE LecturaVale /\ SoloFallasPisan
      BY <2>2 DEF Init, LecturaVale, SoloFallasPisan, Actores
    <2>3. QED
      BY <2>1, <2>2
  <1>2. IInv /\ [Next]_vars => IInv'
    BY TiposNext, LecturaNext, PisanNext
  <1>3. QED
    BY <1>1, <1>2, PTL DEF Spec

-----------------------------------------------------------------------------
(* An account nobody wrote over is closed when it is paid *)

LEMMA CabeNext ==
    ASSUME Supuestos, TypeOK, PedidoCabe, [Next]_vars
    PROVE  PedidoCabe'
  <1> SUFFICES ASSUME NEW d \in Cobros, pc'[d] = "tomar", NEW p \in Productos, Pide[d][p] > 0
               PROVE  Pide[d][p] <= leido'[d].qty[p] - leido'[d].pagado[p]
    BY DEF PedidoCabe
  <1> USE DEF Va, Abre
  <1> DEFINE Meta == Pide[d][p] <= leido'[d].qty[p] - leido'[d].pagado[p]
  <1>1. pc \in [Actores -> Pasos] /\ leido \in [Actores -> Cuentas]
    BY DEF TypeOK
  <1>2. pc[d] = "tomar" /\ leido'[d] = leido[d] => Meta
    BY DEF PedidoCabe
  <1>3. ASSUME NEW c \in Cobros, Leer(c) PROVE Meta
    <2>1. CASE c = d
      <3>1. leido'[d] = cuenta
        BY <1>1, <1>3, <2>1 DEF Leer, Actores
      <3>2. Pide[d][p] <= Falta(cuenta)[p]
        BY <1>3, <2>1 DEF Leer, Cabe
      <3>3. QED
        BY <3>1, <3>2 DEF Falta
    <2>2. CASE c # d
      BY <1>1, <1>2, <1>3, <2>2 DEF Leer, Actores
    <2>3. QED
      BY <2>1, <2>2
  <1>4. ASSUME NEW c \in Cobros, Tomar(c) \/ Vender(c) \/ Devolver(c) \/ Enlazar(c)
        PROVE  Meta
    <2>1. pc[d] = "tomar" /\ leido' = leido
      BY <1>1, <1>4 DEF Tomar, Vender, Devolver, Enlazar, Actores
    <2>2. QED
      BY <1>2, <2>1
  <1>5. ASSUME NEW m \in Ediciones, LeerEdicion(m) \/ Guardar(m) PROVE Meta
    <2>1. m # d
      BY DEF Supuestos
    <2>2. pc[d] = "tomar" /\ leido'[d] = leido[d]
      BY <1>1, <1>5, <2>1 DEF LeerEdicion, Guardar, Actores
    <2>3. QED
      BY <1>2, <2>2
  <1>6. ASSUME NEW n \in Anuladores, LeerAnulacion(n) \/ Anular(n) PROVE Meta
    <2>1. n # d
      BY DEF Supuestos
    <2>2. QED
      BY <1>1, <1>2, <1>6, <2>1 DEF LeerAnulacion, Anular, Actores
  <1>7. ASSUME NEW k \in Cierres, Contar(k) \/ Cerrar(k) PROVE Meta
    <2>1. k # d
      BY DEF Supuestos
    <2>2. QED
      BY <1>1, <1>2, <1>7, <2>1 DEF Contar, Cerrar, Actores
  <1>8. CASE Abrir \/ UNCHANGED vars
    BY <1>2, <1>8 DEF Abrir, vars
  <1>9. QED
    BY <1>3, <1>4, <1>5, <1>6, <1>7, <1>8 DEF Next

LEMMA PagadaNext ==
    ASSUME Supuestos, TypeOK, PedidoCabe, CerradaPagada, [Next]_vars
    PROVE  CerradaPagada'
  <1> USE DEF Va, Abre
  <1> DEFINE Meta == /\ \A p \in Productos : cuenta'.pagado[p] <= cuenta'.qty[p]
                     /\ cuenta'.estado = "closed" => cuenta'.pagado = cuenta'.qty
  <1> SUFFICES ASSUME ~pisada' PROVE Meta
    BY DEF CerradaPagada
  <1>1. cuenta \in Cuentas /\ leido \in [Actores -> Cuentas] /\ cuenta.pagado \in Unidades
        /\ cuenta.qty \in Unidades
    BY DEF TypeOK, Cuentas
  <1>2. ~pisada /\ cuenta'.pagado = cuenta.pagado /\ cuenta'.qty = cuenta.qty
          /\ (cuenta'.estado = cuenta.estado \/ cuenta'.estado # "closed") => Meta
    BY DEF CerradaPagada
  <1>3. ASSUME NEW c \in Cobros, Tomar(c) PROVE Meta
    <2>1. CASE cuenta.estado = "open" /\ cuenta.seq = leido[c].seq
      <3>1. ~pisada /\ cuenta.pagado = leido[c].pagado /\ cuenta.qty = leido[c].qty
        BY <1>3, <2>1 DEF Tomar
      <3>2. /\ cuenta'.pagado = PagadoDespues(c) /\ cuenta'.qty = cuenta.qty
            /\ cuenta'.estado = "closed" => Salda(c)
        BY <1>1, <1>3, <2>1 DEF Tomar, Cuentas
      <3>3. \A p \in Productos : cuenta.pagado[p] <= cuenta.qty[p]
        BY <3>1 DEF CerradaPagada
      <3>4. CASE Salda(c)
        <4>1. PagadoDespues(c) = cuenta.qty
          BY <1>1, <3>1, <3>3, <3>4 DEF PagadoDespues, Mayor, Unidades
        <4>2. QED
          BY <1>1, <3>2, <4>1 DEF Unidades
      <3>5. CASE ~Salda(c)
        <4>1. Pide[c] \in Unidades
          BY DEF Supuestos
        <4>2. \A p \in Productos : Pide[c][p] > 0 => Pide[c][p] <= cuenta.qty[p] - cuenta.pagado[p]
          BY <1>3, <3>1 DEF PedidoCabe, Tomar
        <4>3. \A p \in Productos : cuenta.pagado[p] + Pide[c][p] <= cuenta.qty[p]
          BY <1>1, <3>3, <4>1, <4>2 DEF Unidades
        <4>4. \A p \in Productos : PagadoDespues(c)[p] = cuenta.pagado[p] + Pide[c][p]
          BY <3>1, <3>5 DEF PagadoDespues
        <4>5. QED
          BY <3>2, <3>5, <4>3, <4>4
      <3>6. QED
        BY <3>4, <3>5
    <2>2. CASE ~(cuenta.estado = "open" /\ cuenta.seq = leido[c].seq)
      BY <1>2, <1>3, <2>2 DEF Tomar
    <2>3. QED
      BY <2>1, <2>2
  <1>4. ASSUME NEW c \in Cobros, Devolver(c) PROVE Meta
    <2>1. ~pisada /\ cuenta.pagado = PagadoDespues(c)
      BY <1>4 DEF Devolver
    <2>2. /\ cuenta'.pagado = leido[c].pagado /\ cuenta'.qty = cuenta.qty
          /\ cuenta'.estado = "open"
      BY <1>1, <1>4 DEF Devolver, Cuentas
    <2>3. /\ \A p \in Productos : leido[c].pagado[p] <= cuenta.pagado[p]
          /\ leido[c].pagado \in Unidades
      BY <1>1, <2>1, ParteTipo DEF Actores, Cuentas
    <2>4. \A p \in Productos : cuenta.pagado[p] <= cuenta.qty[p]
      BY <2>1 DEF CerradaPagada
    <2>5. QED
      BY <1>1, <2>2, <2>3, <2>4 DEF Unidades
  <1>5. ASSUME NEW c \in Cobros, Leer(c) \/ Vender(c) \/ Enlazar(c) PROVE Meta
    BY <1>2, <1>5 DEF Leer, Vender, Enlazar
  <1>6. ASSUME NEW m \in Ediciones, Guardar(m) PROVE Meta
    <2>1. CASE cuenta.v = leido[m].v
      <3>1. ~pisada /\ cuenta.estado = "open"
        BY <1>6, <2>1 DEF Guardar
      <3>2. /\ cuenta'.qty = Edita[m] /\ cuenta'.estado = cuenta.estado
            /\ cuenta'.pagado = Recorta(leido[m].pagado, Edita[m])
        BY <1>1, <1>6, <2>1 DEF Guardar, Cuentas
      <3>3. QED
        BY <3>1, <3>2, RecortaTipo
    <2>2. CASE cuenta.v # leido[m].v
      BY <1>2, <1>6, <2>2 DEF Guardar
    <2>3. QED
      BY <2>1, <2>2
  <1>7. ASSUME NEW m \in Ediciones, LeerEdicion(m) PROVE Meta
    BY <1>2, <1>7 DEF LeerEdicion
  <1>8. ASSUME NEW n \in Anuladores, LeerAnulacion(n) PROVE Meta
    BY <1>2, <1>8 DEF LeerAnulacion
  <1>9. ASSUME NEW n \in Anuladores, Anular(n) PROVE Meta
    <2>1. /\ ~pisada /\ cuenta'.pagado = cuenta.pagado /\ cuenta'.qty = cuenta.qty
          /\ cuenta'.estado = "void"
      BY <1>1, <1>9 DEF Anular, Cuentas
    <2>2. QED
      BY <1>2, <2>1
  <1>10. ASSUME NEW k \in Cierres, Contar(k) \/ Cerrar(k) PROVE Meta
    BY <1>2, <1>10 DEF Contar, Cerrar
  <1>11. CASE Abrir \/ UNCHANGED vars
    BY <1>2, <1>11 DEF Abrir, vars
  <1>12. QED
    BY <1>3, <1>4, <1>5, <1>6, <1>7, <1>8, <1>9, <1>10, <1>11 DEF Next

\* Until somebody writes over what he did not read, nothing is paid that was not
\* ordered and the account that a charge closes is paid in full (checkout), with sales
\* that fail, edits that take units away, voids and closings in between.
THEOREM CerradaSiemprePagada ==
    ASSUME Supuestos
    PROVE  Spec => []CerradaPagada
  <1> DEFINE IInv == TypeOK /\ PedidoCabe /\ CerradaPagada
  <1>1. Init => IInv
    <2>1. Init => TypeOK
      BY TiposInit
    <2>2. Init => PedidoCabe
      BY DEF Init, PedidoCabe, Actores
    <2>3. ASSUME Init PROVE CerradaPagada
      <3>1. cuenta.pagado = Nada /\ cuenta.qty = Pedido /\ cuenta.estado = "open"
        BY <2>3 DEF Init
      <3>2. QED
        BY <3>1 DEF CerradaPagada, Nada, Supuestos, Unidades
    <2>4. QED
      BY <2>1, <2>2, <2>3
  <1>2. IInv /\ [Next]_vars => IInv'
    BY TiposNext, CabeNext, PagadaNext
  <1>3. QED
    BY <1>1, <1>2, PTL DEF Spec

-----------------------------------------------------------------------------
(* What the account has as paid is what its charges took *)

\* What a charge adds to what is paid of p: the part it has taken while its sale is
\* neither made nor given up, and then what it sold.
Aporta(p) == [c \in Cobros |-> IF c \in EnCurso THEN Parte(c)[p] ELSE ventas[c][p]]

PagadoEsLoTomado ==
    ~pisada => \A p \in Productos : cuenta.pagado[p] = SumFunctionOnSet(Aporta(p), Cobros)

\* A charge has sold nothing before its sale is made.
SinVender ==
    \A c \in Cobros : pc[c] \notin {"enlazar", "fin"} => ventas[c] = Nada

LEMMA AportaTipo ==
    ASSUME Supuestos, TypeOK, NEW p \in Productos
    PROVE  \A c \in Cobros : /\ Aporta(p)[c] \in Int /\ ventas[c][p] \in Int
                             /\ Parte(c)[p] \in Int
  <1>1. ASSUME NEW c \in Cobros
        PROVE  ventas[c][p] \in Int /\ Parte(c)[p] \in Int
    BY ParteTipo DEF TypeOK, Unidades
  <1>2. QED
    BY <1>1 DEF Aporta

\* The part taken is what the charge adds to what it read as paid.
LEMMA ParteEsLaDiferencia ==
    ASSUME Supuestos, TypeOK, NEW c \in Cobros, NEW p \in Productos
    PROVE  PagadoDespues(c)[p] = leido[c].pagado[p] + Parte(c)[p]
  <1>1. leido[c].pagado \in Unidades /\ leido[c].qty \in Unidades /\ Pide[c] \in Unidades
    BY DEF Supuestos, TypeOK, Cuentas, Actores
  <1>2. leido[c].pagado[p] \in Nat /\ leido[c].qty[p] \in Nat /\ Pide[c][p] \in Nat
    BY <1>1 DEF Unidades
  <1>3. CASE Salda(c)
    <2>1. /\ Parte(c)[p] = Mayor(0, leido[c].qty[p] - leido[c].pagado[p])
          /\ PagadoDespues(c)[p] = Mayor(leido[c].pagado[p], leido[c].qty[p])
      BY <1>3 DEF Parte, PagadoDespues, Falta
    <2>2. QED
      BY <1>2, <2>1 DEF Mayor
  <1>4. CASE ~Salda(c)
    BY <1>4 DEF Parte, PagadoDespues
  <1>5. QED
    BY <1>3, <1>4

\* The invariant is the property: the charges under way and the rest, apart.
LEMMA CuentaDesdeAporta ==
    ASSUME Supuestos, TypeOK, SinVender, PagadoEsLoTomado
    PROVE  CuentaCuadra
  <1> SUFFICES ASSUME ~pisada, NEW p \in Productos
               PROVE  cuenta.pagado[p] = Cobrado(p) + Tomado(p)
    BY DEF CuentaCuadra
  <1> DEFINE vendido == [c \in Cobros |-> ventas[c][p]]
             parte == [c \in Cobros |-> Parte(c)[p]]
             curso == [c \in Cobros |-> IF c \in EnCurso THEN parte[c] ELSE 0]
  <1>1. IsFiniteSet(Cobros)
    BY DEF Supuestos
  <1>2. EnCurso \in SUBSET Cobros
    BY DEF EnCurso
  <1>3. \A c \in Cobros : parte[c] \in Int /\ curso[c] = IF c \in EnCurso THEN parte[c] ELSE 0
    BY AportaTipo
  <1>4. \A c \in Cobros : /\ vendido[c] \in Int /\ curso[c] \in Int
                          /\ Aporta(p)[c] = vendido[c] + curso[c]
    <2> SUFFICES ASSUME NEW c \in Cobros
                 PROVE  /\ vendido[c] \in Int /\ curso[c] \in Int
                        /\ Aporta(p)[c] = vendido[c] + curso[c]
      OBVIOUS
    <2>1. vendido[c] \in Int /\ parte[c] \in Int
      BY AportaTipo
    <2>2. CASE c \in EnCurso
      <3>1. vendido[c] = 0
        BY <2>2 DEF SinVender, EnCurso, Nada
      <3>2. Aporta(p)[c] = parte[c] /\ curso[c] = parte[c]
        BY <2>2 DEF Aporta
      <3> HIDE DEF vendido, parte, curso
      <3>3. QED
        BY <2>1, <3>1, <3>2
    <2>3. CASE c \notin EnCurso
      <3>1. Aporta(p)[c] = vendido[c] /\ curso[c] = 0
        BY <2>3 DEF Aporta
      <3> HIDE DEF vendido, parte, curso
      <3>2. QED
        BY <2>1, <3>1
    <2>4. QED
      BY <2>2, <2>3
  <1>5. Cobrado(p) = SumFunctionOnSet(vendido, Cobros)
        /\ Tomado(p) = SumFunctionOnSet(parte, EnCurso)
    BY DEF Cobrado, Tomado
  <1> HIDE DEF vendido, parte, curso
  <1>6. SumFunctionOnSet(parte, EnCurso) = SumFunctionOnSet(curso, Cobros)
    BY <1>1, <1>2, <1>3, SumaDeParte
  <1>7. SumFunctionOnSet(Aporta(p), Cobros)
          = SumFunctionOnSet(vendido, Cobros) + SumFunctionOnSet(curso, Cobros)
    BY <1>1, <1>4, SumaDeDos
  <1>8. QED
    BY <1>5, <1>6, <1>7 DEF PagadoEsLoTomado

LEMMA SinVenderNext ==
    ASSUME Supuestos, TypeOK, SinVender, [Next]_vars
    PROVE  SinVender'
  <1> SUFFICES ASSUME NEW d \in Cobros, pc'[d] \notin {"enlazar", "fin"}
               PROVE  ventas'[d] = Nada
    BY DEF SinVender, Nada
  <1> USE DEF Va, Abre
  <1>1. pc \in [Actores -> Pasos] /\ ventas \in [Cobros -> Unidades] /\ d \in Actores
    BY DEF TypeOK, Actores
  <1>2. ventas' = ventas /\ pc[d] \notin {"enlazar", "fin"} => ventas'[d] = Nada
    BY DEF SinVender
  <1>3. ASSUME NEW c \in Cobros, Leer(c) \/ Tomar(c) \/ Devolver(c) \/ Enlazar(c)
        PROVE  ventas'[d] = Nada
    BY <1>1, <1>2, <1>3 DEF Leer, Tomar, Devolver, Enlazar, Actores
  <1>4. ASSUME NEW c \in Cobros, Vender(c) PROVE ventas'[d] = Nada
    <2>1. CASE c = d
      BY <1>1, <1>2, <1>4, <2>1 DEF Vender, Actores
    <2>2. CASE c # d
      <3>1. ventas'[d] = ventas[d] /\ pc'[d] = pc[d]
        BY <1>1, <1>4, <2>2 DEF Vender, Actores
      <3>2. QED
        BY <3>1 DEF SinVender
    <2>3. QED
      BY <2>1, <2>2
  <1>5. ASSUME NEW a \in Actores \ Cobros,
               \/ LeerEdicion(a) \/ Guardar(a) \/ LeerAnulacion(a) \/ Anular(a)
               \/ Contar(a) \/ Cerrar(a)
        PROVE  ventas'[d] = Nada
    BY <1>1, <1>2, <1>5 DEF LeerEdicion, Guardar, LeerAnulacion, Anular, Contar, Cerrar
  <1>6. CASE Abrir \/ UNCHANGED vars
    BY <1>2, <1>6 DEF Abrir, vars
  <1>7. (Ediciones \cup Anuladores \cup Cierres) \cap Cobros = {}
    BY DEF Supuestos
  <1>8. QED
    BY <1>3, <1>4, <1>5, <1>6, <1>7 DEF Next, Actores

\* A step that moves neither what is paid nor what the charges have taken.
LEMMA AportaIgual ==
    ASSUME Supuestos, TypeOK, PagadoEsLoTomado, ~pisada' => ~pisada,
           cuenta'.pagado = cuenta.pagado, ventas' = ventas,
           \A c \in Cobros : /\ (c \in EnCurso)' <=> c \in EnCurso
                             /\ c \in EnCurso => leido'[c] = leido[c]
    PROVE  PagadoEsLoTomado'
  <1> SUFFICES ASSUME ~pisada', NEW p \in Productos
               PROVE  cuenta'.pagado[p] = SumFunctionOnSet(Aporta(p)', Cobros)
    BY DEF PagadoEsLoTomado
  <1>1. Aporta(p)' = Aporta(p)
    BY DEF Aporta, Parte, Salda, Falta
  <1>2. QED
    BY <1>1 DEF PagadoEsLoTomado


LEMMA CuadraNext ==
    ASSUME Supuestos, TypeOK, SinVender, PagadoEsLoTomado, [Next]_vars
    PROVE  PagadoEsLoTomado'
  <1> USE DEF Va, Abre
  <1>1. /\ pc \in [Actores -> Pasos] /\ leido \in [Actores -> Cuentas]
        /\ ventas \in [Cobros -> Unidades] /\ cuenta \in Cuentas
        /\ Cobros \subseteq Actores /\ IsFiniteSet(Cobros)
    BY DEF TypeOK, Actores, Supuestos
  <1>2. ASSUME NEW c \in Cobros, Tomar(c) PROVE PagadoEsLoTomado'
    <2>1. CASE cuenta.estado = "open" /\ cuenta.seq = leido[c].seq
      <3> SUFFICES ASSUME ~pisada', NEW p \in Productos
                   PROVE  cuenta'.pagado[p] = SumFunctionOnSet(Aporta(p)', Cobros)
        BY DEF PagadoEsLoTomado
      <3>1. /\ ~pisada /\ cuenta.pagado = leido[c].pagado
            /\ cuenta'.pagado = PagadoDespues(c)
            /\ leido' = leido /\ ventas' = ventas /\ pc' = [pc EXCEPT ![c] = "vender"]
            /\ pc[c] = "tomar"
        BY <1>1, <1>2, <2>1 DEF Tomar, Cuentas
      <3>2. Aporta(p)'[c] = Parte(c)[p] /\ Aporta(p)[c] = 0
        <4>1. c \notin EnCurso /\ (c \in EnCurso)'
          BY <1>1, <3>1 DEF EnCurso
        <4>2. ventas[c] = Nada
          BY <3>1 DEF SinVender
        <4>3. Parte(c)' = Parte(c)
          BY <3>1 DEF Parte, Salda, Falta
        <4>4. QED
          BY <4>1, <4>2, <4>3 DEF Aporta, Nada
      <3>3. \A d \in Cobros \ {c} : Aporta(p)'[d] = Aporta(p)[d]
        <4>1. \A d \in Cobros \ {c} : (d \in EnCurso)' <=> d \in EnCurso
          BY <1>1, <3>1 DEF EnCurso
        <4>2. \A d \in Cobros : Parte(d)' = Parte(d)
          BY <3>1 DEF Parte, Salda, Falta
        <4>3. QED
          BY <3>1, <4>1, <4>2 DEF Aporta
      <3>4. \A d \in Cobros : Aporta(p)[d] \in Int /\ Aporta(p)'[d] \in Int
        <4>1. Parte(c)[p] \in Int /\ \A d \in Cobros : Aporta(p)[d] \in Int
          BY AportaTipo
        <4>2. QED
          BY <3>2, <3>3, <4>1
      <3>5. SumFunctionOnSet(Aporta(p)', Cobros)
              = SumFunctionOnSet(Aporta(p), Cobros) - Aporta(p)[c] + Aporta(p)'[c]
        BY <1>1, <3>3, <3>4, SumaCambia
      <3>6. cuenta.pagado[p] = SumFunctionOnSet(Aporta(p), Cobros) /\ cuenta.pagado[p] \in Nat
        BY <1>1, <3>1 DEF PagadoEsLoTomado, Cuentas, Unidades
      <3>7. cuenta'.pagado[p] = cuenta.pagado[p] + Parte(c)[p] /\ Parte(c)[p] \in Int
        BY <3>1, ParteEsLaDiferencia, AportaTipo
      <3>8. QED
        BY <3>2, <3>5, <3>6, <3>7
    <2>2. CASE ~(cuenta.estado = "open" /\ cuenta.seq = leido[c].seq)
      <3>1. cuenta' = cuenta /\ pisada' = pisada /\ ventas' = ventas /\ leido' = leido
        BY <1>2, <2>2 DEF Tomar
      <3>2. \A d \in Cobros : (d \in EnCurso)' <=> d \in EnCurso
        BY <1>1, <1>2, <2>2 DEF Tomar, EnCurso
      <3>3. QED
        BY <3>1, <3>2, AportaIgual
    <2>3. QED
      BY <2>1, <2>2
  <1>3. ASSUME NEW c \in Cobros, Vender(c) PROVE PagadoEsLoTomado'
    <2> SUFFICES ASSUME ~pisada', NEW p \in Productos
                 PROVE  cuenta'.pagado[p] = SumFunctionOnSet(Aporta(p)', Cobros)
      BY DEF PagadoEsLoTomado
    <2>1. cuenta' = cuenta /\ leido' = leido /\ pisada' = pisada /\ c \in EnCurso
      BY <1>3 DEF Vender, EnCurso
    <2>2. \A d \in Cobros : Parte(d)' = Parte(d)
      BY <2>1 DEF Parte, Salda, Falta
    <2>3. \A d \in Cobros \ {c} :
            /\ (d \in EnCurso)' <=> d \in EnCurso
            /\ ventas'[d] = ventas[d]
      BY <1>1, <1>3 DEF Vender, EnCurso
    <2>4. \/ pc'[c] = "enlazar" /\ ventas'[c] = Parte(c)
          \/ pc'[c] = "devolver"
      BY <1>1, <1>3 DEF Vender
    <2>5. \A d \in Cobros : Aporta(p)'[d] = Aporta(p)[d]
      <3>1. Aporta(p)'[c] = Aporta(p)[c]
        <4>1. CASE pc'[c] = "enlazar" /\ ventas'[c] = Parte(c)
          <5>1. ~(c \in EnCurso)'
            BY <4>1 DEF EnCurso
          <5>2. QED
            BY <2>1, <4>1, <5>1 DEF Aporta
        <4>2. CASE pc'[c] = "devolver"
          <5>1. (c \in EnCurso)'
            BY <4>2 DEF EnCurso
          <5>2. QED
            BY <2>1, <2>2, <5>1 DEF Aporta
        <4>3. QED
          BY <2>4, <4>1, <4>2
      <3>2. QED
        BY <2>2, <2>3, <3>1 DEF Aporta
    <2>6. Aporta(p)' = Aporta(p)
      BY <2>5 DEF Aporta
    <2>7. QED
      BY <2>1, <2>6 DEF PagadoEsLoTomado
  <1>4. ASSUME NEW c \in Cobros, Devolver(c) PROVE PagadoEsLoTomado'
    <2> SUFFICES ASSUME ~pisada', NEW p \in Productos
                 PROVE  cuenta'.pagado[p] = SumFunctionOnSet(Aporta(p)', Cobros)
      BY DEF PagadoEsLoTomado
    <2>1. /\ ~pisada /\ cuenta.pagado = PagadoDespues(c)
          /\ cuenta'.pagado = leido[c].pagado
          /\ leido' = leido /\ ventas' = ventas /\ pc' = [pc EXCEPT ![c] = "error"]
          /\ pc[c] = "devolver"
      BY <1>1, <1>4 DEF Devolver, Cuentas
    <2>2. Aporta(p)[c] = Parte(c)[p] /\ Aporta(p)'[c] = 0
      <3>1. c \in EnCurso /\ ~(c \in EnCurso)'
        BY <1>1, <2>1 DEF EnCurso
      <3>2. ventas[c] = Nada
        BY <2>1 DEF SinVender
      <3>3. QED
        BY <2>1, <3>1, <3>2 DEF Aporta, Nada
    <2>3. \A d \in Cobros \ {c} : Aporta(p)'[d] = Aporta(p)[d]
      <3>1. \A d \in Cobros \ {c} : (d \in EnCurso)' <=> d \in EnCurso
        BY <1>1, <2>1 DEF EnCurso
      <3>2. \A d \in Cobros : Parte(d)' = Parte(d)
        BY <2>1 DEF Parte, Salda, Falta
      <3>3. QED
        BY <2>1, <3>1, <3>2 DEF Aporta
    <2>4. \A d \in Cobros : Aporta(p)[d] \in Int /\ Aporta(p)'[d] \in Int
      <3>1. \A d \in Cobros : Aporta(p)[d] \in Int
        BY AportaTipo
      <3>2. QED
        BY <2>2, <2>3, <3>1
    <2>5. SumFunctionOnSet(Aporta(p)', Cobros)
            = SumFunctionOnSet(Aporta(p), Cobros) - Aporta(p)[c] + Aporta(p)'[c]
      BY <1>1, <2>3, <2>4, SumaCambia
    <2>6. cuenta.pagado[p] = SumFunctionOnSet(Aporta(p), Cobros)
      BY <2>1 DEF PagadoEsLoTomado
    <2>7. /\ cuenta.pagado[p] = leido[c].pagado[p] + Parte(c)[p]
          /\ Parte(c)[p] \in Int /\ leido[c].pagado[p] \in Nat
      BY <1>1, <2>1, ParteEsLaDiferencia, AportaTipo DEF Cuentas, Unidades
    <2>8. QED
      BY <2>1, <2>2, <2>5, <2>6, <2>7
  <1>5. ASSUME NEW c \in Cobros, Leer(c) \/ Enlazar(c) PROVE PagadoEsLoTomado'
    <2>1. cuenta' = cuenta /\ pisada' = pisada /\ ventas' = ventas
      BY <1>5 DEF Leer, Enlazar
    <2>2. \A d \in Cobros : /\ (d \in EnCurso)' <=> d \in EnCurso
                            /\ d \in EnCurso => leido'[d] = leido[d]
      BY <1>1, <1>5 DEF Leer, Enlazar, EnCurso
    <2>3. QED
      BY <2>1, <2>2, AportaIgual
  <1>6. ASSUME NEW a \in Actores \ Cobros,
               \/ LeerEdicion(a) \/ Guardar(a) \/ LeerAnulacion(a) \/ Anular(a)
               \/ Contar(a) \/ Cerrar(a)
        PROVE  PagadoEsLoTomado'
    <2>1. ventas' = ventas /\ (pisada => pisada')
      <3>1. ventas' = ventas
        BY <1>6 DEF LeerEdicion, Guardar, LeerAnulacion, Anular, Contar, Cerrar
      <3>2. pisada => pisada'
        BY <1>6, Zenon DEF LeerEdicion, Guardar, LeerAnulacion, Anular, Contar, Cerrar
      <3>3. QED
        BY <3>1, <3>2
    <2>2. \A d \in Cobros : /\ (d \in EnCurso)' <=> d \in EnCurso
                            /\ leido'[d] = leido[d]
      BY <1>1, <1>6 DEF LeerEdicion, Guardar, LeerAnulacion, Anular, Contar, Cerrar, EnCurso
    <2>3. CASE pisada'
      BY <2>3 DEF PagadoEsLoTomado
    <2>4. CASE ~pisada'
      <3>1. cuenta'.pagado = cuenta.pagado
        <4>1. CASE Guardar(a)
          BY <1>1, <2>4, <4>1 DEF Guardar, Cuentas
        <4>2. CASE LeerEdicion(a) \/ LeerAnulacion(a) \/ Anular(a) \/ Contar(a) \/ Cerrar(a)
          BY <1>1, <4>2 DEF LeerEdicion, LeerAnulacion, Anular, Contar, Cerrar, Cuentas
        <4>3. QED
          BY <1>6, <4>1, <4>2
      <3>2. QED
        BY <2>1, <2>2, <3>1, AportaIgual
    <2>5. QED
      BY <2>3, <2>4
  <1>7. CASE Abrir \/ UNCHANGED vars
    <2>1. /\ cuenta' = cuenta /\ pisada' = pisada /\ ventas' = ventas /\ pc' = pc
          /\ leido' = leido
      BY <1>7 DEF Abrir, vars
    <2>2. EnCurso' = EnCurso
      BY <2>1 DEF EnCurso
    <2>3. QED
      BY <2>1, <2>2, AportaIgual
  <1>8. (Ediciones \cup Anuladores \cup Cierres) \cap Cobros = {}
    BY DEF Supuestos
  <1>9. QED
    BY <1>2, <1>3, <1>4, <1>5, <1>6, <1>7, <1>8 DEF Next, Actores

\* Until somebody writes over what he did not read, what an account has as paid of each
\* product is what its sales took plus the parts of the charges under way: no part is
\* charged twice and none is lost, through sales that fail and give theirs back, edits
\* of the account and closings of the drawer, for any number of waiters and products.
THEOREM CuentaSiempreCuadra ==
    ASSUME Supuestos
    PROVE  Spec => []CuentaCuadra
  <1> DEFINE IInv == TypeOK /\ SinVender /\ PagadoEsLoTomado
  <1>1. Init => IInv
    <2>1. Init => TypeOK
      BY TiposInit
    <2>2. Init => SinVender
      BY DEF Init, SinVender, Nada
    <2>3. ASSUME Init PROVE PagadoEsLoTomado
      <3> SUFFICES ASSUME NEW p \in Productos
                   PROVE  cuenta.pagado[p] = SumFunctionOnSet(Aporta(p), Cobros)
        BY DEF PagadoEsLoTomado
      <3>1. EnCurso = {}
        BY <2>3 DEF Init, EnCurso, Actores
      <3>2. \A c \in Cobros : Aporta(p)[c] = 0
        BY <2>3, <3>1 DEF Init, Aporta, Nada
      <3>3. SumFunctionOnSet(Aporta(p), Cobros) = 0
        BY <3>2, SumaDeCeros DEF Supuestos
      <3>4. QED
        BY <2>3, <3>3 DEF Init, Nada
    <2>4. QED
      BY <2>1, <2>2, <2>3
  <1>2. IInv /\ [Next]_vars => IInv'
    BY TiposNext, SinVenderNext, CuadraNext
  <1>3. IInv => CuentaCuadra
    BY CuentaDesdeAporta
  <1>4. QED
    BY <1>1, <1>2, <1>3, PTL DEF Spec

-----------------------------------------------------------------------------
(* The sales charged without network, VentaOffline, are O! *)

CONSTANTS
    Ventas, Cuanto, Terminales, TerminalDe, Bloque, Envios, Autorizan, PidenTurno,
    Regularizadores, oAnuladores, VentaDe, Lentas, Existencias, Nadie, oFallan, Cortan,
    MaxTurnos, MaxCompras, oMaxFallas, MaxCortes

VARIABLES
    turno, abierto, contador, reserva, numero, candado, venta, existencias, bandeja,
    cerrojo, salida, asiento, cruce, oPc, oLeido, compras, oFallas, cortes

O == INSTANCE VentaOffline WITH
    Anuladores <- oAnuladores, Fallan <- oFallan, MaxFallas <- oMaxFallas, pc <- oPc,
    leido <- oLeido, fallas <- oFallas

\* The instance's finite sets and sums are the library's.
LEMMA MismasFinitas == \A S : O!IsFiniteSet(S) <=> IsFiniteSet(S)
BY DEF O!IsFiniteSet, IsFiniteSet

LEMMA MismasSumas == \A f, S : O!SumFunctionOnSet(f, S) = SumFunctionOnSet(f, S)
BY DEF O!SumFunctionOnSet, O!FoldFunctionOnSet, O!MapThenFoldSet,
       SumFunctionOnSet, FoldFunctionOnSet, MapThenFoldSet

Leidos == [turno : Nat, pide : BOOLEAN, salio : Nat, falta : Nat, sacado : Nat,
           motivo : O!Motivos \cup {Nadie}, faltante : O!EstadosFaltante]
Registros == [estado : {"no", "completed", "void"}, turno : Nat, salio : Nat, falta : Nat,
              faltante : O!EstadosFaltante]

TiposActores == oPc \in [O!Actores -> {"libre", "fin", "muerto"} \cup O!Pasos] /\ oLeido \in [O!Actores -> Leidos]
TiposTerminal ==
    /\ turno \in 0..MaxTurnos /\ abierto \in BOOLEAN /\ compras \in 0..MaxCompras
    /\ contador \in Nat /\ numero \in [Ventas -> 0..contador]
    /\ reserva \in [Terminales -> [desde : Nat, hasta : 0..contador, turno : 0..turno]]
TiposVentas ==
    /\ candado \in [Ventas -> [estado : {"no", "processing", "done"}, de : Envios \cup {Nadie}]]
    /\ venta \in [Ventas -> Registros]
    /\ bandeja \in [Ventas -> [estado : {"no", "abierto", "resuelto"}, motivo : O!Motivos \cup {Nadie},
                               pide : BOOLEAN]]
    /\ cerrojo \in [Ventas -> Regularizadores \cup {Nadie}]
    /\ existencias \in Nat /\ salida \in [Ventas -> Nat]
    /\ asiento \subseteq Ventas /\ cruce \subseteq Ventas
    /\ oFallas \in 0..oMaxFallas /\ cortes \in 0..MaxCortes
Tipos == TiposActores /\ TiposTerminal /\ TiposVentas

\* What a sender has taken out of stock at each step.
EnEnvio(e, w, l) ==
    /\ w \in {"sacar", "insertar"} => l.salio + l.falta = Cuanto[VentaDe[e]]
    /\ w = "insertar" => l.sacado = l.salio
    /\ l.sacado > 0 => w \in {"insertar", "devolver", "muerto"}
Envio == \A e \in Envios : EnEnvio(e, oPc[e], oLeido[e])

\* A sale takes all its units, now or later.
Completa == \A u \in Ventas :
    /\ venta[u].estado # "no" => venta[u].salio + venta[u].falta = Cuanto[u]
    /\ venta[u].estado = "no" => venta[u].salio = 0 /\ venta[u].falta = 0

\* A void that is undoing what it flipped, or that gave its units back.
Volteo(n) == oPc[n] \in {"reversar", "deshacer", "anularFaltante"} \/ oLeido[n].sacado > 0
SuVolteo(n) ==
    /\ oPc[n] \in {"libre", "voltear", "reversar", "deshacer"} => oLeido[n].sacado = 0
    /\ Volteo(n) => venta[VentaDe[n]].estado = "void"
    /\ oPc[n] # "libre" => venta[VentaDe[n]].estado # "no"
    /\ oLeido[n].sacado \in {0, venta[VentaDe[n]].salio}
Volteos ==
    /\ \A n \in oAnuladores : SuVolteo(n)
    /\ \A n, m \in oAnuladores : Volteo(n) /\ Volteo(m) /\ VentaDe[n] = VentaDe[m] => n = m

De == [u \in Ventas |-> (IF venta[u].estado = "no" THEN 0 ELSE venta[u].salio) + salida[u]]
EnCamino == [e \in Envios |-> oLeido[e].sacado]
Devuelto == [n \in oAnuladores |-> oLeido[n].sacado]
Suma == existencias = Existencias + compras - SumFunctionOnSet(De, Ventas)
          - SumFunctionOnSet(EnCamino, Envios) + SumFunctionOnSet(Devuelto, oAnuladores)

StockInv == Tipos /\ Envio /\ Completa /\ Volteos /\ Suma

\* Who regularises has the lock of the sale.
ConCerrojo == {"marcarC", "consumir", "volver", "marcarA", "asentar", "marcarR", "abrirCerrojo"}
Cerrojos == \A g \in Regularizadores : oPc[g] \in ConCerrojo => cerrojo[VentaDe[g]] = g

\* What the missing units of a sale are at each step of who takes them out.
Saca(g) ==
    LET u == VentaDe[g]
        f == venta[u].faltante
    IN  /\ oPc[g] \notin {"libre", "fin", "muerto"} => f # "no"
        /\ oPc[g] = "marcarC" => salida[u] = 0 /\ f \in {"pendiente", "anulado"}
        /\ oPc[g] \in {"consumir", "volver"} => salida[u] = 0 /\ f \in {"consumiendo", "anulado"}
        /\ oPc[g] = "marcarA" => salida[u] = venta[u].falta /\ f \in {"consumiendo", "anulado"}
        /\ oPc[g] = "asentar" => salida[u] = venta[u].falta /\ f \in {"asiento_pendiente", "anulado"}
        /\ oPc[g] = "marcarR" => u \in asiento /\ f \in {"asiento_pendiente", "regularizado", "anulado"}
Sacan == \A g \in Regularizadores : Saca(g)

FaltaDeO(u) ==
    LET f == venta[u].faltante IN
    /\ f # "no" <=> venta[u].falta > 0
    /\ f = "no" => salida[u] = 0 /\ u \notin asiento
    /\ f = "anulado" => venta[u].estado = "void"
    /\ \A n \in oAnuladores : oPc[n] \in {"reversar", "deshacer"} /\ VentaDe[n] = u => f # "anulado"
    /\ salida[u] \in {0, venta[u].falta}
    /\ u \in asiento \/ f \in {"asiento_pendiente", "regularizado"} => salida[u] > 0
    /\ f = "regularizado" => u \in asiento
    /\ f = "pendiente" => salida[u] = 0
Faltas == \A u \in Ventas : FaltaDeO(u)

\* Nobody takes out the missing units of a voided sale, but who was about to mark it.
Cruzada(u) ==
    venta[u].estado = "void" =>
        /\ venta[u].faltante \notin O!FALTANTE_CERRANDO /\ salida[u] = 0
        /\ \A g \in Regularizadores : VentaDe[g] = u =>
             oPc[g] \notin {"marcarC", "consumir", "volver", "marcarA", "asentar", "marcarR"}
Cruzadas == \A u \in Ventas \ cruce : Cruzada(u)

IInv == StockInv /\ Cerrojos /\ Sacan /\ Faltas /\ Cruzadas

-----------------------------------------------------------------------------
(* Types *)

LEMMA MinDeDos ==
    ASSUME NEW x \in Nat, NEW y \in Nat
    PROVE  O!Min({x, y}) \in Nat /\ O!Min({x, y}) <= x /\ O!Min({x, y}) <= y
<1>1. \E m \in {x, y} : \A z \in {x, y} : m <= z
  <2>1. CASE x <= y
    BY <2>1
  <2>2. CASE y <= x
    BY <2>2
  <2> QED
    BY <2>1, <2>2
<1>2. O!Min({x, y}) \in {x, y} /\ \A z \in {x, y} : O!Min({x, y}) <= z
  BY <1>1 DEF O!Min
<1> QED
  BY <1>2

LEMMA DeVenta ==
    ASSUME O!Supuestos, NEW a \in O!Actores
    PROVE  VentaDe[a] \in Ventas /\ TerminalDe[VentaDe[a]] \in Terminales
BY DEF O!Supuestos

LEMMA LlevaTipo ==
    ASSUME TiposActores, NEW a \in O!Actores
    PROVE  /\ \A v \in Nat : O!Lleva(a, "turno", v) => oLeido' \in [O!Actores -> Leidos]
           /\ \A v \in BOOLEAN : O!Lleva(a, "pide", v) => oLeido' \in [O!Actores -> Leidos]
           /\ \A v \in Nat : O!Lleva(a, "sacado", v) => oLeido' \in [O!Actores -> Leidos]
           /\ \A v \in O!Motivos : O!Lleva(a, "motivo", v) => oLeido' \in [O!Actores -> Leidos]
           /\ \A v \in O!EstadosFaltante : O!Lleva(a, "faltante", v) => oLeido' \in [O!Actores -> Leidos]
<1> USE DEF TiposActores, Leidos, O!Lleva
<1>1. \A v \in Nat : O!Lleva(a, "turno", v) => oLeido' \in [O!Actores -> Leidos]
  OBVIOUS
<1>2. \A v \in BOOLEAN : O!Lleva(a, "pide", v) => oLeido' \in [O!Actores -> Leidos]
  OBVIOUS
<1>3. \A v \in Nat : O!Lleva(a, "sacado", v) => oLeido' \in [O!Actores -> Leidos]
  OBVIOUS
<1>4. \A v \in O!Motivos : O!Lleva(a, "motivo", v) => oLeido' \in [O!Actores -> Leidos]
  OBVIOUS
<1>5. \A v \in O!EstadosFaltante : O!Lleva(a, "faltante", v) => oLeido' \in [O!Actores -> Leidos]
  OBVIOUS
<1> QED
  BY <1>1, <1>2, <1>3, <1>4, <1>5

LEMMA VentaTipo ==
    ASSUME TiposVentas, NEW u \in Ventas
    PROVE  /\ \A r \in Registros : [venta EXCEPT ![u] = r] \in [Ventas -> Registros]
           /\ \A f \in O!EstadosFaltante : [venta EXCEPT ![u].faltante = f] \in [Ventas -> Registros]
           /\ \A s \in {"no", "completed", "void"} :
                [venta EXCEPT ![u].estado = s] \in [Ventas -> Registros]
           /\ \A d, h \in O!EstadosFaltante : O!Pasa(u, d, h) => venta' \in [Ventas -> Registros]
<1>1. \A r \in Registros : [venta EXCEPT ![u] = r] \in [Ventas -> Registros]
  BY DEF TiposVentas
<1>2. \A f \in O!EstadosFaltante : [venta EXCEPT ![u].faltante = f] \in [Ventas -> Registros]
  <2> SUFFICES ASSUME NEW f \in O!EstadosFaltante
               PROVE  [venta EXCEPT ![u].faltante = f] \in [Ventas -> Registros]
    OBVIOUS
  <2>1. venta[u] \in Registros
    BY DEF TiposVentas
  <2>2. [venta[u] EXCEPT !.faltante = f] \in Registros
    BY <2>1 DEF Registros
  <2>3. [venta EXCEPT ![u].faltante = f] = [venta EXCEPT ![u] = [venta[u] EXCEPT !.faltante = f]]
    OBVIOUS
  <2> QED
    BY <1>1, <2>2, <2>3
<1>3. \A s \in {"no", "completed", "void"} :
        [venta EXCEPT ![u].estado = s] \in [Ventas -> Registros]
  BY DEF TiposVentas, Registros
<1>4. \A d, h \in O!EstadosFaltante : O!Pasa(u, d, h) => venta' \in [Ventas -> Registros]
  <2> SUFFICES ASSUME NEW d \in O!EstadosFaltante, NEW h \in O!EstadosFaltante, O!Pasa(u, d, h)
               PROVE  venta' \in [Ventas -> Registros]
    OBVIOUS
  <2>1. venta[u].faltante \in O!EstadosFaltante
    BY DEF TiposVentas, Registros
  <2> DEFINE f == IF venta[u].faltante = d THEN h ELSE venta[u].faltante
  <2>2. f \in O!EstadosFaltante
    BY <2>1
  <2>3. venta' = [venta EXCEPT ![u].faltante = f]
    BY DEF O!Pasa
  <2> HIDE DEF f
  <2> QED
    BY <1>2, <2>2, <2>3
<1> QED
  BY <1>1, <1>2, <1>3, <1>4

LEMMA CandadoTipo ==
    ASSUME TiposVentas, NEW u \in Ventas
    PROVE  /\ \A e \in Envios : [candado EXCEPT ![u] = [estado |-> "processing", de |-> e]]
                \in [Ventas -> [estado : {"no", "processing", "done"}, de : Envios \cup {Nadie}]]
           /\ [candado EXCEPT ![u].estado = IF @ = "no" THEN @ ELSE "done"]
                \in [Ventas -> [estado : {"no", "processing", "done"}, de : Envios \cup {Nadie}]]
BY DEF TiposVentas

LEMMA BandejaTipo ==
    ASSUME TiposVentas, NEW u \in Ventas
    PROVE  [bandeja EXCEPT ![u].estado = IF @ = "no" THEN @ ELSE "resuelto"]
             \in [Ventas -> [estado : {"no", "abierto", "resuelto"}, motivo : O!Motivos \cup {Nadie},
                             pide : BOOLEAN]]
<1> DEFINE B == [estado : {"no", "abierto", "resuelto"}, motivo : O!Motivos \cup {Nadie}, pide : BOOLEAN]
           s == IF bandeja[u].estado = "no" THEN bandeja[u].estado ELSE "resuelto"
<1>1. bandeja \in [Ventas -> B] /\ bandeja[u] \in B
  BY DEF TiposVentas
<1>2. [bandeja[u] EXCEPT !.estado = s] \in B
  BY <1>1
<1>3. [bandeja EXCEPT ![u].estado = IF @ = "no" THEN @ ELSE "resuelto"]
        = [bandeja EXCEPT ![u] = [bandeja[u] EXCEPT !.estado = s]]
  OBVIOUS
<1> QED
  BY <1>1, <1>2, <1>3

LEMMA TiposEnvia ==
    ASSUME O!Supuestos, Tipos, NEW e \in Envios, O!Envia(e)
    PROVE  Tipos'
<1> USE DeVenta
<1>1. e \in O!Actores
  BY DEF O!Actores
<1>2. TiposTerminal'
  BY
  DEF Tipos, TiposTerminal, O!Envia, O!actores, O!Enviar, O!MirarVenta, O!MirarCandado,
      O!Liberar, O!ElegirTurno, O!Tomar, O!Revisar, O!Sacar, O!Insertar, O!Devolver, O!Soltar,
      O!Guardar, O!Marcar, O!Resolver
<1>3. ASSUME O!Enviar(e) PROVE TiposActores' /\ TiposVentas'
  <2>1. oLeido' \in [O!Actores -> Leidos]
    <3>1. bandeja[VentaDe[e]].pide \in BOOLEAN /\ (e \in PidenTurno) \in BOOLEAN
      BY <1>1 DEF Tipos, TiposVentas
    <3>2. (\E v \in BOOLEAN : O!Lleva(e, "pide", v)) \/ UNCHANGED oLeido
      <4>1. CASE e \notin Autorizan
        BY <1>3, <3>1, <4>1 DEF O!Enviar
      <4>2. CASE e \in Autorizan
        BY <1>3, <3>1, <4>2 DEF O!Enviar
      <4> QED
        BY <4>1, <4>2
    <3> QED
      BY LlevaTipo, <1>1, <3>2 DEF Tipos, TiposActores
  <2>2. oPc' \in [O!Actores -> {"libre", "fin", "muerto"} \cup O!Pasos]
    BY <1>1, <1>3 DEF Tipos, TiposActores, O!Va, O!Conflicto, O!Pasos, O!Enviar
  <2>3. TiposVentas'
    BY <1>1, <1>3
    DEF O!Supuestos, Tipos, TiposActores, Leidos, TiposVentas, O!Falla, O!Bien, O!Enviar
  <2> QED
    BY <2>1, <2>2, <2>3 DEF TiposActores
<1>4. ASSUME O!MirarVenta(e) PROVE TiposActores' /\ TiposVentas'
  <2>1. TiposActores'
    BY <1>1, <1>4 DEF Tipos, TiposActores, O!Va, O!Pasos, O!MirarVenta
  <2>2. TiposVentas'
    <3>1. candado' \in [Ventas -> [estado : {"no", "processing", "done"}, de : Envios \cup {Nadie}]]
      <4>1. candado \in [Ventas -> [estado : {"no", "processing", "done"}, de : Envios \cup {Nadie}]]
        BY DEF Tipos, TiposVentas
      <4>2. VentaDe[e] \in Ventas
        BY <1>1
      <4> QED
        BY CandadoTipo, <1>4, <4>1, <4>2 DEF Tipos, O!MirarVenta
    <3> QED
      BY <1>4, <3>1 DEF Tipos, TiposVentas, O!MirarVenta
  <2> QED
    BY <2>1, <2>2 DEF TiposActores
<1>5. ASSUME O!MirarCandado(e) PROVE TiposActores' /\ TiposVentas'
  <2>1. TiposActores'
    BY <1>1, <1>5 DEF Tipos, TiposActores, O!Va, O!Pasos, O!MirarCandado
  <2>2. TiposVentas'
    BY <1>1, <1>5
    DEF O!Supuestos, Tipos, TiposActores, Leidos, TiposVentas, O!Falla, O!Bien, O!MirarCandado
  <2> QED
    BY <2>1, <2>2 DEF TiposActores
<1>6. ASSUME O!Liberar(e) PROVE TiposActores' /\ TiposVentas'
  <2>1. TiposActores'
    BY <1>1, <1>6 DEF Tipos, TiposActores, O!Va, O!Pasos, O!Liberar
  <2>2. TiposVentas'
    BY <1>1, <1>6
    DEF O!Supuestos, Tipos, TiposActores, Leidos, TiposVentas, O!Falla, O!Bien, O!Liberar
  <2> QED
    BY <2>1, <2>2 DEF TiposActores
<1>7. ASSUME O!ElegirTurno(e) PROVE TiposActores' /\ TiposVentas'
  <2>1. oLeido' \in [O!Actores -> Leidos]
    BY LlevaTipo, <1>1, <1>7
    DEF Tipos, TiposActores, TiposTerminal, O!Motivos, O!Conflicto, O!ElegirTurno
  <2>2. oPc' \in [O!Actores -> {"libre", "fin", "muerto"} \cup O!Pasos]
    BY <1>1, <1>7 DEF Tipos, TiposActores, O!Va, O!Conflicto, O!Pasos, O!ElegirTurno
  <2>3. TiposVentas'
    BY <1>1, <1>7
    DEF O!Supuestos, Tipos, TiposActores, Leidos, TiposVentas, O!Falla, O!Bien, O!ElegirTurno
  <2> QED
    BY <2>1, <2>2, <2>3 DEF TiposActores
<1>8. ASSUME O!Tomar(e) PROVE TiposActores' /\ TiposVentas'
  <2>1. oLeido' \in [O!Actores -> Leidos]
    BY LlevaTipo, <1>1, <1>8 DEF Tipos, TiposActores, O!Motivos, O!Conflicto, O!Tomar
  <2>2. oPc' \in [O!Actores -> {"libre", "fin", "muerto"} \cup O!Pasos]
    BY <1>1, <1>8 DEF Tipos, TiposActores, O!Va, O!Conflicto, O!Pasos, O!Tomar
  <2>3. TiposVentas'
    <3>1. candado' \in [Ventas -> [estado : {"no", "processing", "done"}, de : Envios \cup {Nadie}]]
      <4>1. candado \in [Ventas -> [estado : {"no", "processing", "done"}, de : Envios \cup {Nadie}]]
        BY DEF Tipos, TiposVentas
      <4>2. VentaDe[e] \in Ventas
        BY <1>1
      <4> QED
        BY CandadoTipo, <1>8, <4>1, <4>2 DEF Tipos, O!Tomar
    <3> QED
      BY <1>8, <3>1 DEF Tipos, TiposVentas, O!Tomar
  <2> QED
    BY <2>1, <2>2, <2>3 DEF TiposActores
<1>9. ASSUME O!Revisar(e) PROVE TiposActores' /\ TiposVentas'
  <2>1. oLeido' \in [O!Actores -> Leidos]
    <3> DEFINE q == Cuanto[VentaDe[e]]
               hay == O!Min({q, existencias})
    <3>1. hay \in Nat /\ hay <= q /\ q \in Nat /\ q - hay \in Nat
      <4>1. q \in Nat /\ existencias \in Nat
        BY <1>1 DEF O!Supuestos, Tipos, TiposVentas
      <4> HIDE DEF q
      <4> QED
        BY <4>1, MinDeDos
    <3>2. \/ O!Conflicto(e, "TURNO_CERRADO", "soltar") \/ O!Conflicto(e, "SIN_STOCK", "soltar")
          \/ oLeido' = [oLeido EXCEPT ![e].salio = hay, ![e].falta = q - hay]
      BY <1>9 DEF O!Revisar
    <3> HIDE DEF hay, q
    <3>3. CASE oLeido' = [oLeido EXCEPT ![e].salio = hay, ![e].falta = q - hay]
      BY <1>1, <3>1, <3>3 DEF Tipos, TiposActores, Leidos
    <3> QED
      BY LlevaTipo, <1>1, <3>2, <3>3 DEF Tipos, O!Motivos, O!Conflicto
  <2>2. oPc' \in [O!Actores -> {"libre", "fin", "muerto"} \cup O!Pasos]
    BY <1>1, <1>9 DEF Tipos, TiposActores, O!Va, O!Conflicto, O!Pasos, O!Revisar
  <2>3. TiposVentas'
    BY <1>1, <1>9
    DEF O!Supuestos, Tipos, TiposActores, Leidos, TiposVentas, O!Falla, O!Bien, O!Revisar
  <2> QED
    BY <2>1, <2>2, <2>3 DEF TiposActores
<1>10. ASSUME O!Sacar(e) PROVE TiposActores' /\ TiposVentas'
  <2>1. oLeido' \in [O!Actores -> Leidos]
    <3>1. oLeido[e].salio \in Nat
      BY <1>1 DEF Tipos, TiposActores, Leidos
    <3> QED
      BY LlevaTipo, <1>1, <1>10, <3>1 DEF Tipos, TiposActores, O!Motivos, O!Conflicto, O!Sacar
  <2>2. oPc' \in [O!Actores -> {"libre", "fin", "muerto"} \cup O!Pasos]
    BY <1>1, <1>10 DEF Tipos, TiposActores, O!Va, O!Conflicto, O!Pasos, O!Sacar
  <2>3. TiposVentas'
    BY <1>1, <1>10
    DEF O!Supuestos, Tipos, TiposActores, Leidos, TiposVentas, O!Falla, O!Bien, O!Sacar
  <2> QED
    BY <2>1, <2>2, <2>3 DEF TiposActores
<1>11. ASSUME O!Insertar(e) PROVE TiposActores' /\ TiposVentas'
  <2>1. oLeido' \in [O!Actores -> Leidos]
    BY LlevaTipo, <1>1, <1>11 DEF Tipos, TiposActores, O!Insertar
  <2>2. oPc' \in [O!Actores -> {"libre", "fin", "muerto"} \cup O!Pasos]
    BY <1>1, <1>11 DEF Tipos, TiposActores, O!Va, O!Conflicto, O!Pasos, O!Insertar
  <2>3. TiposVentas'
    <3> DEFINE r == [estado |-> "completed", turno |-> oLeido[e].turno, salio |-> oLeido[e].salio,
                    falta |-> oLeido[e].falta,
                    faltante |-> IF oLeido[e].falta > 0 THEN "pendiente" ELSE "no"]
    <3>1. r \in Registros
      BY <1>1 DEF Tipos, TiposActores, Leidos, Registros, O!EstadosFaltante
    <3>2. venta' = [venta EXCEPT ![VentaDe[e]] = r] \/ UNCHANGED venta
      BY <1>11 DEF O!Insertar
    <3> HIDE DEF r
    <3>3. venta' \in [Ventas -> Registros]
      <4>1. VentaDe[e] \in Ventas /\ venta \in [Ventas -> Registros] /\ TiposVentas
        BY <1>1 DEF Tipos, TiposVentas
      <4>2. [venta EXCEPT ![VentaDe[e]] = r] \in [Ventas -> Registros]
        BY <3>1, <4>1
      <4> QED
        BY <3>2, <4>1, <4>2
    <3> QED
      BY <1>11, <3>3 DEF O!Supuestos, Tipos, TiposVentas, O!Falla, O!Bien, O!Insertar
  <2> QED
    BY <2>1, <2>2, <2>3 DEF TiposActores
<1>12. ASSUME O!Devolver(e) PROVE TiposActores' /\ TiposVentas'
  <2>1. oLeido' \in [O!Actores -> Leidos]
    BY LlevaTipo, <1>1, <1>12 DEF Tipos, TiposActores, O!Devolver
  <2>2. oPc' \in [O!Actores -> {"libre", "fin", "muerto"} \cup O!Pasos]
    BY <1>1, <1>12 DEF Tipos, TiposActores, O!Va, O!Conflicto, O!Pasos, O!Devolver
  <2>3. TiposVentas'
    BY <1>1, <1>12
    DEF O!Supuestos, Tipos, TiposActores, Leidos, TiposVentas, O!Falla, O!Bien, O!Devolver
  <2> QED
    BY <2>1, <2>2, <2>3 DEF TiposActores
<1>13. ASSUME O!Soltar(e) PROVE TiposActores' /\ TiposVentas'
  <2>1. TiposActores'
    BY <1>1, <1>13 DEF Tipos, TiposActores, O!Va, O!Pasos, O!Soltar
  <2>2. TiposVentas'
    BY <1>1, <1>13
    DEF O!Supuestos, Tipos, TiposActores, Leidos, TiposVentas, O!Falla, O!Bien, O!Soltar
  <2> QED
    BY <2>1, <2>2 DEF TiposActores
<1>14. ASSUME O!Guardar(e) PROVE TiposActores' /\ TiposVentas'
  <2>1. TiposActores'
    BY <1>1, <1>14 DEF Tipos, TiposActores, O!Va, O!Pasos, O!Guardar
  <2>2. TiposVentas'
    BY <1>1, <1>14
    DEF O!Supuestos, Tipos, TiposActores, Leidos, TiposVentas, O!Falla, O!Bien, O!Guardar
  <2> QED
    BY <2>1, <2>2 DEF TiposActores
<1>15. ASSUME O!Marcar(e) PROVE TiposActores' /\ TiposVentas'
  <2>1. TiposActores'
    BY <1>1, <1>15 DEF Tipos, TiposActores, O!Va, O!Pasos, O!Marcar
  <2>2. TiposVentas'
    <3>1. candado' \in [Ventas -> [estado : {"no", "processing", "done"}, de : Envios \cup {Nadie}]]
      <4>1. candado \in [Ventas -> [estado : {"no", "processing", "done"}, de : Envios \cup {Nadie}]]
        BY DEF Tipos, TiposVentas
      <4>2. VentaDe[e] \in Ventas
        BY <1>1
      <4> QED
        BY CandadoTipo, <1>15, <4>1, <4>2 DEF Tipos, O!Marcar
    <3> QED
      BY <1>15, <3>1 DEF Tipos, TiposVentas, O!Marcar
  <2> QED
    BY <2>1, <2>2 DEF TiposActores
<1>16. ASSUME O!Resolver(e) PROVE TiposActores' /\ TiposVentas'
  <2>1. TiposActores'
    BY <1>1, <1>16 DEF Tipos, TiposActores, O!Va, O!Pasos, O!Resolver
  <2>2. TiposVentas'
    BY BandejaTipo, <1>1, <1>16
    DEF O!Supuestos, Tipos, TiposVentas, O!Falla, O!Bien, O!Resolver
  <2> QED
    BY <2>1, <2>2 DEF TiposActores
<1> QED
  BY <1>2, <1>3, <1>4, <1>5, <1>6, <1>7, <1>8, <1>9, <1>10, <1>11, <1>12, <1>13, <1>14, <1>15,
     <1>16
  DEF Tipos, O!Envia

LEMMA TiposRegulariza ==
    ASSUME O!Supuestos, Tipos, NEW g \in Regularizadores, O!Regulariza(g)
    PROVE  Tipos'
<1> USE DeVenta
<1>1. g \in O!Actores
  BY DEF O!Actores
<1>2. TiposTerminal'
  BY
  DEF Tipos, TiposTerminal, O!Regulariza, O!actores, O!Regularizar, O!Cerrojo, O!MarcarC,
      O!Consumir, O!Volver, O!MarcarA, O!Asentar, O!MarcarR, O!AbrirCerrojo
<1>3. ASSUME O!Regularizar(g) PROVE TiposActores' /\ TiposVentas'
  <2>1. TiposActores'
    BY <1>1, <1>3 DEF Tipos, TiposActores, O!Va, O!Pasos, O!Regularizar
  <2>2. TiposVentas'
    BY <1>1, <1>3
    DEF O!Supuestos, Tipos, TiposActores, Leidos, TiposVentas, O!Falla, O!Bien, O!Regularizar
  <2> QED
    BY <2>1, <2>2 DEF TiposActores
<1>4. ASSUME O!Cerrojo(g) PROVE TiposActores' /\ TiposVentas'
  <2>1. TiposActores'
    BY <1>1, <1>4 DEF Tipos, TiposActores, O!Va, O!Pasos, O!Cerrojo
  <2>2. TiposVentas'
    BY <1>1, <1>4 DEF Tipos, TiposVentas, O!Falla, O!Bien, O!Cerrojo
  <2> QED
    BY <2>1, <2>2 DEF TiposActores
<1>5. ASSUME O!MarcarC(g) PROVE TiposActores' /\ TiposVentas'
  <2>1. TiposActores'
    BY <1>1, <1>5 DEF Tipos, TiposActores, O!Va, O!Pasos, O!MarcarC
  <2>2. TiposVentas'
    <3>1. "pendiente" \in O!EstadosFaltante /\ "consumiendo" \in O!EstadosFaltante
      BY DEF O!EstadosFaltante, O!FALTANTE_CERRANDO
    <3> QED
      BY VentaTipo, <1>1, <1>5, <3>1 DEF Tipos, TiposVentas, O!MarcarC
  <2> QED
    BY <2>1, <2>2 DEF TiposActores
<1>6. ASSUME O!Consumir(g) PROVE TiposActores' /\ TiposVentas'
  <2>1. TiposActores'
    BY <1>1, <1>6 DEF Tipos, TiposActores, O!Va, O!Pasos, O!Consumir
  <2>2. TiposVentas'
    <3>1. venta[VentaDe[g]].falta \in Nat
      BY <1>1 DEF Tipos, TiposVentas, Registros
    <3> QED
      BY <1>1, <1>6, <3>1 DEF Tipos, TiposVentas, O!Consumir
  <2> QED
    BY <2>1, <2>2 DEF TiposActores
<1>7. ASSUME O!Volver(g) PROVE TiposActores' /\ TiposVentas'
  <2>1. TiposActores'
    BY <1>1, <1>7 DEF Tipos, TiposActores, O!Va, O!Pasos, O!Volver
  <2>2. TiposVentas'
    <3>1. "consumiendo" \in O!EstadosFaltante /\ "pendiente" \in O!EstadosFaltante
      BY DEF O!EstadosFaltante, O!FALTANTE_CERRANDO
    <3> QED
      BY VentaTipo, <1>1, <1>7, <3>1 DEF Tipos, TiposVentas, O!Volver
  <2> QED
    BY <2>1, <2>2 DEF TiposActores
<1>8. ASSUME O!MarcarA(g) PROVE TiposActores' /\ TiposVentas'
  <2>1. TiposActores'
    BY <1>1, <1>8 DEF Tipos, TiposActores, O!Va, O!Pasos, O!MarcarA
  <2>2. TiposVentas'
    <3>1. "consumiendo" \in O!EstadosFaltante /\ "asiento_pendiente" \in O!EstadosFaltante
      BY DEF O!EstadosFaltante, O!FALTANTE_CERRANDO
    <3> QED
      BY VentaTipo, <1>1, <1>8, <3>1 DEF Tipos, TiposVentas, O!MarcarA
  <2> QED
    BY <2>1, <2>2 DEF TiposActores
<1>9. ASSUME O!Asentar(g) PROVE TiposActores' /\ TiposVentas'
  <2>1. TiposActores'
    BY <1>1, <1>9 DEF Tipos, TiposActores, O!Va, O!Pasos, O!Asentar
  <2>2. TiposVentas'
    BY <1>1, <1>9
    DEF O!Supuestos, Tipos, TiposActores, Leidos, TiposVentas, O!Falla, O!Bien, O!Asentar
  <2> QED
    BY <2>1, <2>2 DEF TiposActores
<1>10. ASSUME O!MarcarR(g) PROVE TiposActores' /\ TiposVentas'
  <2>1. TiposActores'
    BY <1>1, <1>10 DEF Tipos, TiposActores, O!Va, O!Pasos, O!MarcarR
  <2>2. TiposVentas'
    <3>1. "asiento_pendiente" \in O!EstadosFaltante /\ "regularizado" \in O!EstadosFaltante
      BY DEF O!EstadosFaltante, O!FALTANTE_CERRANDO
    <3> QED
      BY VentaTipo, <1>1, <1>10, <3>1 DEF Tipos, TiposVentas, O!MarcarR
  <2> QED
    BY <2>1, <2>2 DEF TiposActores
<1>11. ASSUME O!AbrirCerrojo(g) PROVE TiposActores' /\ TiposVentas'
  <2>1. TiposActores'
    BY <1>1, <1>11 DEF Tipos, TiposActores, O!Va, O!Pasos, O!AbrirCerrojo
  <2>2. TiposVentas'
    BY <1>1, <1>11
    DEF O!Supuestos, Tipos, TiposActores, Leidos, TiposVentas, O!Falla, O!Bien, O!AbrirCerrojo
  <2> QED
    BY <2>1, <2>2 DEF TiposActores
<1> QED
  BY <1>2, <1>3, <1>4, <1>5, <1>6, <1>7, <1>8, <1>9, <1>10, <1>11 DEF Tipos, O!Regulariza

LEMMA TiposAnula ==
    ASSUME O!Supuestos, Tipos, NEW n \in oAnuladores, O!Anula(n)
    PROVE  Tipos'
<1> USE DeVenta
<1>1. n \in O!Actores
  BY DEF O!Actores
<1>2. TiposTerminal'
  BY
  DEF Tipos, TiposTerminal, O!Anula, O!actores, O!Anular, O!Voltear, O!Reversar, O!Deshacer,
      O!AnularFaltante
<1>3. ASSUME O!Anular(n) PROVE TiposActores' /\ TiposVentas'
  <2>1. TiposActores'
    BY <1>1, <1>3 DEF Tipos, TiposActores, O!Va, O!Pasos, O!Anular
  <2>2. TiposVentas'
    BY <1>1, <1>3
    DEF O!Supuestos, Tipos, TiposActores, Leidos, TiposVentas, O!Falla, O!Bien, O!Anular
  <2> QED
    BY <2>1, <2>2 DEF TiposActores
<1>4. ASSUME O!Voltear(n) PROVE TiposActores' /\ TiposVentas'
  <2>1. oLeido' \in [O!Actores -> Leidos]
    <3>1. venta[VentaDe[n]].faltante \in O!EstadosFaltante
      BY <1>1 DEF Tipos, TiposVentas, Registros
    <3> QED
      BY LlevaTipo, <1>1, <1>4, <3>1 DEF Tipos, TiposActores, O!Voltear
  <2>2. oPc' \in [O!Actores -> {"libre", "fin", "muerto"} \cup O!Pasos]
    BY <1>1, <1>4 DEF Tipos, TiposActores, O!Va, O!Conflicto, O!Pasos, O!Voltear
  <2>3. TiposVentas'
    <3>1. cruce' \subseteq Ventas
      BY <1>1, <1>4 DEF Tipos, TiposVentas, O!Voltear
    <3>2. venta' \in [Ventas -> Registros]
      <4>1. venta' = [venta EXCEPT ![VentaDe[n]].estado = "void"] \/ UNCHANGED venta
        BY <1>4 DEF O!Voltear
      <4> QED
        <5>1. VentaDe[n] \in Ventas /\ venta \in [Ventas -> Registros] /\ TiposVentas
          BY <1>1 DEF Tipos, TiposVentas
        <5>2. [venta EXCEPT ![VentaDe[n]].estado = "void"] \in [Ventas -> Registros]
          BY VentaTipo, <5>1
        <5> QED
          BY <4>1, <5>1, <5>2
    <3> QED
      BY <1>4, <3>1, <3>2 DEF Tipos, TiposVentas, O!Voltear
  <2> QED
    BY <2>1, <2>2, <2>3 DEF TiposActores
<1>5. ASSUME O!Reversar(n) PROVE TiposActores' /\ TiposVentas'
  <2>1. oLeido' \in [O!Actores -> Leidos]
    <3>1. venta[VentaDe[n]].salio \in Nat
      BY <1>1 DEF Tipos, TiposVentas, Registros
    <3> QED
      BY LlevaTipo, <1>1, <1>5, <3>1 DEF Tipos, TiposActores, O!Reversar
  <2>2. oPc' \in [O!Actores -> {"libre", "fin", "muerto"} \cup O!Pasos]
    BY <1>1, <1>5 DEF Tipos, TiposActores, O!Va, O!Conflicto, O!Pasos, O!Reversar
  <2>3. TiposVentas'
    <3>1. venta[VentaDe[n]].salio \in Nat
      BY <1>1 DEF Tipos, TiposVentas, Registros
    <3> QED
      BY <1>1, <1>5, <3>1 DEF O!Supuestos, Tipos, TiposVentas, O!Falla, O!Bien, O!Reversar
  <2> QED
    BY <2>1, <2>2, <2>3 DEF TiposActores
<1>6. ASSUME O!Deshacer(n) PROVE TiposActores' /\ TiposVentas'
  <2>1. TiposActores'
    BY <1>1, <1>6 DEF Tipos, TiposActores, O!Va, O!Pasos, O!Deshacer
  <2>2. TiposVentas'
    BY VentaTipo, <1>1, <1>6 DEF Tipos, TiposVentas, O!Deshacer
  <2> QED
    BY <2>1, <2>2 DEF TiposActores
<1>7. ASSUME O!AnularFaltante(n) PROVE TiposActores' /\ TiposVentas'
  <2>1. TiposActores'
    BY <1>1, <1>7 DEF Tipos, TiposActores, O!Va, O!Pasos, O!AnularFaltante
  <2>2. TiposVentas'
    <3>1. "pendiente" \in O!EstadosFaltante /\ "anulado" \in O!EstadosFaltante
      BY DEF O!EstadosFaltante
    <3> QED
      BY VentaTipo, <1>1, <1>7, <3>1 DEF Tipos, TiposVentas, O!AnularFaltante
  <2> QED
    BY <2>1, <2>2 DEF TiposActores
<1> QED
  BY <1>2, <1>3, <1>4, <1>5, <1>6, <1>7 DEF Tipos, O!Anula

LEMMA TiposDemas ==
    ASSUME O!Supuestos, Tipos,
           \/ O!Turno \/ O!Comprar \/ (\E t \in Terminales : O!Reservar(t)) \/ (\E u \in Ventas : O!Cobrar(u))
           \/ (\E a \in O!Actores : O!Corte(a)) \/ UNCHANGED O!vars
    PROVE  Tipos'
<1>1. ASSUME O!Turno PROVE Tipos'
  <2>0. turno \in 0..MaxTurnos /\ MaxTurnos \in Nat
    BY DEF O!Supuestos, Tipos, TiposTerminal
  <2>5. abierto' \in BOOLEAN /\ (turno' = turno \/ (turno' = turno + 1 /\ turno < MaxTurnos))
    BY <1>1 DEF O!Turno
  <2>1. turno \in Nat /\ turno' \in Nat /\ turno <= turno' /\ turno' \in 0..MaxTurnos
    BY <2>0, <2>5
  <2>2. \A t \in Terminales : reserva[t].turno \in 0..turno'
    BY <2>1 DEF Tipos, TiposTerminal
  <2>3. reserva' \in [Terminales -> [desde : Nat, hasta : 0..contador, turno : 0..turno']]
    BY <1>1, <2>2 DEF Tipos, TiposTerminal, O!Turno
  <2>4. TiposTerminal'
    BY <1>1, <2>1, <2>3, <2>5 DEF Tipos, TiposTerminal, O!Turno
  <2> QED
    BY <1>1, <2>4 DEF Tipos, TiposActores, TiposVentas, O!Turno
<1>2. ASSUME O!Comprar PROVE Tipos'
  BY <1>2 DEF O!Supuestos, Tipos, TiposActores, TiposTerminal, TiposVentas, O!Comprar
<1>3. ASSUME NEW t \in Terminales, O!Reservar(t) PROVE Tipos'
  <2>1. TiposTerminal'
    BY <1>3 DEF O!Supuestos, Tipos, TiposTerminal, O!Reservar
  <2> QED
    BY <1>3, <2>1 DEF Tipos, TiposActores, TiposVentas, O!Reservar
<1>4. ASSUME NEW u \in Ventas, O!Cobrar(u) PROVE Tipos'
  <2>1. PICK n \in reserva[TerminalDe[u]].desde..reserva[TerminalDe[u]].hasta :
          numero' = [numero EXCEPT ![u] = n]
    BY <1>4 DEF O!Cobrar
  <2>2. TerminalDe[u] \in Terminales
    BY DEF O!Supuestos
  <2>3. n \in 0..contador
    BY <2>1, <2>2 DEF Tipos, TiposTerminal
  <2>4. TiposTerminal'
    BY <1>4, <2>1, <2>3 DEF Tipos, TiposTerminal, O!Cobrar
  <2> QED
    BY <1>4, <2>4 DEF Tipos, TiposActores, TiposVentas, O!Cobrar
<1>5. ASSUME NEW a \in O!Actores, O!Corte(a) PROVE Tipos'
  BY <1>5
  DEF O!Supuestos, Tipos, TiposActores, TiposTerminal, TiposVentas, O!actores, O!Corte, O!Va,
      O!Pasos
<1>6. ASSUME UNCHANGED O!vars PROVE Tipos'
  BY <1>6 DEF Tipos, TiposActores, TiposTerminal, TiposVentas, O!vars, O!actores
<1> QED
  BY <1>1, <1>2, <1>3, <1>4, <1>5, <1>6

LEMMA TiposSiempreDeO == O!Supuestos /\ Tipos /\ [O!Next]_(O!vars) => Tipos'
BY TiposEnvia, TiposRegulariza, TiposAnula, TiposDemas DEF O!Next

-----------------------------------------------------------------------------
(* One actor moves *)

Solo(a) == \A b \in O!Actores \ {a} : oPc'[b] = oPc[b] /\ oLeido'[b] = oLeido[b]

LEMMA SonActores ==
    /\ \A e \in Envios : e \in O!Actores
    /\ \A g \in Regularizadores : g \in O!Actores
    /\ \A n \in oAnuladores : n \in O!Actores
BY DEF O!Actores

LEMMA SoloEnvia ==
    ASSUME Tipos, NEW e \in Envios, O!Envia(e)
    PROVE  Solo(e)
<1>1. e \in O!Actores
  BY SonActores
<1>2. ASSUME O!Enviar(e) PROVE Solo(e)
  BY <1>1, <1>2 DEF Tipos, TiposActores, Solo, O!Va, O!Lleva, O!Conflicto, O!Enviar
<1>3. ASSUME O!MirarVenta(e) PROVE Solo(e)
  BY <1>1, <1>3 DEF Tipos, TiposActores, Solo, O!Va, O!Lleva, O!Conflicto, O!MirarVenta
<1>4. ASSUME O!MirarCandado(e) PROVE Solo(e)
  BY <1>1, <1>4 DEF Tipos, TiposActores, Solo, O!Va, O!Lleva, O!Conflicto, O!MirarCandado
<1>5. ASSUME O!Liberar(e) PROVE Solo(e)
  BY <1>1, <1>5 DEF Tipos, TiposActores, Solo, O!Va, O!Lleva, O!Conflicto, O!Liberar
<1>6. ASSUME O!ElegirTurno(e) PROVE Solo(e)
  BY <1>1, <1>6 DEF Tipos, TiposActores, Solo, O!Va, O!Lleva, O!Conflicto, O!ElegirTurno
<1>7. ASSUME O!Tomar(e) PROVE Solo(e)
  BY <1>1, <1>7 DEF Tipos, TiposActores, Solo, O!Va, O!Lleva, O!Conflicto, O!Tomar
<1>8. ASSUME O!Revisar(e) PROVE Solo(e)
  BY <1>1, <1>8 DEF Tipos, TiposActores, Solo, O!Va, O!Lleva, O!Conflicto, O!Revisar
<1>9. ASSUME O!Sacar(e) PROVE Solo(e)
  BY <1>1, <1>9 DEF Tipos, TiposActores, Solo, O!Va, O!Lleva, O!Conflicto, O!Sacar
<1>10. ASSUME O!Insertar(e) PROVE Solo(e)
  BY <1>1, <1>10 DEF Tipos, TiposActores, Solo, O!Va, O!Lleva, O!Conflicto, O!Insertar
<1>11. ASSUME O!Devolver(e) PROVE Solo(e)
  BY <1>1, <1>11 DEF Tipos, TiposActores, Solo, O!Va, O!Lleva, O!Conflicto, O!Devolver
<1>12. ASSUME O!Soltar(e) PROVE Solo(e)
  BY <1>1, <1>12 DEF Tipos, TiposActores, Solo, O!Va, O!Lleva, O!Conflicto, O!Soltar
<1>13. ASSUME O!Guardar(e) PROVE Solo(e)
  BY <1>1, <1>13 DEF Tipos, TiposActores, Solo, O!Va, O!Lleva, O!Conflicto, O!Guardar
<1>14. ASSUME O!Marcar(e) PROVE Solo(e)
  BY <1>1, <1>14 DEF Tipos, TiposActores, Solo, O!Va, O!Lleva, O!Conflicto, O!Marcar
<1>15. ASSUME O!Resolver(e) PROVE Solo(e)
  BY <1>1, <1>15 DEF Tipos, TiposActores, Solo, O!Va, O!Lleva, O!Conflicto, O!Resolver
<1> QED
  BY <1>2, <1>3, <1>4, <1>5, <1>6, <1>7, <1>8, <1>9, <1>10, <1>11, <1>12, <1>13, <1>14, <1>15
  DEF O!Envia

LEMMA SoloRegulariza ==
    ASSUME Tipos, NEW g \in Regularizadores, O!Regulariza(g)
    PROVE  Solo(g)
<1>1. g \in O!Actores
  BY SonActores
<1>2. ASSUME O!Regularizar(g) PROVE Solo(g)
  BY <1>1, <1>2 DEF Tipos, TiposActores, Solo, O!Va, O!Lleva, O!Conflicto, O!Regularizar
<1>3. ASSUME O!Cerrojo(g) PROVE Solo(g)
  BY <1>1, <1>3 DEF Tipos, TiposActores, Solo, O!Va, O!Lleva, O!Conflicto, O!Cerrojo
<1>4. ASSUME O!MarcarC(g) PROVE Solo(g)
  BY <1>1, <1>4 DEF Tipos, TiposActores, Solo, O!Va, O!Lleva, O!Conflicto, O!MarcarC
<1>5. ASSUME O!Consumir(g) PROVE Solo(g)
  BY <1>1, <1>5 DEF Tipos, TiposActores, Solo, O!Va, O!Lleva, O!Conflicto, O!Consumir
<1>6. ASSUME O!Volver(g) PROVE Solo(g)
  BY <1>1, <1>6 DEF Tipos, TiposActores, Solo, O!Va, O!Lleva, O!Conflicto, O!Volver
<1>7. ASSUME O!MarcarA(g) PROVE Solo(g)
  BY <1>1, <1>7 DEF Tipos, TiposActores, Solo, O!Va, O!Lleva, O!Conflicto, O!MarcarA
<1>8. ASSUME O!Asentar(g) PROVE Solo(g)
  BY <1>1, <1>8 DEF Tipos, TiposActores, Solo, O!Va, O!Lleva, O!Conflicto, O!Asentar
<1>9. ASSUME O!MarcarR(g) PROVE Solo(g)
  BY <1>1, <1>9 DEF Tipos, TiposActores, Solo, O!Va, O!Lleva, O!Conflicto, O!MarcarR
<1>10. ASSUME O!AbrirCerrojo(g) PROVE Solo(g)
  BY <1>1, <1>10 DEF Tipos, TiposActores, Solo, O!Va, O!Lleva, O!Conflicto, O!AbrirCerrojo
<1> QED
  BY <1>2, <1>3, <1>4, <1>5, <1>6, <1>7, <1>8, <1>9, <1>10 DEF O!Regulariza

LEMMA SoloAnula ==
    ASSUME Tipos, NEW n \in oAnuladores, O!Anula(n)
    PROVE  Solo(n)
<1>1. n \in O!Actores
  BY SonActores
<1>2. ASSUME O!Anular(n) PROVE Solo(n)
  BY <1>1, <1>2 DEF Tipos, TiposActores, Solo, O!Va, O!Lleva, O!Conflicto, O!Anular
<1>3. ASSUME O!Voltear(n) PROVE Solo(n)
  BY <1>1, <1>3 DEF Tipos, TiposActores, Solo, O!Va, O!Lleva, O!Conflicto, O!Voltear
<1>4. ASSUME O!Reversar(n) PROVE Solo(n)
  BY <1>1, <1>4 DEF Tipos, TiposActores, Solo, O!Va, O!Lleva, O!Conflicto, O!Reversar
<1>5. ASSUME O!Deshacer(n) PROVE Solo(n)
  BY <1>1, <1>5 DEF Tipos, TiposActores, Solo, O!Va, O!Lleva, O!Conflicto, O!Deshacer
<1>6. ASSUME O!AnularFaltante(n) PROVE Solo(n)
  BY <1>1, <1>6 DEF Tipos, TiposActores, Solo, O!Va, O!Lleva, O!Conflicto, O!AnularFaltante
<1> QED
  BY <1>2, <1>3, <1>4, <1>5, <1>6 DEF O!Anula

LEMMA SoloCorte ==
    ASSUME Tipos, NEW a \in O!Actores, O!Corte(a)
    PROVE  Solo(a) /\ oPc'[a] = "muerto" /\ oLeido'[a] = oLeido[a] /\ oPc[a] \in Cortan
BY DEF Tipos, TiposActores, Solo, O!Va, O!Corte

LEMMA Clases ==
    ASSUME O!Supuestos
    PROVE  /\ \A e \in Envios : e \notin Regularizadores /\ e \notin oAnuladores
           /\ \A g \in Regularizadores : g \notin Envios /\ g \notin oAnuladores
           /\ \A n \in oAnuladores : n \notin Envios /\ n \notin Regularizadores
BY DEF O!Supuestos

-----------------------------------------------------------------------------
(* Senders *)

\* The fields of what each actor carries.
LEMMA CamposLeido ==
    ASSUME Tipos, NEW a \in O!Actores
    PROVE  oLeido[a].salio \in Nat /\ oLeido[a].falta \in Nat /\ oLeido[a].sacado \in Nat
BY DEF Tipos, TiposActores, Leidos

LEMMA CamposVenta ==
    ASSUME Tipos, NEW u \in Ventas
    PROVE  /\ venta[u].estado \in {"no", "completed", "void"} /\ venta[u].salio \in Nat
           /\ venta[u].falta \in Nat /\ venta[u].faltante \in O!EstadosFaltante
           /\ salida[u] \in Nat /\ existencias \in Nat
BY DEF Tipos, TiposVentas, Registros

LEMMA EnvioSuyo ==
    ASSUME O!Supuestos, Tipos, Envio, NEW e \in Envios, O!Envia(e)
    PROVE  EnEnvio(e, oPc'[e], oLeido'[e])
<1>1. e \in O!Actores
  BY SonActores
<1>2. ASSUME O!Enviar(e) PROVE EnEnvio(e, oPc'[e], oLeido'[e])
  BY <1>1, <1>2
  DEF Tipos, TiposActores, Leidos, Envio, EnEnvio, O!Va, O!Lleva, O!Conflicto, O!Enviar
<1>3. ASSUME O!MirarVenta(e) PROVE EnEnvio(e, oPc'[e], oLeido'[e])
  BY <1>1, <1>3
  DEF Tipos, TiposActores, Leidos, Envio, EnEnvio, O!Va, O!Lleva, O!Conflicto, O!MirarVenta
<1>4. ASSUME O!MirarCandado(e) PROVE EnEnvio(e, oPc'[e], oLeido'[e])
  BY <1>1, <1>4
  DEF Tipos, TiposActores, Leidos, Envio, EnEnvio, O!Va, O!Lleva, O!Conflicto, O!MirarCandado
<1>5. ASSUME O!Liberar(e) PROVE EnEnvio(e, oPc'[e], oLeido'[e])
  BY <1>1, <1>5
  DEF Tipos, TiposActores, Leidos, Envio, EnEnvio, O!Va, O!Lleva, O!Conflicto, O!Liberar
<1>6. ASSUME O!ElegirTurno(e) PROVE EnEnvio(e, oPc'[e], oLeido'[e])
  BY <1>1, <1>6
  DEF Tipos, TiposActores, Leidos, Envio, EnEnvio, O!Va, O!Lleva, O!Conflicto, O!ElegirTurno
<1>7. ASSUME O!Tomar(e) PROVE EnEnvio(e, oPc'[e], oLeido'[e])
  BY <1>1, <1>7
  DEF Tipos, TiposActores, Leidos, Envio, EnEnvio, O!Va, O!Lleva, O!Conflicto, O!Tomar
<1>8. ASSUME O!Revisar(e) PROVE EnEnvio(e, oPc'[e], oLeido'[e])
  <2> DEFINE q == Cuanto[VentaDe[e]]
             hay == O!Min({q, existencias})
  <2>1. hay \in Nat /\ q \in Nat
    <3>1. q \in Nat /\ existencias \in Nat
      BY DeVenta, <1>1 DEF O!Supuestos, Tipos, TiposVentas
    <3> HIDE DEF q
    <3> QED
      BY <3>1, MinDeDos
  <2>2. \/ O!Conflicto(e, "TURNO_CERRADO", "soltar") \/ O!Conflicto(e, "SIN_STOCK", "soltar")
        \/ oLeido' = [oLeido EXCEPT ![e].salio = hay, ![e].falta = q - hay] /\ O!Va(e, "sacar")
    BY <1>8 DEF O!Revisar
  <2>3. oPc[e] = "revisar"
    BY <1>8 DEF O!Revisar
  <2> HIDE DEF hay
  <2> QED
    BY <1>1, <2>1, <2>2, <2>3
    DEF Tipos, TiposActores, Leidos, Envio, EnEnvio, O!Conflicto, O!Lleva, O!Va
<1>9. ASSUME O!Sacar(e) PROVE EnEnvio(e, oPc'[e], oLeido'[e])
  BY <1>1, <1>9
  DEF Tipos, TiposActores, Leidos, Envio, EnEnvio, O!Va, O!Lleva, O!Conflicto, O!Sacar
<1>10. ASSUME O!Insertar(e) PROVE EnEnvio(e, oPc'[e], oLeido'[e])
  BY <1>1, <1>10
  DEF Tipos, TiposActores, Leidos, Envio, EnEnvio, O!Va, O!Lleva, O!Conflicto, O!Insertar
<1>11. ASSUME O!Devolver(e) PROVE EnEnvio(e, oPc'[e], oLeido'[e])
  BY <1>1, <1>11
  DEF Tipos, TiposActores, Leidos, Envio, EnEnvio, O!Va, O!Lleva, O!Conflicto, O!Devolver
<1>12. ASSUME O!Soltar(e) PROVE EnEnvio(e, oPc'[e], oLeido'[e])
  BY <1>1, <1>12
  DEF Tipos, TiposActores, Leidos, Envio, EnEnvio, O!Va, O!Lleva, O!Conflicto, O!Soltar
<1>13. ASSUME O!Guardar(e) PROVE EnEnvio(e, oPc'[e], oLeido'[e])
  BY <1>1, <1>13
  DEF Tipos, TiposActores, Leidos, Envio, EnEnvio, O!Va, O!Lleva, O!Conflicto, O!Guardar
<1>14. ASSUME O!Marcar(e) PROVE EnEnvio(e, oPc'[e], oLeido'[e])
  BY <1>1, <1>14
  DEF Tipos, TiposActores, Leidos, Envio, EnEnvio, O!Va, O!Lleva, O!Conflicto, O!Marcar
<1>15. ASSUME O!Resolver(e) PROVE EnEnvio(e, oPc'[e], oLeido'[e])
  BY <1>1, <1>15
  DEF Tipos, TiposActores, Leidos, Envio, EnEnvio, O!Va, O!Lleva, O!Conflicto, O!Resolver
<1> QED
  BY <1>2, <1>3, <1>4, <1>5, <1>6, <1>7, <1>8, <1>9, <1>10, <1>11, <1>12, <1>13, <1>14, <1>15
  DEF O!Envia

LEMMA EnvioOtros ==
    ASSUME Envio, NEW a \in O!Actores \ Envios, Solo(a)
    PROVE  Envio'
BY SonActores DEF Envio, EnEnvio, Solo

LEMMA EnvioSiempre == O!Supuestos /\ Tipos /\ Envio /\ [O!Next]_(O!vars) => Envio'
<1> SUFFICES ASSUME O!Supuestos, Tipos, Envio, [O!Next]_(O!vars) PROVE Envio'
  OBVIOUS
<1>1. ASSUME NEW e \in Envios, O!Envia(e) PROVE Envio'
  <2>1. EnEnvio(e, oPc'[e], oLeido'[e]) /\ Solo(e)
    BY <1>1, EnvioSuyo, SoloEnvia
  <2>2. \A b \in Envios \ {e} : EnEnvio(b, oPc'[b], oLeido'[b])
    BY <2>1, SonActores DEF Envio, EnEnvio, Solo
  <2> QED
    BY <2>1, <2>2 DEF Envio
<1>2. ASSUME NEW g \in Regularizadores, O!Regulariza(g) PROVE Envio'
  BY <1>2, SoloRegulariza, EnvioOtros, SonActores, Clases
<1>3. ASSUME NEW n \in oAnuladores, O!Anula(n) PROVE Envio'
  BY <1>3, SoloAnula, EnvioOtros, SonActores, Clases
<1>4. ASSUME NEW a \in O!Actores, O!Corte(a) PROVE Envio'
  BY <1>4, SoloCorte, SonActores DEF Envio, EnEnvio, Solo
<1>5. ASSUME UNCHANGED <<oPc, oLeido>> PROVE Envio'
  BY <1>5 DEF Envio, EnEnvio
<1> QED
  BY <1>1, <1>2, <1>3, <1>4, <1>5 DEF O!Next, O!Turno, O!Comprar, O!Reservar, O!Cobrar, O!vars

-----------------------------------------------------------------------------
(* Sales *)

\* Only this sale is touched.
Aparte(u) == \A w \in Ventas \ {u} : venta'[w] = venta[w] /\ salida'[w] = salida[w]

\* It keeps its units.
Quieta(u) == venta'[u].salio = venta[u].salio /\ venta'[u].falta = venta[u].falta

\* A sale appears.
Nace(e, u) ==
    /\ O!Insertar(e) /\ oPc[e] = "insertar" /\ venta[u].estado = "no"
    /\ venta' = [venta EXCEPT ![u] =
         [estado |-> "completed", turno |-> oLeido[e].turno, salio |-> oLeido[e].salio,
          falta |-> oLeido[e].falta,
          faltante |-> IF oLeido[e].falta > 0 THEN "pendiente" ELSE "no"]]
    /\ oPc'[e] = "marcar" /\ oLeido' = [oLeido EXCEPT ![e].sacado = 0]
    /\ UNCHANGED <<salida, existencias, compras, asiento, cerrojo, cruce>>

LEMMA InsertarHace ==
    ASSUME O!Supuestos, Tipos, NEW e \in Envios, O!Insertar(e)
    PROVE  Nace(e, VentaDe[e]) \/ UNCHANGED <<venta, oLeido, salida, compras, existencias>>
<1>1. e \in O!Actores /\ VentaDe[e] \in Ventas /\ oPc \in [O!Actores -> {"libre", "fin", "muerto"} \cup O!Pasos]
  BY SonActores, DeVenta DEF Tipos, TiposActores
<1> QED
  BY <1>1 DEF O!Insertar, Nace, O!Va, O!Lleva, O!actores

LEMMA VentaEnvia ==
    ASSUME O!Supuestos, Tipos, NEW e \in Envios, O!Envia(e)
    PROVE  Nace(e, VentaDe[e]) \/ UNCHANGED venta
<1>1. e \in O!Actores
  BY SonActores
<1>2. ASSUME O!Enviar(e) PROVE Nace(e, VentaDe[e]) \/ UNCHANGED venta
  BY <1>1, <1>2 DEF O!Enviar
<1>3. ASSUME O!MirarVenta(e) PROVE Nace(e, VentaDe[e]) \/ UNCHANGED venta
  BY <1>1, <1>3 DEF O!MirarVenta
<1>4. ASSUME O!MirarCandado(e) PROVE Nace(e, VentaDe[e]) \/ UNCHANGED venta
  BY <1>1, <1>4 DEF O!MirarCandado
<1>5. ASSUME O!Liberar(e) PROVE Nace(e, VentaDe[e]) \/ UNCHANGED venta
  BY <1>1, <1>5 DEF O!Liberar
<1>6. ASSUME O!ElegirTurno(e) PROVE Nace(e, VentaDe[e]) \/ UNCHANGED venta
  BY <1>1, <1>6 DEF O!ElegirTurno
<1>7. ASSUME O!Tomar(e) PROVE Nace(e, VentaDe[e]) \/ UNCHANGED venta
  BY <1>1, <1>7 DEF O!Tomar
<1>8. ASSUME O!Revisar(e) PROVE Nace(e, VentaDe[e]) \/ UNCHANGED venta
  BY <1>1, <1>8 DEF O!Revisar
<1>9. ASSUME O!Sacar(e) PROVE Nace(e, VentaDe[e]) \/ UNCHANGED venta
  BY <1>1, <1>9 DEF O!Sacar
<1>10. ASSUME O!Insertar(e) PROVE Nace(e, VentaDe[e]) \/ UNCHANGED venta
  BY <1>10, InsertarHace
<1>11. ASSUME O!Devolver(e) PROVE Nace(e, VentaDe[e]) \/ UNCHANGED venta
  BY <1>1, <1>11 DEF O!Devolver
<1>12. ASSUME O!Soltar(e) PROVE Nace(e, VentaDe[e]) \/ UNCHANGED venta
  BY <1>1, <1>12 DEF O!Soltar
<1>13. ASSUME O!Guardar(e) PROVE Nace(e, VentaDe[e]) \/ UNCHANGED venta
  BY <1>1, <1>13 DEF O!Guardar
<1>14. ASSUME O!Marcar(e) PROVE Nace(e, VentaDe[e]) \/ UNCHANGED venta
  BY <1>1, <1>14 DEF O!Marcar
<1>15. ASSUME O!Resolver(e) PROVE Nace(e, VentaDe[e]) \/ UNCHANGED venta
  BY <1>1, <1>15 DEF O!Resolver
<1> QED
  BY <1>2, <1>3, <1>4, <1>5, <1>6, <1>7, <1>8, <1>9, <1>10, <1>11, <1>12, <1>13, <1>14, <1>15
  DEF O!Envia

LEMMA VentaRegulariza ==
    ASSUME O!Supuestos, Tipos, NEW g \in Regularizadores, O!Regulariza(g)
    PROVE  Aparte(VentaDe[g]) /\ Quieta(VentaDe[g]) /\ venta'[VentaDe[g]].estado = venta[VentaDe[g]].estado
<1>1. VentaDe[g] \in Ventas
  BY SonActores, DeVenta
<1>2. ASSUME O!Regularizar(g)
      PROVE  Aparte(VentaDe[g]) /\ Quieta(VentaDe[g]) /\ venta'[VentaDe[g]].estado = venta[VentaDe[g]].estado
  BY <1>1, <1>2 DEF Tipos, TiposVentas, Registros, Aparte, Quieta, O!Pasa, O!Regularizar
<1>3. ASSUME O!Cerrojo(g)
      PROVE  Aparte(VentaDe[g]) /\ Quieta(VentaDe[g]) /\ venta'[VentaDe[g]].estado = venta[VentaDe[g]].estado
  BY <1>1, <1>3 DEF Tipos, TiposVentas, Registros, Aparte, Quieta, O!Pasa, O!Cerrojo
<1>4. ASSUME O!MarcarC(g)
      PROVE  Aparte(VentaDe[g]) /\ Quieta(VentaDe[g]) /\ venta'[VentaDe[g]].estado = venta[VentaDe[g]].estado
  BY <1>1, <1>4 DEF Tipos, TiposVentas, Registros, Aparte, Quieta, O!Pasa, O!MarcarC
<1>5. ASSUME O!Consumir(g)
      PROVE  Aparte(VentaDe[g]) /\ Quieta(VentaDe[g]) /\ venta'[VentaDe[g]].estado = venta[VentaDe[g]].estado
  BY <1>1, <1>5 DEF Tipos, TiposVentas, Registros, Aparte, Quieta, O!Pasa, O!Consumir
<1>6. ASSUME O!Volver(g)
      PROVE  Aparte(VentaDe[g]) /\ Quieta(VentaDe[g]) /\ venta'[VentaDe[g]].estado = venta[VentaDe[g]].estado
  BY <1>1, <1>6 DEF Tipos, TiposVentas, Registros, Aparte, Quieta, O!Pasa, O!Volver
<1>7. ASSUME O!MarcarA(g)
      PROVE  Aparte(VentaDe[g]) /\ Quieta(VentaDe[g]) /\ venta'[VentaDe[g]].estado = venta[VentaDe[g]].estado
  BY <1>1, <1>7 DEF Tipos, TiposVentas, Registros, Aparte, Quieta, O!Pasa, O!MarcarA
<1>8. ASSUME O!Asentar(g)
      PROVE  Aparte(VentaDe[g]) /\ Quieta(VentaDe[g]) /\ venta'[VentaDe[g]].estado = venta[VentaDe[g]].estado
  BY <1>1, <1>8 DEF Tipos, TiposVentas, Registros, Aparte, Quieta, O!Pasa, O!Asentar
<1>9. ASSUME O!MarcarR(g)
      PROVE  Aparte(VentaDe[g]) /\ Quieta(VentaDe[g]) /\ venta'[VentaDe[g]].estado = venta[VentaDe[g]].estado
  BY <1>1, <1>9 DEF Tipos, TiposVentas, Registros, Aparte, Quieta, O!Pasa, O!MarcarR
<1>10. ASSUME O!AbrirCerrojo(g)
       PROVE  Aparte(VentaDe[g]) /\ Quieta(VentaDe[g]) /\ venta'[VentaDe[g]].estado = venta[VentaDe[g]].estado
  BY <1>1, <1>10 DEF Tipos, TiposVentas, Registros, Aparte, Quieta, O!Pasa, O!AbrirCerrojo
<1> QED
  BY <1>2, <1>3, <1>4, <1>5, <1>6, <1>7, <1>8, <1>9, <1>10 DEF O!Regulariza

LEMMA VentaAnula ==
    ASSUME O!Supuestos, Tipos, NEW n \in oAnuladores, O!Anula(n)
    PROVE  Aparte(VentaDe[n]) /\ Quieta(VentaDe[n]) /\ UNCHANGED salida
<1>1. VentaDe[n] \in Ventas
  BY SonActores, DeVenta
<1>2. ASSUME O!Anular(n) PROVE Aparte(VentaDe[n]) /\ Quieta(VentaDe[n]) /\ UNCHANGED salida
  BY <1>1, <1>2 DEF Tipos, TiposVentas, Registros, Aparte, Quieta, O!Pasa, O!Anular
<1>3. ASSUME O!Voltear(n) PROVE Aparte(VentaDe[n]) /\ Quieta(VentaDe[n]) /\ UNCHANGED salida
  BY <1>1, <1>3 DEF Tipos, TiposVentas, Registros, Aparte, Quieta, O!Pasa, O!Voltear
<1>4. ASSUME O!Reversar(n) PROVE Aparte(VentaDe[n]) /\ Quieta(VentaDe[n]) /\ UNCHANGED salida
  BY <1>1, <1>4 DEF Tipos, TiposVentas, Registros, Aparte, Quieta, O!Pasa, O!Reversar
<1>5. ASSUME O!Deshacer(n) PROVE Aparte(VentaDe[n]) /\ Quieta(VentaDe[n]) /\ UNCHANGED salida
  BY <1>1, <1>5 DEF Tipos, TiposVentas, Registros, Aparte, Quieta, O!Pasa, O!Deshacer
<1>6. ASSUME O!AnularFaltante(n)
      PROVE  Aparte(VentaDe[n]) /\ Quieta(VentaDe[n]) /\ UNCHANGED salida
  BY <1>1, <1>6 DEF Tipos, TiposVentas, Registros, Aparte, Quieta, O!Pasa, O!AnularFaltante
<1> QED
  BY <1>2, <1>3, <1>4, <1>5, <1>6 DEF O!Anula

LEMMA EstadoAnula ==
    ASSUME O!Supuestos, Tipos, NEW n \in oAnuladores, O!Anula(n)
    PROVE  LET u == VentaDe[n] IN
           \/ venta'[u].estado = venta[u].estado /\ ~(oPc[n] = "deshacer") /\ oPc'[n] # "reversar"
           \/ /\ venta[u].estado = "completed" /\ venta'[u].estado = "void"
              /\ oPc[n] = "voltear" /\ oPc'[n] = "reversar" /\ oLeido'[n].sacado = oLeido[n].sacado
           \/ /\ venta'[u].estado = "completed" /\ oPc[n] = "deshacer" /\ oPc'[n] = "fin"
              /\ oLeido'[n].sacado = oLeido[n].sacado
<1>1. VentaDe[n] \in Ventas
  BY SonActores, DeVenta
<1>2. ASSUME O!Anular(n) PROVE LET u == VentaDe[n] IN
             \/ venta'[u].estado = venta[u].estado /\ ~(oPc[n] = "deshacer") /\ oPc'[n] # "reversar"
             \/ /\ venta[u].estado = "completed" /\ venta'[u].estado = "void"
                /\ oPc[n] = "voltear" /\ oPc'[n] = "reversar" /\ oLeido'[n].sacado = oLeido[n].sacado
             \/ /\ venta'[u].estado = "completed" /\ oPc[n] = "deshacer" /\ oPc'[n] = "fin"
                /\ oLeido'[n].sacado = oLeido[n].sacado
  BY <1>1, <1>2, SonActores
  DEF Tipos, TiposActores, TiposVentas, Leidos, Registros, O!Pasa, O!Va, O!Lleva, O!Anular
<1>3. ASSUME O!Voltear(n) PROVE LET u == VentaDe[n] IN
             \/ venta'[u].estado = venta[u].estado /\ ~(oPc[n] = "deshacer") /\ oPc'[n] # "reversar"
             \/ /\ venta[u].estado = "completed" /\ venta'[u].estado = "void"
                /\ oPc[n] = "voltear" /\ oPc'[n] = "reversar" /\ oLeido'[n].sacado = oLeido[n].sacado
             \/ /\ venta'[u].estado = "completed" /\ oPc[n] = "deshacer" /\ oPc'[n] = "fin"
                /\ oLeido'[n].sacado = oLeido[n].sacado
  BY <1>1, <1>3, SonActores
  DEF Tipos, TiposActores, TiposVentas, Leidos, Registros, O!Pasa, O!Va, O!Lleva, O!Voltear
<1>4. ASSUME O!Reversar(n) PROVE LET u == VentaDe[n] IN
             \/ venta'[u].estado = venta[u].estado /\ ~(oPc[n] = "deshacer") /\ oPc'[n] # "reversar"
             \/ /\ venta[u].estado = "completed" /\ venta'[u].estado = "void"
                /\ oPc[n] = "voltear" /\ oPc'[n] = "reversar" /\ oLeido'[n].sacado = oLeido[n].sacado
             \/ /\ venta'[u].estado = "completed" /\ oPc[n] = "deshacer" /\ oPc'[n] = "fin"
                /\ oLeido'[n].sacado = oLeido[n].sacado
  BY <1>1, <1>4, SonActores
  DEF Tipos, TiposActores, TiposVentas, Leidos, Registros, O!Pasa, O!Va, O!Lleva, O!Reversar
<1>5. ASSUME O!Deshacer(n) PROVE LET u == VentaDe[n] IN
             \/ venta'[u].estado = venta[u].estado /\ ~(oPc[n] = "deshacer") /\ oPc'[n] # "reversar"
             \/ /\ venta[u].estado = "completed" /\ venta'[u].estado = "void"
                /\ oPc[n] = "voltear" /\ oPc'[n] = "reversar" /\ oLeido'[n].sacado = oLeido[n].sacado
             \/ /\ venta'[u].estado = "completed" /\ oPc[n] = "deshacer" /\ oPc'[n] = "fin"
                /\ oLeido'[n].sacado = oLeido[n].sacado
  BY <1>1, <1>5, SonActores
  DEF Tipos, TiposActores, TiposVentas, Leidos, Registros, O!Pasa, O!Va, O!Lleva, O!Deshacer
<1>6. ASSUME O!AnularFaltante(n) PROVE LET u == VentaDe[n] IN
             \/ venta'[u].estado = venta[u].estado /\ ~(oPc[n] = "deshacer") /\ oPc'[n] # "reversar"
             \/ /\ venta[u].estado = "completed" /\ venta'[u].estado = "void"
                /\ oPc[n] = "voltear" /\ oPc'[n] = "reversar" /\ oLeido'[n].sacado = oLeido[n].sacado
             \/ /\ venta'[u].estado = "completed" /\ oPc[n] = "deshacer" /\ oPc'[n] = "fin"
                /\ oLeido'[n].sacado = oLeido[n].sacado
  <2>1. venta'[VentaDe[n]].estado = venta[VentaDe[n]].estado
    BY <1>1, <1>6 DEF Tipos, TiposVentas, Registros, O!Pasa, O!AnularFaltante
  <2> QED
    BY <1>6, <2>1, SonActores DEF Tipos, TiposActores, O!Va, O!AnularFaltante
<1> QED
  BY <1>2, <1>3, <1>4, <1>5, <1>6 DEF O!Anula

LEMMA CompletaSiempre ==
    O!Supuestos /\ Tipos /\ Envio /\ Volteos /\ Completa /\ [O!Next]_(O!vars) => Completa'
<1> SUFFICES ASSUME O!Supuestos, Tipos, Envio, Volteos, Completa, [O!Next]_(O!vars) PROVE Completa'
  OBVIOUS
<1>1. ASSUME NEW e \in Envios, O!Envia(e) PROVE Completa'
  <2>1. CASE UNCHANGED venta
    BY <2>1 DEF Completa
  <2>2. CASE Nace(e, VentaDe[e])
    <3>1. VentaDe[e] \in Ventas /\ e \in O!Actores
      BY DeVenta, SonActores
    <3>2. oLeido[e].salio + oLeido[e].falta = Cuanto[VentaDe[e]]
      BY <2>2 DEF Nace, Envio, EnEnvio
    <3>3. \A w \in Ventas \ {VentaDe[e]} : venta'[w] = venta[w]
      BY <2>2, <3>1 DEF Nace, Tipos, TiposVentas
    <3>4. /\ venta'[VentaDe[e]].estado = "completed" /\ venta'[VentaDe[e]].salio = oLeido[e].salio
          /\ venta'[VentaDe[e]].falta = oLeido[e].falta
      BY <2>2, <3>1 DEF Nace, Tipos, TiposVentas
    <3> QED
      BY <3>2, <3>3, <3>4 DEF Completa
  <2> QED
    BY <1>1, <2>1, <2>2, VentaEnvia
<1>2. ASSUME NEW g \in Regularizadores, O!Regulariza(g) PROVE Completa'
  BY <1>2, VentaRegulariza DEF Completa, Aparte, Quieta
<1>3. ASSUME NEW n \in oAnuladores, O!Anula(n) PROVE Completa'
  <2>1. oPc[n] = "deshacer" => venta[VentaDe[n]].estado = "void"
    BY DEF Volteos, SuVolteo, Volteo
  <2> QED
    BY <1>3, <2>1, VentaAnula, EstadoAnula DEF Completa, Aparte, Quieta
<1>4. ASSUME UNCHANGED venta PROVE Completa'
  BY <1>4 DEF Completa
<1> QED
  BY <1>1, <1>2, <1>3, <1>4
  DEF O!Next, O!Turno, O!Comprar, O!Reservar, O!Cobrar, O!Corte, O!vars

-----------------------------------------------------------------------------
(* Voids *)

LEMMA VolteosQuietos ==
    ASSUME Volteos, \A n \in oAnuladores : oPc'[n] = oPc[n] /\ oLeido'[n] = oLeido[n],
           \A u \in Ventas :
             /\ venta'[u].salio = venta[u].salio \/ venta[u].estado = "no"
             /\ venta'[u].estado = venta[u].estado \/ venta[u].estado = "no",
           O!Supuestos
    PROVE  Volteos'
<1>1. \A n \in oAnuladores : VentaDe[n] \in Ventas
  BY SonActores, DeVenta
<1>2. \A n \in oAnuladores : Volteo(n)' <=> Volteo(n)
  BY DEF Volteo
<1>3. \A n \in oAnuladores : SuVolteo(n)'
  BY <1>1 DEF Volteos, SuVolteo, Volteo
<1>4. \A n, m \in oAnuladores : Volteo(n)' /\ Volteo(m)' /\ VentaDe[n] = VentaDe[m] => n = m
  BY <1>2 DEF Volteos
<1> QED
  BY <1>3, <1>4 DEF Volteos

LEMMA VolteosSuyo ==
    ASSUME O!Supuestos, Tipos, Volteos, NEW n \in oAnuladores, O!Anula(n)
    PROVE  SuVolteo(n)' /\ (Volteo(n)' => Volteo(n) \/ venta[VentaDe[n]].estado = "completed")
<1>1. VentaDe[n] \in Ventas
  BY SonActores, DeVenta
<1>2. SuVolteo(n)
  BY DEF Volteos
<1>3. ASSUME O!Anular(n)
      PROVE  SuVolteo(n)' /\ (Volteo(n)' => Volteo(n) \/ venta[VentaDe[n]].estado = "completed")
  BY <1>1, <1>2, <1>3, SonActores
  DEF Tipos, TiposActores, TiposVentas, Leidos, Registros, O!Pasa, O!Va, O!Lleva, Volteo, SuVolteo, O!Anular
<1>4. ASSUME O!Voltear(n)
      PROVE  SuVolteo(n)' /\ (Volteo(n)' => Volteo(n) \/ venta[VentaDe[n]].estado = "completed")
  BY <1>1, <1>2, <1>4, SonActores
  DEF Tipos, TiposActores, TiposVentas, Leidos, Registros, O!Pasa, O!Va, O!Lleva, Volteo, SuVolteo, O!Voltear
<1>5. ASSUME O!Reversar(n)
      PROVE  SuVolteo(n)' /\ (Volteo(n)' => Volteo(n) \/ venta[VentaDe[n]].estado = "completed")
  BY <1>1, <1>2, <1>5, SonActores
  DEF Tipos, TiposActores, TiposVentas, Leidos, Registros, O!Pasa, O!Va, O!Lleva, Volteo, SuVolteo, O!Reversar
<1>6. ASSUME O!Deshacer(n)
      PROVE  SuVolteo(n)' /\ (Volteo(n)' => Volteo(n) \/ venta[VentaDe[n]].estado = "completed")
  BY <1>1, <1>2, <1>6, SonActores
  DEF Tipos, TiposActores, TiposVentas, Leidos, Registros, O!Pasa, O!Va, O!Lleva, Volteo, SuVolteo, O!Deshacer
<1>7. ASSUME O!AnularFaltante(n)
      PROVE  SuVolteo(n)' /\ (Volteo(n)' => Volteo(n) \/ venta[VentaDe[n]].estado = "completed")
  BY <1>1, <1>2, <1>7, SonActores
  DEF Tipos, TiposActores, TiposVentas, Leidos, Registros, O!Pasa, O!Va, O!Lleva, Volteo, SuVolteo, O!AnularFaltante
<1> QED
  BY <1>3, <1>4, <1>5, <1>6, <1>7 DEF O!Anula

LEMMA VolteosAnula ==
    ASSUME O!Supuestos, Tipos, Volteos, NEW n \in oAnuladores, O!Anula(n)
    PROVE  Volteos'
<1> DEFINE u == VentaDe[n]
<1>1. u \in Ventas /\ n \in O!Actores /\ \A m \in oAnuladores : VentaDe[m] \in Ventas
  BY SonActores, DeVenta
<1>2. SuVolteo(n)' /\ (Volteo(n)' => Volteo(n) \/ venta[u].estado = "completed")
  BY VolteosSuyo
<1>3. \A m \in oAnuladores \ {n} : (Volteo(m)' <=> Volteo(m)) /\ oPc'[m] = oPc[m] /\ oLeido'[m] = oLeido[m]
  BY SoloAnula, SonActores DEF Solo, Volteo
<1>4. Aparte(u) /\ Quieta(u)
  BY VentaAnula
<1>5. \A m \in oAnuladores : SuVolteo(m) /\ (Volteo(m) => venta[VentaDe[m]].estado = "void")
  BY DEF Volteos, SuVolteo
<1>6. \/ venta'[u].estado = venta[u].estado
      \/ venta[u].estado = "completed" /\ venta'[u].estado = "void"
      \/ venta'[u].estado = "completed" /\ oPc[n] = "deshacer"
  BY EstadoAnula
<1>7. oPc[n] = "deshacer" => Volteo(n)
  BY DEF Volteo
<1>8. \A m \in oAnuladores \ {n} : Volteo(m) /\ VentaDe[m] = u => ~(oPc[n] = "deshacer") /\ ~Volteo(n)
  BY <1>7 DEF Volteos
<1>9. \A m \in oAnuladores \ {n} : SuVolteo(m)'
  <2> SUFFICES ASSUME NEW m \in oAnuladores \ {n} PROVE SuVolteo(m)'
    OBVIOUS
  <2>1. CASE VentaDe[m] # u
    BY <1>1, <1>3, <1>4, <1>5, <2>1 DEF Aparte, SuVolteo
  <2>2. CASE VentaDe[m] = u
    <3>1. Volteo(m) => venta'[u].estado = "void"
      BY <1>5, <1>6, <1>8, <2>2
    <3>2. oPc[m] # "libre" => venta'[u].estado # "no"
      BY <1>5, <1>6, <2>2 DEF SuVolteo
    <3> QED
      BY <1>3, <1>4, <1>5, <2>2, <3>1, <3>2 DEF Quieta, SuVolteo
  <2> QED
    BY <2>1, <2>2
<1>10. \A m \in oAnuladores \ {n} : Volteo(m) /\ VentaDe[m] = u => ~Volteo(n)'
  <2> SUFFICES ASSUME NEW m \in oAnuladores \ {n}, Volteo(m), VentaDe[m] = u PROVE ~Volteo(n)'
    OBVIOUS
  <2>1. venta[u].estado = "void" /\ ~Volteo(n)
    BY <1>5, <1>8
  <2> QED
    BY <1>2, <2>1
<1>11. \A m \in oAnuladores : SuVolteo(m)'
  BY <1>2, <1>9
<1>12. \A m, k \in oAnuladores : Volteo(m)' /\ Volteo(k)' /\ VentaDe[m] = VentaDe[k] => m = k
  <2> SUFFICES ASSUME NEW m \in oAnuladores, NEW k \in oAnuladores, m # k,
                      VentaDe[m] = VentaDe[k], Volteo(m)', Volteo(k)'
               PROVE  FALSE
    OBVIOUS
  <2>1. CASE m = n
    BY <1>3, <1>10, <2>1
  <2>2. CASE k = n
    BY <1>3, <1>10, <2>2
  <2>3. CASE m # n /\ k # n
    BY <1>3, <2>3 DEF Volteos
  <2> QED
    BY <2>1, <2>2, <2>3
<1> QED
  BY <1>11, <1>12 DEF Volteos

LEMMA VolteosSiempre == O!Supuestos /\ Tipos /\ Volteos /\ [O!Next]_(O!vars) => Volteos'
<1> SUFFICES ASSUME O!Supuestos, Tipos, Volteos, [O!Next]_(O!vars) PROVE Volteos'
  OBVIOUS
<1>1. ASSUME NEW e \in Envios, O!Envia(e) PROVE Volteos'
  <2>1. \A n \in oAnuladores : oPc'[n] = oPc[n] /\ oLeido'[n] = oLeido[n]
    BY <1>1, SoloEnvia, SonActores, Clases DEF Solo
  <2>2. \A u \in Ventas : venta'[u] = venta[u] \/ venta[u].estado = "no"
    <3>1. CASE UNCHANGED venta
      BY <3>1
    <3>2. CASE Nace(e, VentaDe[e])
      BY <3>2 DEF Nace, Tipos, TiposVentas
    <3> QED
      BY <1>1, <3>1, <3>2, VentaEnvia
  <2> QED
    BY <2>1, <2>2, VolteosQuietos
<1>2. ASSUME NEW g \in Regularizadores, O!Regulariza(g) PROVE Volteos'
  <2>1. \A n \in oAnuladores : oPc'[n] = oPc[n] /\ oLeido'[n] = oLeido[n]
    BY <1>2, SoloRegulariza, SonActores, Clases DEF Solo
  <2>2. \A u \in Ventas : venta'[u].salio = venta[u].salio /\ venta'[u].estado = venta[u].estado
    BY <1>2, VentaRegulariza DEF Aparte, Quieta
  <2> QED
    BY <2>1, <2>2, VolteosQuietos
<1>3. ASSUME NEW n \in oAnuladores, O!Anula(n) PROVE Volteos'
  BY <1>3, VolteosAnula
<1>4. ASSUME NEW a \in O!Actores, O!Corte(a) PROVE Volteos'
  <2>1. UNCHANGED <<venta, oLeido>> /\ Solo(a) /\ oPc'[a] = "muerto"
    BY <1>4, SoloCorte DEF O!Corte
  <2>3. \A n \in oAnuladores : Volteo(n)' => Volteo(n)
    BY <2>1, SonActores DEF Volteo, Solo
  <2>4. \A n \in oAnuladores : SuVolteo(n)'
    <3>1. oPc[a] \in O!Pasos
      BY <1>4, SoloCorte DEF O!Supuestos
    <3>2. oPc[a] # "libre"
      BY <3>1 DEF O!Pasos
    <3> QED
      BY <2>1, <2>3, <3>2, SonActores DEF SuVolteo, Solo, Volteos
  <2> QED
    BY <2>3, <2>4 DEF Volteos
<1>5. ASSUME UNCHANGED <<oPc, oLeido, venta>> PROVE Volteos'
  BY <1>5 DEF Volteos, SuVolteo, Volteo
<1> QED
  BY <1>1, <1>2, <1>3, <1>4, <1>5 DEF O!Next, O!Turno, O!Comprar, O!Reservar, O!Cobrar, O!vars

-----------------------------------------------------------------------------
(* The sum *)

LEMMA SumaDeUna ==
    ASSUME O!Supuestos, Tipos, Tipos', NEW u \in Ventas, Aparte(u)
    PROVE  /\ SumFunctionOnSet(De, Ventas)' = SumFunctionOnSet(De, Ventas) - De[u] + De'[u]
           /\ SumFunctionOnSet(De, Ventas) \in Int /\ De[u] \in Int /\ De'[u] \in Int
<1>1. IsFiniteSet(Ventas)
  BY MismasFinitas DEF O!Supuestos
<1>2. \A w \in Ventas : De[w] \in Int /\ De'[w] \in Int
  BY DEF Tipos, TiposVentas, Registros, De
<1>3. \A w \in Ventas \ {u} : De'[w] = De[w]
  BY DEF Aparte, De
<1>4. SumFunctionOnSet(De', Ventas) = SumFunctionOnSet(De, Ventas) - De[u] + De'[u]
  BY <1>1, <1>2, <1>3, SumaCambia
<1>5. SumFunctionOnSet(De, Ventas) \in Int
  BY <1>1, <1>2, SumaEntera
<1> QED
  BY <1>2, <1>4, <1>5

LEMMA SumaEnCamino ==
    ASSUME O!Supuestos, Tipos, Tipos', NEW e \in Envios, Solo(e)
    PROVE  /\ SumFunctionOnSet(EnCamino, Envios)'
                = SumFunctionOnSet(EnCamino, Envios) - oLeido[e].sacado + oLeido'[e].sacado
           /\ SumFunctionOnSet(EnCamino, Envios) \in Int
<1>1. IsFiniteSet(Envios)
  BY MismasFinitas DEF O!Supuestos
<1>2. \A w \in Envios : EnCamino[w] \in Int /\ EnCamino'[w] \in Int
  BY SonActores DEF Tipos, TiposActores, Leidos, EnCamino
<1>3. \A w \in Envios \ {e} : EnCamino'[w] = EnCamino[w]
  BY SonActores DEF Solo, EnCamino
<1>4. SumFunctionOnSet(EnCamino', Envios) = SumFunctionOnSet(EnCamino, Envios) - EnCamino[e] + EnCamino'[e]
  BY <1>1, <1>2, <1>3, SumaCambia
<1>5. SumFunctionOnSet(EnCamino, Envios) \in Int
  BY <1>1, <1>2, SumaEntera
<1>6. EnCamino[e] = oLeido[e].sacado /\ EnCamino'[e] = oLeido'[e].sacado
  BY DEF EnCamino
<1> QED
  BY <1>4, <1>5, <1>6

LEMMA SumaDevuelto ==
    ASSUME O!Supuestos, Tipos, Tipos', NEW n \in oAnuladores, Solo(n)
    PROVE  /\ SumFunctionOnSet(Devuelto, oAnuladores)'
                = SumFunctionOnSet(Devuelto, oAnuladores) - oLeido[n].sacado + oLeido'[n].sacado
           /\ SumFunctionOnSet(Devuelto, oAnuladores) \in Int
<1>1. IsFiniteSet(oAnuladores)
  BY MismasFinitas DEF O!Supuestos
<1>2. \A w \in oAnuladores : Devuelto[w] \in Int /\ Devuelto'[w] \in Int
  BY SonActores DEF Tipos, TiposActores, Leidos, Devuelto
<1>3. \A w \in oAnuladores \ {n} : Devuelto'[w] = Devuelto[w]
  BY SonActores DEF Solo, Devuelto
<1>4. SumFunctionOnSet(Devuelto', oAnuladores)
        = SumFunctionOnSet(Devuelto, oAnuladores) - Devuelto[n] + Devuelto'[n]
  BY <1>1, <1>2, <1>3, SumaCambia
<1>5. SumFunctionOnSet(Devuelto, oAnuladores) \in Int
  BY <1>1, <1>2, SumaEntera
<1>6. Devuelto[n] = oLeido[n].sacado /\ Devuelto'[n] = oLeido'[n].sacado
  BY DEF Devuelto
<1> QED
  BY <1>4, <1>5, <1>6

LEMMA SumasQuietas ==
    /\ UNCHANGED <<venta, salida>> => UNCHANGED De
    /\ (\A e \in Envios : oLeido'[e] = oLeido[e]) => UNCHANGED EnCamino
    /\ (\A n \in oAnuladores : oLeido'[n] = oLeido[n]) => UNCHANGED Devuelto
BY DEF De, EnCamino, Devuelto

LEMMA SumasEnteras ==
    ASSUME O!Supuestos, Tipos
    PROVE  /\ SumFunctionOnSet(De, Ventas) \in Int /\ SumFunctionOnSet(EnCamino, Envios) \in Int
           /\ SumFunctionOnSet(Devuelto, oAnuladores) \in Int
           /\ existencias \in Int /\ compras \in Int /\ Existencias \in Int
<1>1. IsFiniteSet(Ventas) /\ IsFiniteSet(Envios) /\ IsFiniteSet(oAnuladores)
  BY MismasFinitas DEF O!Supuestos
<1>2. /\ \A w \in Ventas : De[w] \in Int
      /\ \A w \in Envios : EnCamino[w] \in Int
      /\ \A w \in oAnuladores : Devuelto[w] \in Int
  BY SonActores
  DEF Tipos, TiposActores, Leidos, TiposVentas, Registros, De, EnCamino, Devuelto
<1> QED
  BY <1>1, <1>2, SumaEntera DEF O!Supuestos, Tipos, TiposTerminal, TiposVentas

LEMMA SumaEnvia ==
    ASSUME O!Supuestos, Tipos, Tipos', Envio, Completa, NEW e \in Envios, O!Envia(e)
    PROVE  /\ existencias' + De'[VentaDe[e]] + oLeido'[e].sacado
                = existencias + De[VentaDe[e]] + oLeido[e].sacado
           /\ Aparte(VentaDe[e]) /\ UNCHANGED <<compras, salida>>
<1>1. VentaDe[e] \in Ventas /\ e \in O!Actores
  BY SonActores, DeVenta
<1>2. /\ oLeido[e].sacado \in Nat /\ oLeido[e].salio \in Nat /\ existencias \in Nat
      /\ De[VentaDe[e]] \in Int /\ salida[VentaDe[e]] \in Int
      /\ oLeido'[e].sacado \in Nat /\ existencias' \in Nat
  <2>1. oLeido'[e].sacado \in Nat /\ existencias' \in Nat
    BY <1>1 DEF Tipos, TiposActores, TiposVentas, Leidos
  <2>2. De[VentaDe[e]] \in Int
    BY <1>1, CamposVenta DEF De
  <2> QED
    BY <1>1, <2>1, <2>2, CamposLeido, CamposVenta
<1>3. /\ oPc[e] = "insertar" => oLeido[e].sacado = oLeido[e].salio
      /\ venta[VentaDe[e]].estado = "no" => venta[VentaDe[e]].salio = 0
  BY <1>1 DEF Envio, EnEnvio, Completa
<1>4. ASSUME O!Enviar(e) PROVE /\ existencias' + De'[VentaDe[e]] + oLeido'[e].sacado
                  = existencias + De[VentaDe[e]] + oLeido[e].sacado
             /\ Aparte(VentaDe[e]) /\ UNCHANGED <<compras, salida>>
  <2>1. UNCHANGED <<venta, salida, compras>>
    BY <1>4 DEF O!actores, O!Enviar
  <2>2. De'[VentaDe[e]] = De[VentaDe[e]] /\ Aparte(VentaDe[e])
    BY <2>1 DEF De, Aparte
  <2>3. existencias' + oLeido'[e].sacado = existencias + oLeido[e].sacado
    <3>1. oLeido' = oLeido \/ (\E v : O!Lleva(e, "pide", v))
      BY <1>4 DEF O!Enviar
    <3>2. oLeido'[e].sacado = oLeido[e].sacado
      BY <1>1, <3>1 DEF Tipos, TiposActores, Leidos, O!Lleva
    <3> QED
      BY <1>2, <1>4, <3>2 DEF O!Enviar
  <2> DEFINE e1 == existencias'
             t1 == oLeido'[e].sacado
             x == De[VentaDe[e]]
             y == De'[VentaDe[e]]
  <2>4. e1 + y + t1 = existencias + x + oLeido[e].sacado
    <3>1. e1 \in Int /\ t1 \in Int /\ x \in Int /\ y = x /\ e1 + t1 = existencias + oLeido[e].sacado
      BY <1>2, <2>2, <2>3
    <3> HIDE DEF e1, t1, x, y
    <3> QED
      BY <1>2, <3>1
  <2> QED
    BY <2>1, <2>2, <2>4
<1>5. ASSUME O!MirarVenta(e) PROVE /\ existencias' + De'[VentaDe[e]] + oLeido'[e].sacado
                  = existencias + De[VentaDe[e]] + oLeido[e].sacado
             /\ Aparte(VentaDe[e]) /\ UNCHANGED <<compras, salida>>
  <2>1. UNCHANGED <<venta, salida, compras>>
    BY <1>5 DEF O!actores, O!MirarVenta
  <2>2. De'[VentaDe[e]] = De[VentaDe[e]] /\ Aparte(VentaDe[e])
    BY <2>1 DEF De, Aparte
  <2>3. existencias' + oLeido'[e].sacado = existencias + oLeido[e].sacado
    BY <1>1, <1>2, <1>5 DEF Tipos, TiposActores, Leidos, O!Lleva, O!Conflicto, O!MirarVenta
  <2> DEFINE e1 == existencias'
             t1 == oLeido'[e].sacado
             x == De[VentaDe[e]]
             y == De'[VentaDe[e]]
  <2>4. e1 + y + t1 = existencias + x + oLeido[e].sacado
    <3>1. e1 \in Int /\ t1 \in Int /\ x \in Int /\ y = x /\ e1 + t1 = existencias + oLeido[e].sacado
      BY <1>2, <2>2, <2>3
    <3> HIDE DEF e1, t1, x, y
    <3> QED
      BY <1>2, <3>1
  <2> QED
    BY <2>1, <2>2, <2>4
<1>6. ASSUME O!MirarCandado(e) PROVE /\ existencias' + De'[VentaDe[e]] + oLeido'[e].sacado
                  = existencias + De[VentaDe[e]] + oLeido[e].sacado
             /\ Aparte(VentaDe[e]) /\ UNCHANGED <<compras, salida>>
  <2>1. UNCHANGED <<venta, salida, compras>>
    BY <1>6 DEF O!actores, O!MirarCandado
  <2>2. De'[VentaDe[e]] = De[VentaDe[e]] /\ Aparte(VentaDe[e])
    BY <2>1 DEF De, Aparte
  <2>3. existencias' + oLeido'[e].sacado = existencias + oLeido[e].sacado
    BY <1>1, <1>2, <1>6 DEF Tipos, TiposActores, Leidos, O!Lleva, O!Conflicto, O!MirarCandado
  <2> DEFINE e1 == existencias'
             t1 == oLeido'[e].sacado
             x == De[VentaDe[e]]
             y == De'[VentaDe[e]]
  <2>4. e1 + y + t1 = existencias + x + oLeido[e].sacado
    <3>1. e1 \in Int /\ t1 \in Int /\ x \in Int /\ y = x /\ e1 + t1 = existencias + oLeido[e].sacado
      BY <1>2, <2>2, <2>3
    <3> HIDE DEF e1, t1, x, y
    <3> QED
      BY <1>2, <3>1
  <2> QED
    BY <2>1, <2>2, <2>4
<1>7. ASSUME O!Liberar(e) PROVE /\ existencias' + De'[VentaDe[e]] + oLeido'[e].sacado
                  = existencias + De[VentaDe[e]] + oLeido[e].sacado
             /\ Aparte(VentaDe[e]) /\ UNCHANGED <<compras, salida>>
  <2>1. UNCHANGED <<venta, salida, compras>>
    BY <1>7 DEF O!actores, O!Liberar
  <2>2. De'[VentaDe[e]] = De[VentaDe[e]] /\ Aparte(VentaDe[e])
    BY <2>1 DEF De, Aparte
  <2>3. existencias' + oLeido'[e].sacado = existencias + oLeido[e].sacado
    BY <1>1, <1>2, <1>7 DEF Tipos, TiposActores, Leidos, O!Lleva, O!Conflicto, O!Liberar
  <2> DEFINE e1 == existencias'
             t1 == oLeido'[e].sacado
             x == De[VentaDe[e]]
             y == De'[VentaDe[e]]
  <2>4. e1 + y + t1 = existencias + x + oLeido[e].sacado
    <3>1. e1 \in Int /\ t1 \in Int /\ x \in Int /\ y = x /\ e1 + t1 = existencias + oLeido[e].sacado
      BY <1>2, <2>2, <2>3
    <3> HIDE DEF e1, t1, x, y
    <3> QED
      BY <1>2, <3>1
  <2> QED
    BY <2>1, <2>2, <2>4
<1>8. ASSUME O!ElegirTurno(e) PROVE /\ existencias' + De'[VentaDe[e]] + oLeido'[e].sacado
                  = existencias + De[VentaDe[e]] + oLeido[e].sacado
             /\ Aparte(VentaDe[e]) /\ UNCHANGED <<compras, salida>>
  <2>1. UNCHANGED <<venta, salida, compras>>
    BY <1>8 DEF O!actores, O!ElegirTurno
  <2>2. De'[VentaDe[e]] = De[VentaDe[e]] /\ Aparte(VentaDe[e])
    BY <2>1 DEF De, Aparte
  <2>3. existencias' + oLeido'[e].sacado = existencias + oLeido[e].sacado
    BY <1>1, <1>2, <1>8 DEF Tipos, TiposActores, Leidos, O!Lleva, O!Conflicto, O!ElegirTurno
  <2> DEFINE e1 == existencias'
             t1 == oLeido'[e].sacado
             x == De[VentaDe[e]]
             y == De'[VentaDe[e]]
  <2>4. e1 + y + t1 = existencias + x + oLeido[e].sacado
    <3>1. e1 \in Int /\ t1 \in Int /\ x \in Int /\ y = x /\ e1 + t1 = existencias + oLeido[e].sacado
      BY <1>2, <2>2, <2>3
    <3> HIDE DEF e1, t1, x, y
    <3> QED
      BY <1>2, <3>1
  <2> QED
    BY <2>1, <2>2, <2>4
<1>9. ASSUME O!Tomar(e) PROVE /\ existencias' + De'[VentaDe[e]] + oLeido'[e].sacado
                  = existencias + De[VentaDe[e]] + oLeido[e].sacado
             /\ Aparte(VentaDe[e]) /\ UNCHANGED <<compras, salida>>
  <2>1. UNCHANGED <<venta, salida, compras>>
    BY <1>9 DEF O!actores, O!Tomar
  <2>2. De'[VentaDe[e]] = De[VentaDe[e]] /\ Aparte(VentaDe[e])
    BY <2>1 DEF De, Aparte
  <2>3. existencias' + oLeido'[e].sacado = existencias + oLeido[e].sacado
    BY <1>1, <1>2, <1>9 DEF Tipos, TiposActores, Leidos, O!Lleva, O!Conflicto, O!Tomar
  <2> DEFINE e1 == existencias'
             t1 == oLeido'[e].sacado
             x == De[VentaDe[e]]
             y == De'[VentaDe[e]]
  <2>4. e1 + y + t1 = existencias + x + oLeido[e].sacado
    <3>1. e1 \in Int /\ t1 \in Int /\ x \in Int /\ y = x /\ e1 + t1 = existencias + oLeido[e].sacado
      BY <1>2, <2>2, <2>3
    <3> HIDE DEF e1, t1, x, y
    <3> QED
      BY <1>2, <3>1
  <2> QED
    BY <2>1, <2>2, <2>4
<1>10. ASSUME O!Revisar(e) PROVE /\ existencias' + De'[VentaDe[e]] + oLeido'[e].sacado
                  = existencias + De[VentaDe[e]] + oLeido[e].sacado
             /\ Aparte(VentaDe[e]) /\ UNCHANGED <<compras, salida>>
  <2>1. UNCHANGED <<venta, salida, compras>>
    BY <1>10 DEF O!actores, O!Revisar
  <2>2. De'[VentaDe[e]] = De[VentaDe[e]] /\ Aparte(VentaDe[e])
    BY <2>1 DEF De, Aparte
  <2>3. existencias' + oLeido'[e].sacado = existencias + oLeido[e].sacado
    BY <1>1, <1>2, <1>10 DEF Tipos, TiposActores, Leidos, O!Lleva, O!Conflicto, O!Revisar
  <2> DEFINE e1 == existencias'
             t1 == oLeido'[e].sacado
             x == De[VentaDe[e]]
             y == De'[VentaDe[e]]
  <2>4. e1 + y + t1 = existencias + x + oLeido[e].sacado
    <3>1. e1 \in Int /\ t1 \in Int /\ x \in Int /\ y = x /\ e1 + t1 = existencias + oLeido[e].sacado
      BY <1>2, <2>2, <2>3
    <3> HIDE DEF e1, t1, x, y
    <3> QED
      BY <1>2, <3>1
  <2> QED
    BY <2>1, <2>2, <2>4
<1>11. ASSUME O!Sacar(e) PROVE /\ existencias' + De'[VentaDe[e]] + oLeido'[e].sacado
                  = existencias + De[VentaDe[e]] + oLeido[e].sacado
             /\ Aparte(VentaDe[e]) /\ UNCHANGED <<compras, salida>>
  <2>1. UNCHANGED <<venta, salida, compras>>
    BY <1>11 DEF O!actores, O!Sacar
  <2>2. De'[VentaDe[e]] = De[VentaDe[e]] /\ Aparte(VentaDe[e])
    BY <2>1 DEF De, Aparte
  <2>3. existencias' + oLeido'[e].sacado = existencias + oLeido[e].sacado
    <3>1. \/ oLeido'[e].sacado = oLeido[e].salio /\ existencias' = existencias - oLeido[e].salio
          \/ oLeido'[e].sacado = oLeido[e].sacado /\ existencias' = existencias
      <4>1. CASE existencias' = existencias - oLeido[e].salio /\ O!Lleva(e, "sacado", oLeido[e].salio)
        <5>1. oLeido'[e].sacado = oLeido[e].salio
          <6> DEFINE s == oLeido[e].salio
          <6>1. oLeido' = [oLeido EXCEPT ![e]["sacado"] = s]
            BY <4>1 DEF O!Lleva
          <6> HIDE DEF s
          <6>2. oLeido'[e].sacado = s
            BY <1>1, <6>1 DEF Tipos, TiposActores, Leidos
          <6> QED
            BY <6>2 DEF s
        <5> QED
          BY <4>1, <5>1
      <4>2. CASE existencias' = existencias /\ O!Lleva(e, "motivo", "RECHAZADA")
        BY <1>1, <4>2 DEF Tipos, TiposActores, Leidos, O!Lleva
      <4> QED
        BY <1>11, <4>1, <4>2 DEF O!Sacar, O!Conflicto
    <3>2. oLeido[e].sacado = 0
      BY <1>2, <1>11 DEF Envio, EnEnvio, O!Sacar
    <3> QED
      BY <1>2, <3>1, <3>2
  <2> DEFINE e1 == existencias'
             t1 == oLeido'[e].sacado
             x == De[VentaDe[e]]
             y == De'[VentaDe[e]]
  <2>4. e1 + y + t1 = existencias + x + oLeido[e].sacado
    <3>1. e1 \in Int /\ t1 \in Int /\ x \in Int /\ y = x /\ e1 + t1 = existencias + oLeido[e].sacado
      BY <1>2, <2>2, <2>3
    <3> HIDE DEF e1, t1, x, y
    <3> QED
      BY <1>2, <3>1
  <2> QED
    BY <2>1, <2>2, <2>4
<1>12. ASSUME O!Insertar(e) PROVE /\ existencias' + De'[VentaDe[e]] + oLeido'[e].sacado
                  = existencias + De[VentaDe[e]] + oLeido[e].sacado
             /\ Aparte(VentaDe[e]) /\ UNCHANGED <<compras, salida>>
  <2>1. Nace(e, VentaDe[e]) \/ UNCHANGED <<venta, oLeido, salida, compras, existencias>>
    BY <1>12, InsertarHace
  <2>2. CASE UNCHANGED <<venta, oLeido, salida, compras, existencias>>
    BY <1>2, <2>2 DEF De, Aparte
  <2>3. CASE Nace(e, VentaDe[e])
    <3>1. /\ venta'[VentaDe[e]].estado = "completed" /\ venta'[VentaDe[e]].salio = oLeido[e].salio
          /\ \A w \in Ventas \ {VentaDe[e]} : venta'[w] = venta[w]
      BY <1>1, <2>3 DEF Nace, Tipos, TiposVentas
    <3>2. oLeido'[e].sacado = 0
      BY <1>1, <2>3 DEF Nace, Tipos, TiposActores, Leidos
    <3>3. De'[VentaDe[e]] = oLeido[e].salio + salida[VentaDe[e]] /\ De[VentaDe[e]] = salida[VentaDe[e]]
      BY <1>1, <1>2, <2>3, <3>1 DEF Nace, De
    <3>4. existencias' = existencias /\ oLeido[e].sacado = oLeido[e].salio /\ UNCHANGED <<compras, salida>>
      BY <1>3, <2>3 DEF Nace
    <3>5. Aparte(VentaDe[e])
      BY <3>1, <3>4 DEF Aparte
    <3> DEFINE x == De[VentaDe[e]]
               y == De'[VentaDe[e]]
               t1 == oLeido'[e].sacado
    <3>6. existencias + y + t1 = existencias + x + oLeido[e].sacado
      <4>1. t1 = 0 /\ y = oLeido[e].salio + salida[VentaDe[e]] /\ x = salida[VentaDe[e]]
        BY <3>2, <3>3
      <4> HIDE DEF x, y, t1
      <4> QED
        BY <1>2, <3>4, <4>1
    <3> QED
      BY <3>4, <3>5, <3>6
  <2> QED
    BY <2>1, <2>2, <2>3
<1>13. ASSUME O!Devolver(e) PROVE /\ existencias' + De'[VentaDe[e]] + oLeido'[e].sacado
                  = existencias + De[VentaDe[e]] + oLeido[e].sacado
             /\ Aparte(VentaDe[e]) /\ UNCHANGED <<compras, salida>>
  <2>1. UNCHANGED <<venta, salida, compras>>
    BY <1>13 DEF O!actores, O!Devolver
  <2>2. De'[VentaDe[e]] = De[VentaDe[e]] /\ Aparte(VentaDe[e])
    BY <2>1 DEF De, Aparte
  <2>3. existencias' + oLeido'[e].sacado = existencias + oLeido[e].sacado
    BY <1>1, <1>2, <1>13 DEF Tipos, TiposActores, Leidos, O!Lleva, O!Conflicto, O!Devolver
  <2> DEFINE e1 == existencias'
             t1 == oLeido'[e].sacado
             x == De[VentaDe[e]]
             y == De'[VentaDe[e]]
  <2>4. e1 + y + t1 = existencias + x + oLeido[e].sacado
    <3>1. e1 \in Int /\ t1 \in Int /\ x \in Int /\ y = x /\ e1 + t1 = existencias + oLeido[e].sacado
      BY <1>2, <2>2, <2>3
    <3> HIDE DEF e1, t1, x, y
    <3> QED
      BY <1>2, <3>1
  <2> QED
    BY <2>1, <2>2, <2>4
<1>14. ASSUME O!Soltar(e) PROVE /\ existencias' + De'[VentaDe[e]] + oLeido'[e].sacado
                  = existencias + De[VentaDe[e]] + oLeido[e].sacado
             /\ Aparte(VentaDe[e]) /\ UNCHANGED <<compras, salida>>
  <2>1. UNCHANGED <<venta, salida, compras>>
    BY <1>14 DEF O!actores, O!Soltar
  <2>2. De'[VentaDe[e]] = De[VentaDe[e]] /\ Aparte(VentaDe[e])
    BY <2>1 DEF De, Aparte
  <2>3. existencias' + oLeido'[e].sacado = existencias + oLeido[e].sacado
    BY <1>1, <1>2, <1>14 DEF Tipos, TiposActores, Leidos, O!Lleva, O!Conflicto, O!Soltar
  <2> DEFINE e1 == existencias'
             t1 == oLeido'[e].sacado
             x == De[VentaDe[e]]
             y == De'[VentaDe[e]]
  <2>4. e1 + y + t1 = existencias + x + oLeido[e].sacado
    <3>1. e1 \in Int /\ t1 \in Int /\ x \in Int /\ y = x /\ e1 + t1 = existencias + oLeido[e].sacado
      BY <1>2, <2>2, <2>3
    <3> HIDE DEF e1, t1, x, y
    <3> QED
      BY <1>2, <3>1
  <2> QED
    BY <2>1, <2>2, <2>4
<1>15. ASSUME O!Guardar(e) PROVE /\ existencias' + De'[VentaDe[e]] + oLeido'[e].sacado
                  = existencias + De[VentaDe[e]] + oLeido[e].sacado
             /\ Aparte(VentaDe[e]) /\ UNCHANGED <<compras, salida>>
  <2>1. UNCHANGED <<venta, salida, compras>>
    BY <1>15 DEF O!actores, O!Guardar
  <2>2. De'[VentaDe[e]] = De[VentaDe[e]] /\ Aparte(VentaDe[e])
    BY <2>1 DEF De, Aparte
  <2>3. existencias' + oLeido'[e].sacado = existencias + oLeido[e].sacado
    BY <1>1, <1>2, <1>15 DEF Tipos, TiposActores, Leidos, O!Lleva, O!Conflicto, O!Guardar
  <2> DEFINE e1 == existencias'
             t1 == oLeido'[e].sacado
             x == De[VentaDe[e]]
             y == De'[VentaDe[e]]
  <2>4. e1 + y + t1 = existencias + x + oLeido[e].sacado
    <3>1. e1 \in Int /\ t1 \in Int /\ x \in Int /\ y = x /\ e1 + t1 = existencias + oLeido[e].sacado
      BY <1>2, <2>2, <2>3
    <3> HIDE DEF e1, t1, x, y
    <3> QED
      BY <1>2, <3>1
  <2> QED
    BY <2>1, <2>2, <2>4
<1>16. ASSUME O!Marcar(e) PROVE /\ existencias' + De'[VentaDe[e]] + oLeido'[e].sacado
                  = existencias + De[VentaDe[e]] + oLeido[e].sacado
             /\ Aparte(VentaDe[e]) /\ UNCHANGED <<compras, salida>>
  <2>1. UNCHANGED <<venta, salida, compras>>
    BY <1>16 DEF O!actores, O!Marcar
  <2>2. De'[VentaDe[e]] = De[VentaDe[e]] /\ Aparte(VentaDe[e])
    BY <2>1 DEF De, Aparte
  <2>3. existencias' + oLeido'[e].sacado = existencias + oLeido[e].sacado
    BY <1>1, <1>2, <1>16 DEF Tipos, TiposActores, Leidos, O!Lleva, O!Conflicto, O!Marcar
  <2> DEFINE e1 == existencias'
             t1 == oLeido'[e].sacado
             x == De[VentaDe[e]]
             y == De'[VentaDe[e]]
  <2>4. e1 + y + t1 = existencias + x + oLeido[e].sacado
    <3>1. e1 \in Int /\ t1 \in Int /\ x \in Int /\ y = x /\ e1 + t1 = existencias + oLeido[e].sacado
      BY <1>2, <2>2, <2>3
    <3> HIDE DEF e1, t1, x, y
    <3> QED
      BY <1>2, <3>1
  <2> QED
    BY <2>1, <2>2, <2>4
<1>17. ASSUME O!Resolver(e) PROVE /\ existencias' + De'[VentaDe[e]] + oLeido'[e].sacado
                  = existencias + De[VentaDe[e]] + oLeido[e].sacado
             /\ Aparte(VentaDe[e]) /\ UNCHANGED <<compras, salida>>
  <2>1. UNCHANGED <<venta, salida, compras>>
    BY <1>17 DEF O!actores, O!Resolver
  <2>2. De'[VentaDe[e]] = De[VentaDe[e]] /\ Aparte(VentaDe[e])
    BY <2>1 DEF De, Aparte
  <2>3. existencias' + oLeido'[e].sacado = existencias + oLeido[e].sacado
    BY <1>1, <1>2, <1>17 DEF Tipos, TiposActores, Leidos, O!Lleva, O!Conflicto, O!Resolver
  <2> DEFINE e1 == existencias'
             t1 == oLeido'[e].sacado
             x == De[VentaDe[e]]
             y == De'[VentaDe[e]]
  <2>4. e1 + y + t1 = existencias + x + oLeido[e].sacado
    <3>1. e1 \in Int /\ t1 \in Int /\ x \in Int /\ y = x /\ e1 + t1 = existencias + oLeido[e].sacado
      BY <1>2, <2>2, <2>3
    <3> HIDE DEF e1, t1, x, y
    <3> QED
      BY <1>2, <3>1
  <2> QED
    BY <2>1, <2>2, <2>4
<1> QED
  BY <1>4, <1>5, <1>6, <1>7, <1>8, <1>9, <1>10, <1>11, <1>12, <1>13, <1>14, <1>15, <1>16,
     <1>17
  DEF O!Envia

LEMMA SumaRegulariza ==
    ASSUME O!Supuestos, Tipos, Completa, NEW g \in Regularizadores, O!Regulariza(g)
    PROVE  existencias' + De'[VentaDe[g]] = existencias + De[VentaDe[g]] /\ UNCHANGED compras
<1>1. VentaDe[g] \in Ventas
  BY SonActores, DeVenta
<1>2. /\ existencias \in Nat /\ salida[VentaDe[g]] \in Nat /\ venta[VentaDe[g]].salio \in Nat
      /\ venta[VentaDe[g]].falta \in Nat
  BY <1>1, CamposVenta
<1>3. Quieta(VentaDe[g]) /\ venta'[VentaDe[g]].estado = venta[VentaDe[g]].estado
  BY VentaRegulariza
<1>4. ASSUME O!Regularizar(g)
      PROVE  existencias' + De'[VentaDe[g]] = existencias + De[VentaDe[g]] /\ UNCHANGED compras
  BY <1>1, <1>2, <1>3, <1>4 DEF De, Tipos, TiposVentas, Quieta, O!actores, O!Regularizar
<1>5. ASSUME O!Cerrojo(g)
      PROVE  existencias' + De'[VentaDe[g]] = existencias + De[VentaDe[g]] /\ UNCHANGED compras
  BY <1>1, <1>2, <1>3, <1>5 DEF De, Tipos, TiposVentas, Quieta, O!actores, O!Cerrojo
<1>6. ASSUME O!MarcarC(g)
      PROVE  existencias' + De'[VentaDe[g]] = existencias + De[VentaDe[g]] /\ UNCHANGED compras
  BY <1>1, <1>2, <1>3, <1>6 DEF De, Tipos, TiposVentas, Quieta, O!actores, O!MarcarC
<1>7. ASSUME O!Consumir(g)
      PROVE  existencias' + De'[VentaDe[g]] = existencias + De[VentaDe[g]] /\ UNCHANGED compras
  BY <1>1, <1>2, <1>3, <1>7 DEF De, Tipos, TiposVentas, Quieta, O!actores, O!Consumir
<1>8. ASSUME O!Volver(g)
      PROVE  existencias' + De'[VentaDe[g]] = existencias + De[VentaDe[g]] /\ UNCHANGED compras
  BY <1>1, <1>2, <1>3, <1>8 DEF De, Tipos, TiposVentas, Quieta, O!actores, O!Volver
<1>9. ASSUME O!MarcarA(g)
      PROVE  existencias' + De'[VentaDe[g]] = existencias + De[VentaDe[g]] /\ UNCHANGED compras
  BY <1>1, <1>2, <1>3, <1>9 DEF De, Tipos, TiposVentas, Quieta, O!actores, O!MarcarA
<1>10. ASSUME O!Asentar(g)
       PROVE  existencias' + De'[VentaDe[g]] = existencias + De[VentaDe[g]] /\ UNCHANGED compras
  BY <1>1, <1>2, <1>3, <1>10 DEF De, Tipos, TiposVentas, Quieta, O!actores, O!Asentar
<1>11. ASSUME O!MarcarR(g)
       PROVE  existencias' + De'[VentaDe[g]] = existencias + De[VentaDe[g]] /\ UNCHANGED compras
  BY <1>1, <1>2, <1>3, <1>11 DEF De, Tipos, TiposVentas, Quieta, O!actores, O!MarcarR
<1>12. ASSUME O!AbrirCerrojo(g)
       PROVE  existencias' + De'[VentaDe[g]] = existencias + De[VentaDe[g]] /\ UNCHANGED compras
  BY <1>1, <1>2, <1>3, <1>12 DEF De, Tipos, TiposVentas, Quieta, O!actores, O!AbrirCerrojo
<1> QED
  BY <1>4, <1>5, <1>6, <1>7, <1>8, <1>9, <1>10, <1>11, <1>12 DEF O!Regulariza

LEMMA SumaAnula ==
    ASSUME O!Supuestos, Tipos, Volteos, NEW n \in oAnuladores, O!Anula(n)
    PROVE  existencias' - oLeido'[n].sacado = existencias - oLeido[n].sacado /\ UNCHANGED compras
<1>1. VentaDe[n] \in Ventas /\ n \in O!Actores /\ SuVolteo(n)
  BY SonActores, DeVenta DEF Volteos
<1>2. existencias \in Nat /\ oLeido[n].sacado \in Nat /\ venta[VentaDe[n]].salio \in Nat
  BY <1>1, CamposVenta, CamposLeido
<1>3. ASSUME O!Anular(n)
      PROVE  existencias' - oLeido'[n].sacado = existencias - oLeido[n].sacado /\ UNCHANGED compras
  BY <1>1, <1>2, <1>3 DEF Tipos, TiposActores, Leidos, SuVolteo, O!Lleva, O!actores, O!Anular
<1>4. ASSUME O!Voltear(n)
      PROVE  existencias' - oLeido'[n].sacado = existencias - oLeido[n].sacado /\ UNCHANGED compras
  BY <1>1, <1>2, <1>4 DEF Tipos, TiposActores, Leidos, SuVolteo, O!Lleva, O!actores, O!Voltear
<1>5. ASSUME O!Reversar(n)
      PROVE  existencias' - oLeido'[n].sacado = existencias - oLeido[n].sacado /\ UNCHANGED compras
  BY <1>1, <1>2, <1>5
  DEF Tipos, TiposActores, Leidos, SuVolteo, O!Lleva, O!actores, O!Reversar
<1>6. ASSUME O!Deshacer(n)
      PROVE  existencias' - oLeido'[n].sacado = existencias - oLeido[n].sacado /\ UNCHANGED compras
  BY <1>1, <1>2, <1>6
  DEF Tipos, TiposActores, Leidos, SuVolteo, O!Lleva, O!actores, O!Deshacer
<1>7. ASSUME O!AnularFaltante(n)
      PROVE  existencias' - oLeido'[n].sacado = existencias - oLeido[n].sacado /\ UNCHANGED compras
  BY <1>1, <1>2, <1>7
  DEF Tipos, TiposActores, Leidos, SuVolteo, O!Lleva, O!actores, O!AnularFaltante
<1> QED
  BY <1>3, <1>4, <1>5, <1>6, <1>7 DEF O!Anula

LEMMA DeAnula ==
    ASSUME O!Supuestos, Tipos, Tipos', Volteos, Volteos', Completa, Completa', NEW n \in oAnuladores, O!Anula(n)
    PROVE  UNCHANGED De
<1>1. Aparte(VentaDe[n]) /\ Quieta(VentaDe[n]) /\ UNCHANGED salida
  BY VentaAnula
<1>2. \A u \in Ventas : venta'[u].salio = venta[u].salio /\ salida'[u] = salida[u]
  BY <1>1 DEF Aparte, Quieta
<1>3. \A u \in Ventas : De[u] = venta[u].salio + salida[u] /\ De'[u] = venta'[u].salio + salida'[u]
  <2>1. \A u \in Ventas :
          /\ venta[u].estado = "no" => venta[u].salio = 0
          /\ venta'[u].estado = "no" => venta'[u].salio = 0
    BY DEF Completa
  <2> QED
    BY <2>1 DEF De
<1> QED
  BY <1>2, <1>3 DEF De

LEMMA SumaSiempre ==
    ASSUME O!Supuestos, StockInv, Tipos', Volteos', Completa', [O!Next]_(O!vars)
    PROVE  Suma'
<1> DEFINE S == SumFunctionOnSet(De, Ventas)
           C == SumFunctionOnSet(EnCamino, Envios)
           D == SumFunctionOnSet(Devuelto, oAnuladores)
           S1 == SumFunctionOnSet(De, Ventas)'
           C1 == SumFunctionOnSet(EnCamino, Envios)'
           D1 == SumFunctionOnSet(Devuelto, oAnuladores)'
           e1 == existencias'
           k1 == compras'
<1>1. Tipos /\ Envio /\ Completa /\ Volteos
  BY DEF StockInv
<1>2. S \in Int /\ C \in Int /\ D \in Int /\ existencias \in Int /\ compras \in Int /\ Existencias \in Int
  BY <1>1, SumasEnteras
<1>3. existencias = Existencias + compras - S - C + D
  BY DEF StockInv, Suma
<1>4. e1 \in Int /\ k1 \in Int
  BY DEF Tipos, TiposVentas, TiposTerminal
<1>5. SUFFICES e1 = Existencias + k1 - S1 - C1 + D1
  BY DEF Suma
<1>6. ASSUME NEW e \in Envios, O!Envia(e)
      PROVE  e1 = Existencias + k1 - S1 - C1 + D1
  <2> DEFINE u == VentaDe[e]
             x == De[u]
             y == De'[u]
             s == oLeido[e].sacado
             t == oLeido'[e].sacado
  <2>1. u \in Ventas /\ Solo(e)
    BY <1>1, <1>6, SonActores, DeVenta, SoloEnvia
  <2>2. /\ e1 + y + t = existencias + x + s
        /\ Aparte(u) /\ k1 = compras
    BY <1>1, <1>6, SumaEnvia
  <2>3. S1 = S - x + y /\ x \in Int /\ y \in Int
    BY <1>1, <2>1, <2>2, SumaDeUna
  <2>4. C1 = C - s + t
    BY <1>1, <2>1, SumaEnCamino
  <2>5. s \in Int /\ t \in Int
    BY <1>1, SonActores DEF Tipos, TiposActores, Leidos
  <2>6. D1 = D
    BY <2>1, SonActores, Clases, SumasQuietas DEF Solo
  <2> HIDE DEF S, C, D, S1, C1, D1, e1, k1, x, y, s, t
  <2> QED
    BY <1>2, <1>3, <1>4, <2>2, <2>3, <2>4, <2>5, <2>6
<1>7. ASSUME NEW g \in Regularizadores, O!Regulariza(g)
      PROVE  e1 = Existencias + k1 - S1 - C1 + D1
  <2> DEFINE u == VentaDe[g]
             x == De[u]
             y == De'[u]
  <2>1. u \in Ventas /\ Solo(g) /\ Aparte(u)
    BY <1>1, <1>7, SonActores, DeVenta, SoloRegulariza, VentaRegulariza
  <2>2. e1 + y = existencias + x /\ k1 = compras
    BY <1>1, <1>7, SumaRegulariza
  <2>3. S1 = S - x + y /\ x \in Int /\ y \in Int
    BY <1>1, <2>1, SumaDeUna
  <2>4. C1 = C /\ D1 = D
    BY <2>1, SonActores, Clases, SumasQuietas DEF Solo
  <2> HIDE DEF S, C, D, S1, C1, D1, e1, k1, x, y
  <2> QED
    BY <1>2, <1>3, <1>4, <2>2, <2>3, <2>4
<1>8. ASSUME NEW n \in oAnuladores, O!Anula(n)
      PROVE  e1 = Existencias + k1 - S1 - C1 + D1
  <2> DEFINE s == oLeido[n].sacado
             t == oLeido'[n].sacado
  <2>1. Solo(n)
    BY <1>1, <1>8, SoloAnula
  <2>2. e1 - t = existencias - s /\ k1 = compras
    BY <1>1, <1>8, SumaAnula
  <2>3. S1 = S
    BY <1>1, <1>8, DeAnula
  <2>4. D1 = D - s + t
    BY <1>1, <2>1, SumaDevuelto
  <2>5. s \in Int /\ t \in Int
    BY <1>1, SonActores DEF Tipos, TiposActores, Leidos
  <2>6. C1 = C
    BY <2>1, SonActores, Clases, SumasQuietas DEF Solo
  <2> HIDE DEF S, C, D, S1, C1, D1, e1, k1, s, t
  <2> QED
    BY <1>2, <1>3, <1>4, <2>2, <2>3, <2>4, <2>5, <2>6
<1>9. ASSUME UNCHANGED <<venta, salida, oLeido>>,
             e1 - k1 = existencias - compras
      PROVE  e1 = Existencias + k1 - S1 - C1 + D1
  <2>1. S1 = S /\ C1 = C /\ D1 = D
    BY <1>9, SumasQuietas
  <2> HIDE DEF S, C, D, S1, C1, D1, e1, k1
  <2> QED
    BY <1>2, <1>3, <1>4, <1>9, <2>1
<1>10. ASSUME \/ O!Turno \/ O!Comprar \/ (\E t \in Terminales : O!Reservar(t))
              \/ (\E u \in Ventas : O!Cobrar(u)) \/ (\E a \in O!Actores : O!Corte(a)) \/ UNCHANGED O!vars
       PROVE  UNCHANGED <<venta, salida, oLeido>> /\ e1 - k1 = existencias - compras
  <2>1. ASSUME O!Comprar
        PROVE  UNCHANGED <<venta, salida, oLeido>> /\ e1 - k1 = existencias - compras
    BY <1>2, <2>1 DEF O!Comprar
  <2>2. ASSUME \/ O!Turno \/ (\E t \in Terminales : O!Reservar(t)) \/ (\E u \in Ventas : O!Cobrar(u))
               \/ (\E a \in O!Actores : O!Corte(a)) \/ UNCHANGED O!vars
        PROVE  UNCHANGED <<venta, salida, oLeido, existencias, compras>>
    BY <2>2 DEF O!Turno, O!Reservar, O!Cobrar, O!Corte, O!vars, O!actores
  <2> QED
    BY <1>10, <2>1, <2>2
<1> QED
  BY <1>6, <1>7, <1>8, <1>9, <1>10 DEF O!Next

LEMMA StockPaso == O!Supuestos /\ StockInv /\ [O!Next]_(O!vars) => StockInv'
BY TiposSiempreDeO, EnvioSiempre, CompletaSiempre, VolteosSiempre, SumaSiempre DEF StockInv

LEMMA StockAlEmpezar == O!Supuestos /\ O!Init => StockInv
<1> SUFFICES ASSUME O!Supuestos, O!Init PROVE StockInv
  OBVIOUS
<1>1. Tipos
  <2>1. O!SinLeer \in Leidos /\ O!SinVenta \in Registros
    BY DEF O!SinLeer, O!SinVenta, Leidos, Registros, O!Motivos, O!EstadosFaltante
  <2>2. TiposActores
    BY <2>1 DEF TiposActores, O!Init
  <2>3. TiposTerminal
    BY DEF TiposTerminal, O!Init, O!SinReserva, O!Supuestos
  <2>4. TiposVentas
    BY <2>1 DEF TiposVentas, O!Init, O!Supuestos
  <2> QED
    BY <2>2, <2>3, <2>4 DEF Tipos
<1>2. \A a \in O!Actores : oPc[a] = "libre" /\ oLeido[a].sacado = 0
  BY DEF O!Init, O!SinLeer
<1>3. \A u \in Ventas : venta[u].estado = "no" /\ venta[u].salio = 0 /\ venta[u].falta = 0 /\ salida[u] = 0
  BY DEF O!Init, O!SinVenta
<1>4. Envio /\ Completa
  BY <1>2, <1>3, SonActores DEF Envio, EnEnvio, Completa
<1>5. Volteos
  <2>1. \A n \in oAnuladores : ~Volteo(n)
    BY <1>2, SonActores DEF Volteo
  <2> QED
    BY <1>2, <2>1, SonActores DEF Volteos, SuVolteo
<1>6. Suma
  <2>1. SumFunctionOnSet(De, Ventas) = 0
    BY <1>3, SumaDeCeros, MismasFinitas DEF De, O!Supuestos
  <2>2. SumFunctionOnSet(EnCamino, Envios) = 0
    BY <1>2, SonActores, SumaDeCeros, MismasFinitas DEF EnCamino, O!Supuestos
  <2>3. SumFunctionOnSet(Devuelto, oAnuladores) = 0
    BY <1>2, SonActores, SumaDeCeros, MismasFinitas DEF Devuelto, O!Supuestos
  <2> QED
    BY <2>1, <2>2, <2>3 DEF Suma, O!Init, O!Supuestos
<1> QED
  BY <1>1, <1>4, <1>5, <1>6 DEF StockInv

LEMMA StockInvariante ==
    ASSUME O!Supuestos
    PROVE  O!Spec => []StockInv
<1>1. O!Init => StockInv
  BY StockAlEmpezar
<1>2. StockInv /\ [O!Next]_(O!vars) => StockInv'
  BY StockPaso
<1> QED
  BY <1>1, <1>2, PTL DEF O!Spec

\* A void gives back, at most once, what its sale took.
LEMMA DevuelveUnaVez ==
    ASSUME O!Supuestos, Tipos, Volteos, NEW u \in Ventas
    PROVE  SumFunctionOnSet(Devuelto, {n \in oAnuladores : VentaDe[n] = u}) <= venta[u].salio
<1> DEFINE S == {n \in oAnuladores : VentaDe[n] = u}
<1>1. IsFiniteSet(S)
  BY FS_Subset, MismasFinitas DEF O!Supuestos
<1>2. \A n \in S : Devuelto[n] \in Nat /\ Devuelto[n] = oLeido[n].sacado
  BY SonActores DEF Tipos, TiposActores, Leidos, Devuelto
<1>3. venta[u].salio \in Nat
  BY CamposVenta
<1>4. CASE \A n \in S : oLeido[n].sacado = 0
  <2>1. SumFunctionOnSet(Devuelto, S) = 0
    BY <1>1, <1>2, <1>4, SumaDeCeros
  <2> QED
    BY <1>3, <2>1
<1>5. CASE \E n \in S : oLeido[n].sacado # 0
  <2>1. PICK n \in S : oLeido[n].sacado # 0
    BY <1>5
  <2>2. oLeido[n].sacado = venta[u].salio /\ Volteo(n)
    <3>1. oLeido[n].sacado \in Nat
      BY <1>2
    <3> QED
      BY <2>1, <3>1 DEF Volteos, SuVolteo, Volteo
  <2>3. \A m \in S \ {n} : oLeido[m].sacado = 0
    <3> SUFFICES ASSUME NEW m \in S \ {n}, oLeido[m].sacado # 0 PROVE FALSE
      OBVIOUS
    <3>1. oLeido[m].sacado \in Nat
      BY <1>2
    <3>2. Volteo(m)
      BY <3>1 DEF Volteo
    <3> QED
      BY <2>2, <3>2 DEF Volteos
  <2>4. IsFiniteSet(S \ {n}) /\ \A m \in S \ {n} : Devuelto[m] = 0
    BY <1>1, <1>2, <2>3, FS_Subset
  <2>5. SumFunctionOnSet(Devuelto, S \ {n}) = 0
    BY <2>4, SumaDeCeros
  <2>6. SumFunctionOnSet(Devuelto, S) = Devuelto[n] + SumFunctionOnSet(Devuelto, S \ {n})
    <3>1. \A x \in S : Devuelto[x] \in Int
      BY <1>2
    <3> QED
      BY <1>1, <3>1, SumaQuita
  <2>7. Devuelto[n] = venta[u].salio
    BY <1>2, <2>2
  <2> QED
    BY <1>3, <2>5, <2>6, <2>7
<1> QED
  BY <1>4, <1>5

\* However often and slowly a sale charged without network is sent, authorised,
\* regularised and voided, and whatever fails or is cut, what is missing of the stock is
\* in a registered sale or with a request that did not answer.
THEOREM StockSiempreCuadra ==
    ASSUME O!Supuestos
    PROVE  O!Spec => []O!StockCuadra
<1>1. StockInv => O!StockCuadra
  <2> SUFFICES ASSUME StockInv PROVE O!StockCuadra
    OBVIOUS
  <2>1. Tipos /\ Envio /\ Completa /\ Volteos /\ Suma
    BY DEF StockInv
  <2>2. \A u \in Ventas : SumFunctionOnSet(Devuelto, {n \in oAnuladores : VentaDe[n] = u}) <= venta[u].salio
    BY <2>1, DevuelveUnaVez
  <2>3. \A e \in Envios : oLeido[e].sacado > 0 => oPc[e] \in {"insertar", "devolver", "muerto"}
    BY <2>1 DEF Envio, EnEnvio
  <2>4. \A u \in Ventas : venta[u].estado # "no" => venta[u].salio + venta[u].falta = Cuanto[u]
    BY <2>1 DEF Completa
  <2> QED
    BY <2>1, <2>2, <2>3, <2>4, MismasSumas DEF O!StockCuadra, Suma, De, EnCamino, Devuelto
<1> QED
  BY <1>1, StockInvariante, PTL

-----------------------------------------------------------------------------
(* The lock of the missing units *)

Trabaja == {"marcarC", "consumir", "volver", "marcarA", "asentar", "marcarR"}

LEMMA CerrojoHace ==
    ASSUME O!Supuestos, Tipos, Lentas \cap Regularizadores = {}, NEW g \in Regularizadores, O!Regulariza(g)
    PROVE  LET u == VentaDe[g] IN
           /\ \A w \in Ventas \ {u} : cerrojo'[w] = cerrojo[w]
           /\ \/ oPc'[g] \notin ConCerrojo /\ (oPc[g] \in ConCerrojo \/ UNCHANGED cerrojo)
              \/ oPc[g] \in ConCerrojo /\ UNCHANGED cerrojo
              \/ /\ oPc[g] = "cerrojo" /\ cerrojo'[u] = g
                 /\ cerrojo[u] = Nadie \/ oPc[cerrojo[u]] \in {"fin", "muerto"}
<1>1. VentaDe[g] \in Ventas /\ g \in O!Actores
  BY SonActores, DeVenta
<1>2. \/ cerrojo[VentaDe[g]] \in Regularizadores \ Lentas
      \/ cerrojo[VentaDe[g]] = Nadie
  BY <1>1 DEF Tipos, TiposVentas
<1>3. ASSUME O!Regularizar(g) PROVE LET u == VentaDe[g] IN
             /\ \A w \in Ventas \ {u} : cerrojo'[w] = cerrojo[w]
             /\ \/ oPc'[g] \notin ConCerrojo /\ (oPc[g] \in ConCerrojo \/ UNCHANGED cerrojo)
                \/ oPc[g] \in ConCerrojo /\ UNCHANGED cerrojo
                \/ /\ oPc[g] = "cerrojo" /\ cerrojo'[u] = g
                   /\ cerrojo[u] = Nadie \/ oPc[cerrojo[u]] \in {"fin", "muerto"}
  BY <1>1, <1>2, <1>3
  DEF Tipos, TiposActores, TiposVentas, O!Va, ConCerrojo, O!Vieja, O!Regularizar
<1>4. ASSUME O!Cerrojo(g) PROVE LET u == VentaDe[g] IN
             /\ \A w \in Ventas \ {u} : cerrojo'[w] = cerrojo[w]
             /\ \/ oPc'[g] \notin ConCerrojo /\ (oPc[g] \in ConCerrojo \/ UNCHANGED cerrojo)
                \/ oPc[g] \in ConCerrojo /\ UNCHANGED cerrojo
                \/ /\ oPc[g] = "cerrojo" /\ cerrojo'[u] = g
                   /\ cerrojo[u] = Nadie \/ oPc[cerrojo[u]] \in {"fin", "muerto"}
  BY <1>1, <1>2, <1>4
  DEF Tipos, TiposActores, TiposVentas, O!Va, ConCerrojo, O!Vieja, O!Cerrojo
<1>5. ASSUME O!MarcarC(g) PROVE LET u == VentaDe[g] IN
             /\ \A w \in Ventas \ {u} : cerrojo'[w] = cerrojo[w]
             /\ \/ oPc'[g] \notin ConCerrojo /\ (oPc[g] \in ConCerrojo \/ UNCHANGED cerrojo)
                \/ oPc[g] \in ConCerrojo /\ UNCHANGED cerrojo
                \/ /\ oPc[g] = "cerrojo" /\ cerrojo'[u] = g
                   /\ cerrojo[u] = Nadie \/ oPc[cerrojo[u]] \in {"fin", "muerto"}
  BY <1>1, <1>2, <1>5
  DEF Tipos, TiposActores, TiposVentas, O!Va, ConCerrojo, O!Vieja, O!MarcarC
<1>6. ASSUME O!Consumir(g) PROVE LET u == VentaDe[g] IN
             /\ \A w \in Ventas \ {u} : cerrojo'[w] = cerrojo[w]
             /\ \/ oPc'[g] \notin ConCerrojo /\ (oPc[g] \in ConCerrojo \/ UNCHANGED cerrojo)
                \/ oPc[g] \in ConCerrojo /\ UNCHANGED cerrojo
                \/ /\ oPc[g] = "cerrojo" /\ cerrojo'[u] = g
                   /\ cerrojo[u] = Nadie \/ oPc[cerrojo[u]] \in {"fin", "muerto"}
  BY <1>1, <1>2, <1>6
  DEF Tipos, TiposActores, TiposVentas, O!Va, ConCerrojo, O!Vieja, O!Consumir
<1>7. ASSUME O!Volver(g) PROVE LET u == VentaDe[g] IN
             /\ \A w \in Ventas \ {u} : cerrojo'[w] = cerrojo[w]
             /\ \/ oPc'[g] \notin ConCerrojo /\ (oPc[g] \in ConCerrojo \/ UNCHANGED cerrojo)
                \/ oPc[g] \in ConCerrojo /\ UNCHANGED cerrojo
                \/ /\ oPc[g] = "cerrojo" /\ cerrojo'[u] = g
                   /\ cerrojo[u] = Nadie \/ oPc[cerrojo[u]] \in {"fin", "muerto"}
  BY <1>1, <1>2, <1>7
  DEF Tipos, TiposActores, TiposVentas, O!Va, ConCerrojo, O!Vieja, O!Volver
<1>8. ASSUME O!MarcarA(g) PROVE LET u == VentaDe[g] IN
             /\ \A w \in Ventas \ {u} : cerrojo'[w] = cerrojo[w]
             /\ \/ oPc'[g] \notin ConCerrojo /\ (oPc[g] \in ConCerrojo \/ UNCHANGED cerrojo)
                \/ oPc[g] \in ConCerrojo /\ UNCHANGED cerrojo
                \/ /\ oPc[g] = "cerrojo" /\ cerrojo'[u] = g
                   /\ cerrojo[u] = Nadie \/ oPc[cerrojo[u]] \in {"fin", "muerto"}
  BY <1>1, <1>2, <1>8
  DEF Tipos, TiposActores, TiposVentas, O!Va, ConCerrojo, O!Vieja, O!MarcarA
<1>9. ASSUME O!Asentar(g) PROVE LET u == VentaDe[g] IN
             /\ \A w \in Ventas \ {u} : cerrojo'[w] = cerrojo[w]
             /\ \/ oPc'[g] \notin ConCerrojo /\ (oPc[g] \in ConCerrojo \/ UNCHANGED cerrojo)
                \/ oPc[g] \in ConCerrojo /\ UNCHANGED cerrojo
                \/ /\ oPc[g] = "cerrojo" /\ cerrojo'[u] = g
                   /\ cerrojo[u] = Nadie \/ oPc[cerrojo[u]] \in {"fin", "muerto"}
  BY <1>1, <1>2, <1>9
  DEF Tipos, TiposActores, TiposVentas, O!Va, ConCerrojo, O!Vieja, O!Asentar
<1>10. ASSUME O!MarcarR(g) PROVE LET u == VentaDe[g] IN
             /\ \A w \in Ventas \ {u} : cerrojo'[w] = cerrojo[w]
             /\ \/ oPc'[g] \notin ConCerrojo /\ (oPc[g] \in ConCerrojo \/ UNCHANGED cerrojo)
                \/ oPc[g] \in ConCerrojo /\ UNCHANGED cerrojo
                \/ /\ oPc[g] = "cerrojo" /\ cerrojo'[u] = g
                   /\ cerrojo[u] = Nadie \/ oPc[cerrojo[u]] \in {"fin", "muerto"}
  BY <1>1, <1>2, <1>10
  DEF Tipos, TiposActores, TiposVentas, O!Va, ConCerrojo, O!Vieja, O!MarcarR
<1>11. ASSUME O!AbrirCerrojo(g) PROVE LET u == VentaDe[g] IN
             /\ \A w \in Ventas \ {u} : cerrojo'[w] = cerrojo[w]
             /\ \/ oPc'[g] \notin ConCerrojo /\ (oPc[g] \in ConCerrojo \/ UNCHANGED cerrojo)
                \/ oPc[g] \in ConCerrojo /\ UNCHANGED cerrojo
                \/ /\ oPc[g] = "cerrojo" /\ cerrojo'[u] = g
                   /\ cerrojo[u] = Nadie \/ oPc[cerrojo[u]] \in {"fin", "muerto"}
  BY <1>1, <1>2, <1>11
  DEF Tipos, TiposActores, TiposVentas, O!Va, ConCerrojo, O!Vieja, O!AbrirCerrojo
<1> QED
  BY <1>3, <1>4, <1>5, <1>6, <1>7, <1>8, <1>9, <1>10, <1>11 DEF O!Regulariza

LEMMA CerrojosSiempre ==
    ASSUME O!Supuestos, Tipos, Lentas \cap Regularizadores = {}, Cerrojos, [O!Next]_(O!vars)
    PROVE  Cerrojos'
<1>1. ASSUME NEW g \in Regularizadores, O!Regulariza(g) PROVE Cerrojos'
  <2> DEFINE u == VentaDe[g]
  <2>1. u \in Ventas /\ Solo(g)
    BY <1>1, SonActores, DeVenta, SoloRegulariza
  <2>2. /\ \A w \in Ventas \ {u} : cerrojo'[w] = cerrojo[w]
        /\ \/ oPc'[g] \notin ConCerrojo /\ (oPc[g] \in ConCerrojo \/ UNCHANGED cerrojo)
           \/ oPc[g] \in ConCerrojo /\ UNCHANGED cerrojo
           \/ /\ oPc[g] = "cerrojo" /\ cerrojo'[u] = g
              /\ cerrojo[u] = Nadie \/ oPc[cerrojo[u]] \in {"fin", "muerto"}
    BY <1>1, CerrojoHace
  <2>3. oPc'[g] \in ConCerrojo => cerrojo'[u] = g
    BY <2>1, <2>2 DEF Cerrojos
  <2>4. ASSUME NEW h \in Regularizadores \ {g}, oPc'[h] \in ConCerrojo
        PROVE  cerrojo'[VentaDe[h]] = h
    <3>1. VentaDe[h] \in Ventas /\ h \in O!Actores /\ oPc[h] \in ConCerrojo
      BY <2>1, <2>4, SonActores, DeVenta DEF Solo
    <3>2. cerrojo[VentaDe[h]] = h
      BY <3>1 DEF Cerrojos
    <3>3. CASE VentaDe[h] # u
      BY <2>2, <3>1, <3>2, <3>3
    <3>4. CASE VentaDe[h] = u
      <4>1. oPc[g] \notin ConCerrojo
        BY <3>2, <3>4 DEF Cerrojos
      <4>2. h # Nadie /\ oPc[h] \notin {"fin", "muerto"}
        BY <3>1 DEF ConCerrojo, O!Supuestos
      <4> QED
        BY <2>2, <3>2, <3>4, <4>1, <4>2
    <3> QED
      BY <3>3, <3>4
  <2> QED
    BY <2>3, <2>4 DEF Cerrojos
<1>2. ASSUME UNCHANGED cerrojo, \A g \in Regularizadores : oPc'[g] = oPc[g] \/ oPc'[g] = "muerto"
      PROVE  Cerrojos'
  BY <1>2 DEF Cerrojos, ConCerrojo
<1>3. ASSUME NEW e \in Envios, O!Envia(e) PROVE UNCHANGED cerrojo
  BY <1>3
  DEF O!Envia, O!Enviar, O!MirarVenta, O!MirarCandado, O!Liberar, O!ElegirTurno, O!Tomar,
      O!Revisar, O!Sacar,
              O!Insertar, O!Devolver, O!Soltar, O!Guardar, O!Marcar, O!Resolver
<1>4. ASSUME NEW n \in oAnuladores, O!Anula(n) PROVE UNCHANGED cerrojo
  BY <1>4 DEF O!Anula, O!Anular, O!Voltear, O!Reversar, O!Deshacer, O!AnularFaltante
<1>5. ASSUME NEW e \in Envios, O!Envia(e) PROVE Cerrojos'
  BY <1>2, <1>3, <1>5, SoloEnvia, SonActores, Clases DEF Solo
<1>6. ASSUME NEW n \in oAnuladores, O!Anula(n) PROVE Cerrojos'
  BY <1>2, <1>4, <1>6, SoloAnula, SonActores, Clases DEF Solo
<1>7. ASSUME NEW a \in O!Actores, O!Corte(a) PROVE Cerrojos'
  <2>1. UNCHANGED cerrojo /\ \A g \in Regularizadores : oPc'[g] = oPc[g] \/ oPc'[g] = "muerto"
    BY <1>7, SoloCorte, SonActores DEF Solo, O!Corte
  <2> QED
    BY <1>2, <2>1
<1>8. ASSUME UNCHANGED <<oPc, cerrojo>> PROVE Cerrojos'
  BY <1>8 DEF Cerrojos
<1> QED
  BY <1>1, <1>5, <1>6, <1>7, <1>8 DEF O!Next, O!Turno, O!Comprar, O!Reservar, O!Cobrar, O!vars

-----------------------------------------------------------------------------
(* The missing units *)

LEMMA SacaRegulariza ==
    ASSUME O!Supuestos, Tipos, Sacan, Faltas, NEW g \in Regularizadores, O!Regulariza(g)
    PROVE  Saca(g)'
<1> DEFINE u == VentaDe[g]
<1>1. u \in Ventas /\ g \in O!Actores /\ oPc \in [O!Actores -> {"libre", "fin", "muerto"} \cup O!Pasos]
  BY SonActores, DeVenta DEF Tipos, TiposActores
<1>2. /\ venta \in [Ventas -> Registros] /\ salida \in [Ventas -> Nat] /\ salida[u] \in Nat
      /\ venta[u].falta \in Nat /\ venta[u].faltante \in O!EstadosFaltante
  BY <1>1, CamposVenta DEF Tipos, TiposVentas
<1>3. Saca(g) /\ FaltaDeO(u)
  BY <1>1 DEF Sacan, Faltas
<1>4. Quieta(u) /\ venta'[u].estado = venta[u].estado
  BY VentaRegulariza
<1>6. ASSUME O!Regularizar(g) PROVE Saca(g)'
  BY <1>1, <1>2, <1>3, <1>4, <1>6
  DEF Saca, FaltaDeO, O!Pasa, O!Va, O!FALTANTE_ABIERTO, O!EstadosFaltante, O!FALTANTE_CERRANDO, O!Regularizar
<1>7. ASSUME O!Cerrojo(g) PROVE Saca(g)'
  BY <1>1, <1>2, <1>3, <1>4, <1>7
  DEF Saca, FaltaDeO, O!Pasa, O!Va, O!FALTANTE_ABIERTO, O!EstadosFaltante, O!FALTANTE_CERRANDO, O!Cerrojo
<1>8. ASSUME O!MarcarC(g) PROVE Saca(g)'
  BY <1>1, <1>2, <1>3, <1>4, <1>8
  DEF Saca, FaltaDeO, O!Pasa, O!Va, O!FALTANTE_ABIERTO, O!EstadosFaltante, O!FALTANTE_CERRANDO, O!MarcarC
<1>9. ASSUME O!Consumir(g) PROVE Saca(g)'
  BY <1>1, <1>2, <1>3, <1>4, <1>9
  DEF Saca, FaltaDeO, O!Pasa, O!Va, O!FALTANTE_ABIERTO, O!EstadosFaltante, O!FALTANTE_CERRANDO, O!Consumir
<1>10. ASSUME O!Volver(g) PROVE Saca(g)'
  BY <1>1, <1>2, <1>3, <1>4, <1>10
  DEF Saca, FaltaDeO, O!Pasa, O!Va, O!FALTANTE_ABIERTO, O!EstadosFaltante, O!FALTANTE_CERRANDO, O!Volver
<1>11. ASSUME O!MarcarA(g) PROVE Saca(g)'
  BY <1>1, <1>2, <1>3, <1>4, <1>11
  DEF Saca, FaltaDeO, O!Pasa, O!Va, O!FALTANTE_ABIERTO, O!EstadosFaltante, O!FALTANTE_CERRANDO, O!MarcarA
<1>12. ASSUME O!Asentar(g) PROVE Saca(g)'
  BY <1>1, <1>2, <1>3, <1>4, <1>12
  DEF Saca, FaltaDeO, O!Pasa, O!Va, O!FALTANTE_ABIERTO, O!EstadosFaltante, O!FALTANTE_CERRANDO, O!Asentar
<1>13. ASSUME O!MarcarR(g) PROVE Saca(g)'
  BY <1>1, <1>2, <1>3, <1>4, <1>13
  DEF Saca, FaltaDeO, O!Pasa, O!Va, O!FALTANTE_ABIERTO, O!EstadosFaltante, O!FALTANTE_CERRANDO, O!MarcarR
<1>14. ASSUME O!AbrirCerrojo(g) PROVE Saca(g)'
  BY <1>1, <1>2, <1>3, <1>4, <1>14
  DEF Saca, FaltaDeO, O!Pasa, O!Va, O!FALTANTE_ABIERTO, O!EstadosFaltante, O!FALTANTE_CERRANDO, O!AbrirCerrojo
<1> QED
  BY <1>6, <1>7, <1>8, <1>9, <1>10, <1>11, <1>12, <1>13, <1>14 DEF O!Regulariza

LEMMA FaltaRegulariza ==
    ASSUME O!Supuestos, Tipos, Sacan, Faltas, NEW g \in Regularizadores, O!Regulariza(g)
    PROVE  FaltaDeO(VentaDe[g])'
<1> DEFINE u == VentaDe[g]
<1>1. u \in Ventas /\ asiento \subseteq Ventas
  BY SonActores, DeVenta DEF Tipos, TiposVentas
<1>2. /\ venta \in [Ventas -> Registros] /\ salida \in [Ventas -> Nat] /\ salida[u] \in Nat
      /\ venta[u].falta \in Nat /\ venta[u].faltante \in O!EstadosFaltante
  BY <1>1, CamposVenta DEF Tipos, TiposVentas
<1>3. Saca(g) /\ FaltaDeO(u)
  BY <1>1 DEF Sacan, Faltas
<1>4. Quieta(u) /\ venta'[u].estado = venta[u].estado
  BY VentaRegulariza
<1>5. \A n \in oAnuladores : oPc'[n] = oPc[n]
  BY SoloRegulariza, SonActores, Clases DEF Solo
<1>7. ASSUME O!Regularizar(g) PROVE FaltaDeO(VentaDe[g])'
  BY <1>1, <1>2, <1>3, <1>4, <1>5, <1>7
  DEF Saca, FaltaDeO, Quieta, O!Pasa, O!Regularizar
<1>8. ASSUME O!Cerrojo(g) PROVE FaltaDeO(VentaDe[g])'
  BY <1>1, <1>2, <1>3, <1>4, <1>5, <1>8
  DEF Saca, FaltaDeO, Quieta, O!Pasa, O!Cerrojo
<1>9. ASSUME O!MarcarC(g) PROVE FaltaDeO(VentaDe[g])'
  BY <1>1, <1>2, <1>3, <1>4, <1>5, <1>9
  DEF Saca, FaltaDeO, Quieta, O!Pasa, O!MarcarC
<1>10. ASSUME O!Consumir(g) PROVE FaltaDeO(VentaDe[g])'
  BY <1>1, <1>2, <1>3, <1>4, <1>5, <1>10
  DEF Saca, FaltaDeO, Quieta, O!Pasa, O!Consumir
<1>11. ASSUME O!Volver(g) PROVE FaltaDeO(VentaDe[g])'
  BY <1>1, <1>2, <1>3, <1>4, <1>5, <1>11
  DEF Saca, FaltaDeO, Quieta, O!Pasa, O!Volver
<1>12. ASSUME O!MarcarA(g) PROVE FaltaDeO(VentaDe[g])'
  BY <1>1, <1>2, <1>3, <1>4, <1>5, <1>12
  DEF Saca, FaltaDeO, Quieta, O!Pasa, O!MarcarA
<1>13. ASSUME O!Asentar(g) PROVE FaltaDeO(VentaDe[g])'
  BY <1>1, <1>2, <1>3, <1>4, <1>5, <1>13
  DEF Saca, FaltaDeO, Quieta, O!Pasa, O!Asentar
<1>14. ASSUME O!MarcarR(g) PROVE FaltaDeO(VentaDe[g])'
  BY <1>1, <1>2, <1>3, <1>4, <1>5, <1>14
  DEF Saca, FaltaDeO, Quieta, O!Pasa, O!MarcarR
<1>15. ASSUME O!AbrirCerrojo(g) PROVE FaltaDeO(VentaDe[g])'
  BY <1>1, <1>2, <1>3, <1>4, <1>5, <1>15
  DEF Saca, FaltaDeO, Quieta, O!Pasa, O!AbrirCerrojo
<1> QED
  BY <1>7, <1>8, <1>9, <1>10, <1>11, <1>12, <1>13, <1>14, <1>15 DEF O!Regulariza

LEMMA CruzadaRegulariza ==
    ASSUME O!Supuestos, Tipos, NEW g \in Regularizadores, O!Regulariza(g)
    PROVE  UNCHANGED cruce /\ (Cruzada(VentaDe[g]) => Cruzada(VentaDe[g])')
<1> DEFINE u == VentaDe[g]
<1>1. u \in Ventas /\ g \in O!Actores /\ oPc \in [O!Actores -> {"libre", "fin", "muerto"} \cup O!Pasos]
  BY SonActores, DeVenta DEF Tipos, TiposActores
<1>2. /\ venta \in [Ventas -> Registros] /\ salida \in [Ventas -> Nat] /\ salida[u] \in Nat
      /\ venta[u].falta \in Nat /\ venta[u].faltante \in O!EstadosFaltante
  BY <1>1, CamposVenta DEF Tipos, TiposVentas
<1>4. venta'[u].estado = venta[u].estado
  BY VentaRegulariza
<1>5. \A h \in Regularizadores \ {g} : oPc'[h] = oPc[h]
  BY SoloRegulariza, SonActores DEF Solo
<1>6. ASSUME O!Regularizar(g)
      PROVE  UNCHANGED cruce /\ (Cruzada(VentaDe[g]) => Cruzada(VentaDe[g])')
  BY <1>1, <1>2, <1>4, <1>5, <1>6
  DEF Cruzada, O!FALTANTE_CERRANDO, O!FALTANTE_ABIERTO, O!Vieja, O!Pasa, O!Va, O!Regularizar
<1>7. ASSUME O!Cerrojo(g)
      PROVE  UNCHANGED cruce /\ (Cruzada(VentaDe[g]) => Cruzada(VentaDe[g])')
  BY <1>1, <1>2, <1>4, <1>5, <1>7
  DEF Cruzada, O!FALTANTE_CERRANDO, O!FALTANTE_ABIERTO, O!Vieja, O!Pasa, O!Va, O!Cerrojo
<1>8. ASSUME O!MarcarC(g)
      PROVE  UNCHANGED cruce /\ (Cruzada(VentaDe[g]) => Cruzada(VentaDe[g])')
  BY <1>1, <1>2, <1>4, <1>5, <1>8
  DEF Cruzada, O!FALTANTE_CERRANDO, O!FALTANTE_ABIERTO, O!Vieja, O!Pasa, O!Va, O!MarcarC
<1>9. ASSUME O!Consumir(g)
      PROVE  UNCHANGED cruce /\ (Cruzada(VentaDe[g]) => Cruzada(VentaDe[g])')
  BY <1>1, <1>2, <1>4, <1>5, <1>9
  DEF Cruzada, O!FALTANTE_CERRANDO, O!FALTANTE_ABIERTO, O!Vieja, O!Pasa, O!Va, O!Consumir
<1>10. ASSUME O!Volver(g)
       PROVE  UNCHANGED cruce /\ (Cruzada(VentaDe[g]) => Cruzada(VentaDe[g])')
  BY <1>1, <1>2, <1>4, <1>5, <1>10
  DEF Cruzada, O!FALTANTE_CERRANDO, O!FALTANTE_ABIERTO, O!Vieja, O!Pasa, O!Va, O!Volver
<1>11. ASSUME O!MarcarA(g)
       PROVE  UNCHANGED cruce /\ (Cruzada(VentaDe[g]) => Cruzada(VentaDe[g])')
  BY <1>1, <1>2, <1>4, <1>5, <1>11
  DEF Cruzada, O!FALTANTE_CERRANDO, O!FALTANTE_ABIERTO, O!Vieja, O!Pasa, O!Va, O!MarcarA
<1>12. ASSUME O!Asentar(g)
       PROVE  UNCHANGED cruce /\ (Cruzada(VentaDe[g]) => Cruzada(VentaDe[g])')
  BY <1>1, <1>2, <1>4, <1>5, <1>12
  DEF Cruzada, O!FALTANTE_CERRANDO, O!FALTANTE_ABIERTO, O!Vieja, O!Pasa, O!Va, O!Asentar
<1>13. ASSUME O!MarcarR(g)
       PROVE  UNCHANGED cruce /\ (Cruzada(VentaDe[g]) => Cruzada(VentaDe[g])')
  BY <1>1, <1>2, <1>4, <1>5, <1>13
  DEF Cruzada, O!FALTANTE_CERRANDO, O!FALTANTE_ABIERTO, O!Vieja, O!Pasa, O!Va, O!MarcarR
<1>14. ASSUME O!AbrirCerrojo(g)
       PROVE  UNCHANGED cruce /\ (Cruzada(VentaDe[g]) => Cruzada(VentaDe[g])')
  BY <1>1, <1>2, <1>4, <1>5, <1>14
  DEF Cruzada, O!FALTANTE_CERRANDO, O!FALTANTE_ABIERTO, O!Vieja, O!Pasa, O!Va, O!AbrirCerrojo
<1> QED
  BY <1>6, <1>7, <1>8, <1>9, <1>10, <1>11, <1>12, <1>13, <1>14 DEF O!Regulariza

\* Only its sale is posted, and nothing of it moves without the lock.
Suyo(g) ==
    /\ \A w \in Ventas \ {VentaDe[g]} : w \in asiento' <=> w \in asiento
    /\ oPc[g] \notin ConCerrojo => UNCHANGED <<venta, salida, asiento>>

LEMMA AsientoRegulariza ==
    ASSUME NEW g \in Regularizadores, O!Regulariza(g)
    PROVE  Suyo(g)
<1>1. ASSUME O!Regularizar(g) PROVE Suyo(g)
  BY <1>1 DEF Suyo, ConCerrojo, O!Regularizar
<1>2. ASSUME O!Cerrojo(g) PROVE Suyo(g)
  BY <1>2 DEF Suyo, ConCerrojo, O!Cerrojo
<1>3. ASSUME O!MarcarC(g) PROVE Suyo(g)
  BY <1>3 DEF Suyo, ConCerrojo, O!MarcarC
<1>4. ASSUME O!Consumir(g) PROVE Suyo(g)
  BY <1>4 DEF Suyo, ConCerrojo, O!Consumir
<1>5. ASSUME O!Volver(g) PROVE Suyo(g)
  BY <1>5 DEF Suyo, ConCerrojo, O!Volver
<1>6. ASSUME O!MarcarA(g) PROVE Suyo(g)
  BY <1>6 DEF Suyo, ConCerrojo, O!MarcarA
<1>7. ASSUME O!Asentar(g) PROVE Suyo(g)
  BY <1>7 DEF Suyo, ConCerrojo, O!Asentar
<1>8. ASSUME O!MarcarR(g) PROVE Suyo(g)
  BY <1>8 DEF Suyo, ConCerrojo, O!MarcarR
<1>9. ASSUME O!AbrirCerrojo(g) PROVE Suyo(g)
  BY <1>9 DEF Suyo, ConCerrojo, O!AbrirCerrojo
<1> QED
  BY <1>1, <1>2, <1>3, <1>4, <1>5, <1>6, <1>7, <1>8, <1>9 DEF O!Regulariza

FaltanteInv == Cerrojos /\ Sacan /\ Faltas /\ Cruzadas

LEMMA FaltanteRegulariza ==
    ASSUME O!Supuestos, Tipos, FaltanteInv, NEW g \in Regularizadores, O!Regulariza(g)
    PROVE  Sacan' /\ Faltas' /\ Cruzadas'
<1> DEFINE u == VentaDe[g]
<1>1. /\ u \in Ventas /\ Solo(g) /\ Aparte(u) /\ Quieta(u)
      /\ \A w \in Ventas \ {u} : w \in asiento' <=> w \in asiento
      /\ oPc[g] \notin ConCerrojo => UNCHANGED <<venta, salida, asiento>>
  BY SonActores, DeVenta, SoloRegulariza, VentaRegulariza, AsientoRegulariza DEF Suyo
<1>2. Saca(g)' /\ FaltaDeO(u)' /\ UNCHANGED cruce /\ (Cruzada(u) => Cruzada(u)')
  BY SacaRegulariza, FaltaRegulariza, CruzadaRegulariza DEF FaltanteInv
<1>3. \A h \in Regularizadores \ {g} : oPc'[h] = oPc[h] /\ VentaDe[h] \in Ventas
  BY <1>1, SonActores, DeVenta DEF Solo
<1>4. \A n \in oAnuladores : oPc'[n] = oPc[n]
  BY <1>1, SonActores, Clases DEF Solo
<1>5. Sacan'
  <2> SUFFICES ASSUME NEW h \in Regularizadores \ {g} PROVE Saca(h)'
    BY <1>2 DEF Sacan
  <2>1. Saca(h)
    BY DEF FaltanteInv, Sacan
  <2>2. CASE VentaDe[h] # u
    BY <1>1, <1>3, <2>1, <2>2 DEF Aparte, Saca
  <2>3. CASE VentaDe[h] = u /\ oPc[g] \notin ConCerrojo
    BY <1>1, <1>3, <2>1, <2>3 DEF Saca
  <2>4. CASE VentaDe[h] = u /\ oPc[g] \in ConCerrojo
    <3>1. oPc[h] \notin ConCerrojo
      BY <2>4 DEF FaltanteInv, Cerrojos
    <3>2. venta'[u].faltante # "no" \/ venta[u].faltante = "no"
      BY <1>1, <1>2 DEF Quieta, FaltaDeO, FaltanteInv, Faltas
    <3> QED
      BY <1>3, <2>1, <2>4, <3>1, <3>2 DEF Saca, ConCerrojo
  <2> QED
    BY <2>2, <2>3, <2>4
<1>6. Faltas'
  <2> SUFFICES ASSUME NEW w \in Ventas \ {u} PROVE FaltaDeO(w)'
    BY <1>2 DEF Faltas
  <2>1. FaltaDeO(w)
    BY DEF FaltanteInv, Faltas
  <2> QED
    BY <1>1, <1>4, <2>1 DEF Aparte, FaltaDeO
<1>7. Cruzadas'
  <2> SUFFICES ASSUME NEW w \in Ventas \ {u}, w \notin cruce PROVE Cruzada(w)'
    BY <1>2 DEF Cruzadas, FaltanteInv
  <2>1. Cruzada(w)
    BY DEF FaltanteInv, Cruzadas
  <2> QED
    BY <1>1, <1>3, <2>1 DEF Aparte, Cruzada
<1> QED
  BY <1>5, <1>6, <1>7

LEMMA FaltanteEnvia ==
    ASSUME O!Supuestos, Tipos, Envio, Completa, FaltanteInv, NEW e \in Envios, O!Envia(e)
    PROVE  Sacan' /\ Faltas' /\ Cruzadas'
<1> DEFINE u == VentaDe[e]
<1>1. /\ u \in Ventas /\ \A g \in Regularizadores : oPc'[g] = oPc[g] /\ VentaDe[g] \in Ventas
      /\ \A n \in oAnuladores : oPc'[n] = oPc[n]
  BY SonActores, DeVenta, SoloEnvia, Clases DEF Solo
<1>2. UNCHANGED <<salida, asiento, cruce>>
  BY
  DEF O!Envia, O!Enviar, O!MirarVenta, O!MirarCandado, O!Liberar, O!ElegirTurno, O!Tomar,
      O!Revisar, O!Sacar,
         O!Insertar, O!Devolver, O!Soltar, O!Guardar, O!Marcar, O!Resolver
<1>3. CASE UNCHANGED venta
  BY <1>1, <1>2, <1>3 DEF FaltanteInv, Sacan, Saca, Faltas, FaltaDeO, Cruzadas, Cruzada
<1>4. CASE Nace(e, u)
  <2>1. /\ \A w \in Ventas \ {u} : venta'[w] = venta[w]
        /\ venta'[u].estado = "completed" /\ venta'[u].falta = oLeido[e].falta
        /\ venta'[u].faltante = IF oLeido[e].falta > 0 THEN "pendiente" ELSE "no"
        /\ venta[u].estado = "no" /\ oLeido[e].falta \in Nat
    BY <1>1, <1>4, CamposLeido, SonActores DEF Nace, Tipos, TiposVentas
  <2>2. venta[u].falta = 0 /\ venta[u].faltante = "no" /\ salida[u] = 0 /\ u \notin asiento
    BY <1>1, <2>1 DEF Completa, FaltanteInv, Faltas, FaltaDeO
  <2>3. FaltaDeO(u)'
    BY <1>2, <2>1, <2>2 DEF FaltaDeO
  <2>4. Faltas'
    BY <1>1, <1>2, <2>1, <2>3 DEF FaltanteInv, Faltas, FaltaDeO
  <2>5. \A g \in Regularizadores : VentaDe[g] = u => oPc[g] \in {"libre", "fin", "muerto"}
    BY <2>2 DEF FaltanteInv, Sacan, Saca
  <2>6. Sacan'
    <3> SUFFICES ASSUME NEW g \in Regularizadores PROVE Saca(g)'
      BY DEF Sacan
    <3>1. Saca(g)
      BY DEF FaltanteInv, Sacan
    <3>2. CASE VentaDe[g] = u
      BY <1>1, <2>5, <3>2 DEF Saca
    <3>3. CASE VentaDe[g] # u
      BY <1>1, <1>2, <2>1, <3>1, <3>3 DEF Saca
    <3> QED
      BY <3>2, <3>3
  <2>7. Cruzadas'
    BY <1>1, <1>2, <2>1 DEF FaltanteInv, Cruzadas, Cruzada
  <2> QED
    BY <2>4, <2>6, <2>7
<1> QED
  BY <1>3, <1>4, VentaEnvia

\* What a void does to the missing units of its sale.
LEMMA FaltanteDeAnula ==
    ASSUME O!Supuestos, Tipos, NEW n \in oAnuladores, O!Anula(n)
    PROVE  LET u == VentaDe[n] IN
           /\ UNCHANGED <<salida, asiento>> /\ cruce \subseteq cruce'
           /\ \A w \in Ventas \ {u} : w \in cruce' => w \in cruce
           /\ \/ venta'[u].faltante = venta[u].faltante
              \/ /\ venta[u].faltante = "pendiente" /\ venta'[u].faltante = "anulado"
                 /\ oPc[n] = "anularFaltante" /\ venta'[u].estado = venta[u].estado
           /\ venta'[u].estado = "void" /\ venta[u].estado # "void" =>
                /\ venta[u].faltante \notin O!FALTANTE_CERRANDO
                /\ u \in cruce' \/ \A g \in Regularizadores : VentaDe[g] = u => oPc[g] # "marcarC"
<1>1. VentaDe[n] \in Ventas /\ venta \in [Ventas -> Registros]
  BY SonActores, DeVenta DEF Tipos, TiposVentas
<1>2. ASSUME O!Anular(n) PROVE LET u == VentaDe[n] IN
             /\ UNCHANGED <<salida, asiento>> /\ cruce \subseteq cruce'
             /\ \A w \in Ventas \ {u} : w \in cruce' => w \in cruce
             /\ \/ venta'[u].faltante = venta[u].faltante
                \/ /\ venta[u].faltante = "pendiente" /\ venta'[u].faltante = "anulado"
                   /\ oPc[n] = "anularFaltante" /\ venta'[u].estado = venta[u].estado
             /\ venta'[u].estado = "void" /\ venta[u].estado # "void" =>
                  /\ venta[u].faltante \notin O!FALTANTE_CERRANDO
                  /\ u \in cruce' \/ \A g \in Regularizadores : VentaDe[g] = u => oPc[g] # "marcarC"
  BY <1>1, <1>2 DEF Registros, O!Pasa, O!Anular
<1>3. ASSUME O!Voltear(n) PROVE LET u == VentaDe[n] IN
             /\ UNCHANGED <<salida, asiento>> /\ cruce \subseteq cruce'
             /\ \A w \in Ventas \ {u} : w \in cruce' => w \in cruce
             /\ \/ venta'[u].faltante = venta[u].faltante
                \/ /\ venta[u].faltante = "pendiente" /\ venta'[u].faltante = "anulado"
                   /\ oPc[n] = "anularFaltante" /\ venta'[u].estado = venta[u].estado
             /\ venta'[u].estado = "void" /\ venta[u].estado # "void" =>
                  /\ venta[u].faltante \notin O!FALTANTE_CERRANDO
                  /\ u \in cruce' \/ \A g \in Regularizadores : VentaDe[g] = u => oPc[g] # "marcarC"
  BY <1>1, <1>3 DEF Registros, O!Pasa, O!Voltear
<1>4. ASSUME O!Reversar(n) PROVE LET u == VentaDe[n] IN
             /\ UNCHANGED <<salida, asiento>> /\ cruce \subseteq cruce'
             /\ \A w \in Ventas \ {u} : w \in cruce' => w \in cruce
             /\ \/ venta'[u].faltante = venta[u].faltante
                \/ /\ venta[u].faltante = "pendiente" /\ venta'[u].faltante = "anulado"
                   /\ oPc[n] = "anularFaltante" /\ venta'[u].estado = venta[u].estado
             /\ venta'[u].estado = "void" /\ venta[u].estado # "void" =>
                  /\ venta[u].faltante \notin O!FALTANTE_CERRANDO
                  /\ u \in cruce' \/ \A g \in Regularizadores : VentaDe[g] = u => oPc[g] # "marcarC"
  BY <1>1, <1>4 DEF Registros, O!Pasa, O!Reversar
<1>5. ASSUME O!Deshacer(n) PROVE LET u == VentaDe[n] IN
             /\ UNCHANGED <<salida, asiento>> /\ cruce \subseteq cruce'
             /\ \A w \in Ventas \ {u} : w \in cruce' => w \in cruce
             /\ \/ venta'[u].faltante = venta[u].faltante
                \/ /\ venta[u].faltante = "pendiente" /\ venta'[u].faltante = "anulado"
                   /\ oPc[n] = "anularFaltante" /\ venta'[u].estado = venta[u].estado
             /\ venta'[u].estado = "void" /\ venta[u].estado # "void" =>
                  /\ venta[u].faltante \notin O!FALTANTE_CERRANDO
                  /\ u \in cruce' \/ \A g \in Regularizadores : VentaDe[g] = u => oPc[g] # "marcarC"
  BY <1>1, <1>5 DEF Registros, O!Pasa, O!Deshacer
<1>6. ASSUME O!AnularFaltante(n) PROVE LET u == VentaDe[n] IN
             /\ UNCHANGED <<salida, asiento>> /\ cruce \subseteq cruce'
             /\ \A w \in Ventas \ {u} : w \in cruce' => w \in cruce
             /\ \/ venta'[u].faltante = venta[u].faltante
                \/ /\ venta[u].faltante = "pendiente" /\ venta'[u].faltante = "anulado"
                   /\ oPc[n] = "anularFaltante" /\ venta'[u].estado = venta[u].estado
             /\ venta'[u].estado = "void" /\ venta[u].estado # "void" =>
                  /\ venta[u].faltante \notin O!FALTANTE_CERRANDO
                  /\ u \in cruce' \/ \A g \in Regularizadores : VentaDe[g] = u => oPc[g] # "marcarC"
  BY <1>1, <1>6 DEF Registros, O!Pasa, O!AnularFaltante
<1> QED
  BY <1>2, <1>3, <1>4, <1>5, <1>6 DEF O!Anula

LEMMA FaltanteAnula ==
    ASSUME O!Supuestos, Tipos, Volteos, Volteos', FaltanteInv, NEW n \in oAnuladores, O!Anula(n)
    PROVE  Sacan' /\ Faltas' /\ Cruzadas'
<1> DEFINE u == VentaDe[n]
<1>1. /\ u \in Ventas /\ Solo(n) /\ Aparte(u) /\ Quieta(u)
      /\ \A g \in Regularizadores : oPc'[g] = oPc[g] /\ VentaDe[g] \in Ventas
  BY SonActores, DeVenta, SoloAnula, VentaAnula, Clases DEF Solo
<1>2. /\ UNCHANGED <<salida, asiento>> /\ cruce \subseteq cruce'
      /\ \A w \in Ventas \ {u} : w \in cruce' => w \in cruce
      /\ \/ venta'[u].faltante = venta[u].faltante
         \/ /\ venta[u].faltante = "pendiente" /\ venta'[u].faltante = "anulado"
            /\ oPc[n] = "anularFaltante" /\ venta'[u].estado = venta[u].estado
      /\ venta'[u].estado = "void" /\ venta[u].estado # "void" =>
           /\ venta[u].faltante \notin O!FALTANTE_CERRANDO
           /\ u \in cruce' \/ \A g \in Regularizadores : VentaDe[g] = u => oPc[g] # "marcarC"
  BY FaltanteDeAnula
<1>3. \/ venta'[u].estado = venta[u].estado /\ ~(oPc[n] = "deshacer") /\ oPc'[n] # "reversar"
      \/ /\ venta[u].estado = "completed" /\ venta'[u].estado = "void"
         /\ oPc[n] = "voltear" /\ oPc'[n] = "reversar"
      \/ venta'[u].estado = "completed" /\ oPc[n] = "deshacer" /\ oPc'[n] = "fin"
  BY EstadoAnula
<1>4. FaltaDeO(u) /\ venta[u].falta \in Nat /\ salida[u] \in Nat
  BY <1>1, CamposVenta DEF FaltanteInv, Faltas
<1>5. Volteo(n) => venta[u].estado = "void"
  BY DEF Volteos, SuVolteo
<1>6. Sacan'
  <2> SUFFICES ASSUME NEW g \in Regularizadores PROVE Saca(g)'
    BY DEF Sacan
  <2>1. Saca(g)
    BY DEF FaltanteInv, Sacan
  <2>2. CASE VentaDe[g] # u
    BY <1>1, <1>2, <2>1, <2>2 DEF Aparte, Saca
  <2>3. CASE VentaDe[g] = u
    BY <1>1, <1>2, <2>1, <2>3 DEF Quieta, Saca
  <2> QED
    BY <2>2, <2>3
<1>7. Faltas'
  <2>1. \A w \in Ventas \ {u} : FaltaDeO(w)'
    <3> SUFFICES ASSUME NEW w \in Ventas \ {u} PROVE FaltaDeO(w)'
      OBVIOUS
    <3>1. FaltaDeO(w) /\ venta'[w] = venta[w] /\ salida'[w] = salida[w]
      BY <1>1 DEF FaltanteInv, Faltas, Aparte
    <3>2. \A m \in oAnuladores : VentaDe[m] = w => oPc'[m] = oPc[m]
      BY <1>1, SonActores DEF Solo
    <3> QED
      BY <1>2, <3>1, <3>2 DEF FaltaDeO
  <2>2. venta'[u].faltante = "anulado" => venta'[u].estado = "void"
    <3>1. CASE venta'[u].faltante = venta[u].faltante
      BY <1>3, <1>4, <3>1 DEF FaltaDeO
    <3>2. CASE oPc[n] = "anularFaltante" /\ venta'[u].estado = venta[u].estado
      BY <1>5, <3>2 DEF Volteo
    <3> QED
      BY <1>2, <3>1, <3>2
  <2>3. ASSUME NEW m \in oAnuladores, oPc'[m] \in {"reversar", "deshacer"}, VentaDe[m] = u
        PROVE  venta'[u].faltante # "anulado"
    <3>1. CASE m = n /\ oPc[n] \notin {"reversar", "deshacer"}
      <4>1. oPc'[n] = "reversar" \/ oPc'[n] = "deshacer"
        BY <2>3, <3>1
      <4>2. oPc'[n] = "deshacer" => oPc[n] = "reversar"
        BY <1>1, SonActores
        DEF O!Anula, O!Anular, O!Voltear, O!Reversar, O!Deshacer, O!AnularFaltante, O!Va, Tipos, TiposActores
      <4>3. venta[u].estado = "completed" /\ oPc[n] = "voltear"
        BY <1>3, <3>1, <4>1, <4>2
      <4> QED
        BY <1>2, <1>4, <4>3 DEF FaltaDeO
    <3>2. CASE oPc[m] \in {"reversar", "deshacer"}
      <4>1. venta[u].faltante # "anulado"
        BY <1>4, <2>3, <3>2 DEF FaltaDeO
      <4>2. oPc[n] = "anularFaltante" => FALSE
        BY <2>3, <3>2 DEF Volteos, Volteo
      <4> QED
        BY <1>2, <4>1, <4>2
    <3> QED
      BY <1>1, <2>3, <3>1, <3>2, SonActores DEF Solo
  <2>4. FaltaDeO(u)'
    BY <1>1, <1>2, <1>4, <2>2, <2>3 DEF Quieta, FaltaDeO
  <2> QED
    BY <2>1, <2>4 DEF Faltas
<1>8. Cruzadas'
  <2> SUFFICES ASSUME NEW w \in Ventas, w \notin cruce', venta'[w].estado = "void" PROVE Cruzada(w)'
    BY DEF Cruzadas, Cruzada
  <2>1. Cruzada(w) /\ w \notin cruce
    BY <1>2 DEF FaltanteInv, Cruzadas
  <2>2. CASE w # u
    BY <1>1, <1>2, <2>1, <2>2 DEF Aparte, Cruzada
  <2>3. CASE w = u /\ venta[u].estado = "void"
    <3>1. venta'[u].faltante \notin O!FALTANTE_CERRANDO
      BY <1>2, <2>1, <2>3 DEF Cruzada, O!FALTANTE_CERRANDO
    <3> QED
      BY <1>1, <1>2, <2>1, <2>3, <3>1 DEF Cruzada
  <2>4. CASE w = u /\ venta[u].estado # "void"
    <3>1. /\ venta[u].faltante \notin O!FALTANTE_CERRANDO /\ venta'[u].faltante = venta[u].faltante
          /\ \A g \in Regularizadores : VentaDe[g] = u => oPc[g] # "marcarC"
      <4>1. venta'[u].estado = "void" /\ venta'[u].estado # venta[u].estado
        BY <2>4
      <4> QED
        BY <1>2, <2>4, <4>1
    <3>2. venta[u].estado = "completed"
      BY <1>3, <2>4
    <3>3. venta[u].faltante \in {"no", "pendiente"}
      BY <1>1, <1>4, <3>1, <3>2, CamposVenta
      DEF FaltaDeO, O!FALTANTE_CERRANDO, O!EstadosFaltante
    <3>4. salida[u] = 0 /\ u \notin asiento
      BY <1>4, <3>3 DEF FaltaDeO
    <3>5. \A g \in Regularizadores : VentaDe[g] = u => oPc[g] \notin Trabaja
      <4> SUFFICES ASSUME NEW g \in Regularizadores, VentaDe[g] = u PROVE oPc[g] \notin Trabaja
        OBVIOUS
      <4>1. Saca(g) /\ oPc[g] # "marcarC"
        BY <3>1 DEF FaltanteInv, Sacan
      <4> QED
        BY <3>3, <4>1 DEF Saca, Trabaja
    <3> QED
      BY <1>1, <1>2, <2>4, <3>1, <3>4, <3>5 DEF Cruzada, Trabaja
  <2> QED
    BY <2>2, <2>3, <2>4
<1> QED
  BY <1>6, <1>7, <1>8

LEMMA FaltanteSiempre ==
    ASSUME O!Supuestos, Lentas \cap Regularizadores = {}, StockInv, StockInv', FaltanteInv, [O!Next]_(O!vars)
    PROVE  FaltanteInv'
<1>1. Tipos /\ Envio /\ Completa /\ Volteos /\ Volteos'
  BY DEF StockInv
<1>2. Cerrojos'
  BY <1>1, CerrojosSiempre DEF FaltanteInv
<1>3. ASSUME NEW e \in Envios, O!Envia(e) PROVE Sacan' /\ Faltas' /\ Cruzadas'
  BY <1>1, <1>3, FaltanteEnvia
<1>4. ASSUME NEW g \in Regularizadores, O!Regulariza(g) PROVE Sacan' /\ Faltas' /\ Cruzadas'
  BY <1>1, <1>4, FaltanteRegulariza
<1>5. ASSUME NEW n \in oAnuladores, O!Anula(n) PROVE Sacan' /\ Faltas' /\ Cruzadas'
  BY <1>1, <1>5, FaltanteAnula
<1>6. ASSUME UNCHANGED <<venta, salida, asiento, cruce>>,
             \A a \in O!Actores : oPc'[a] = oPc[a] \/ oPc'[a] = "muerto"
      PROVE  Sacan' /\ Faltas' /\ Cruzadas'
  <2>1. Sacan'
    BY <1>6, SonActores DEF FaltanteInv, Sacan, Saca
  <2>2. Faltas'
    <3> SUFFICES ASSUME NEW u \in Ventas PROVE FaltaDeO(u)'
      BY DEF Faltas
    <3>1. FaltaDeO(u)
      BY DEF FaltanteInv, Faltas
    <3>2. \A n \in oAnuladores : oPc'[n] \in {"reversar", "deshacer"} => oPc[n] \in {"reversar", "deshacer"}
      BY <1>6, SonActores
    <3> QED
      BY <1>6, <3>1, <3>2 DEF FaltaDeO
  <2>3. Cruzadas'
    BY <1>6, SonActores DEF FaltanteInv, Cruzadas, Cruzada
  <2> QED
    BY <2>1, <2>2, <2>3
<1>7. ASSUME NEW a \in O!Actores, O!Corte(a) PROVE Sacan' /\ Faltas' /\ Cruzadas'
  <2>1. /\ UNCHANGED <<venta, salida, asiento, cruce>>
        /\ \A b \in O!Actores : oPc'[b] = oPc[b] \/ oPc'[b] = "muerto"
    BY <1>1, <1>7, SoloCorte DEF Solo, O!Corte
  <2> QED
    BY <1>6, <2>1
<1>8. ASSUME UNCHANGED <<venta, salida, asiento, cruce, oPc>>
      PROVE  Sacan' /\ Faltas' /\ Cruzadas'
  BY <1>6, <1>8
<1> QED
  BY <1>2, <1>3, <1>4, <1>5, <1>7, <1>8
  DEF FaltanteInv, O!Next, O!Turno, O!Comprar, O!Reservar, O!Cobrar, O!vars

LEMMA FaltanteInvariante ==
    ASSUME O!Supuestos, Lentas \cap Regularizadores = {}
    PROVE  O!Spec => [](StockInv /\ FaltanteInv)
<1>1. O!Init => FaltanteInv
  <2> SUFFICES ASSUME O!Init PROVE FaltanteInv
    OBVIOUS
  <2>1. \A a \in O!Actores : oPc[a] = "libre"
    BY DEF O!Init
  <2>2. \A u \in Ventas : venta[u] = O!SinVenta /\ salida[u] = 0 /\ u \notin asiento
    BY DEF O!Init
  <2> QED
    BY <2>1, <2>2, SonActores, DeVenta
    DEF FaltanteInv, Cerrojos, ConCerrojo, Sacan, Saca, Faltas, FaltaDeO, Cruzadas, Cruzada, O!SinVenta
<1>2. O!Init => StockInv
  BY StockAlEmpezar
<1>3. StockInv /\ FaltanteInv /\ [O!Next]_(O!vars) => (StockInv /\ FaltanteInv)'
  BY StockPaso, FaltanteSiempre
<1> QED
  BY <1>1, <1>2, <1>3, PTL DEF O!Spec

\* If no regularisation outlives its lock, the missing units of a sale leave once and
\* their entry follows them, and a voided sale keeps them, except when the void crosses
\* the lock and the mark.
THEOREM FaltanteSiempreUnaVez ==
    ASSUME O!Supuestos, Lentas \cap Regularizadores = {}
    PROVE  O!Spec => [](O!FaltanteUnaVez /\ O!AnuladaOSalida)
<1>1. StockInv /\ FaltanteInv => O!FaltanteUnaVez /\ O!AnuladaOSalida
  BY DEF FaltanteInv, Faltas, FaltaDeO, Cruzadas, Cruzada, O!FaltanteUnaVez, O!AnuladaOSalida
<1> QED
  BY <1>1, FaltanteInvariante, PTL

\* Type correctness of the sales charged without network and their voids.
THEOREM OfflineTipos ==
    ASSUME O!Supuestos
    PROVE  O!Spec => []O!TypeOK
<1>1. StockInv => O!TypeOK
  <2> SUFFICES ASSUME StockInv PROVE O!TypeOK
    OBVIOUS
  <2>1. Tipos /\ Completa
    BY DEF StockInv
  <2>2. \A u \in Ventas : venta[u].salio \in 0..Cuanto[u] /\ venta[u].falta \in 0..Cuanto[u]
    <3> SUFFICES ASSUME NEW u \in Ventas
                 PROVE  venta[u].salio \in 0..Cuanto[u] /\ venta[u].falta \in 0..Cuanto[u]
      OBVIOUS
    <3>1. Cuanto[u] \in Nat /\ venta[u].salio \in Nat /\ venta[u].falta \in Nat
      BY <2>1, CamposVenta DEF O!Supuestos
    <3>2. \/ venta[u].salio + venta[u].falta = Cuanto[u]
          \/ venta[u].salio = 0 /\ venta[u].falta = 0
      BY <2>1 DEF Completa
    <3> QED
      BY <3>1, <3>2
  <2>3. TiposActores /\ TiposTerminal /\ TiposVentas
    BY <2>1 DEF Tipos
  <2>4. \A t \in Terminales : reserva[t].turno \in 0..turno
    BY <2>3 DEF TiposTerminal
  <2>5. \A u \in Ventas :
         /\ candado[u].estado \in {"no", "processing", "done"}
         /\ candado[u].de \in Envios \cup {Nadie}
         /\ venta[u].estado \in {"no", "completed", "void"}
         /\ venta[u].faltante \in O!EstadosFaltante
         /\ bandeja[u].estado \in {"no", "abierto", "resuelto"}
         /\ bandeja[u].motivo \in O!Motivos \cup {Nadie}
         /\ cerrojo[u] \in Regularizadores \cup {Nadie}
    BY <2>3 DEF TiposVentas, Registros
  <2> QED
    BY <2>2, <2>3, <2>4, <2>5 DEF O!TypeOK, TiposActores, TiposTerminal, TiposVentas
<1> QED
  BY <1>1, StockInvariante, PTL

=============================================================================
