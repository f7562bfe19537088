----------------------------- MODULE LibroProofs -----------------------------
(***************************************************************************)
(* For any number of requests, scripts, failures and lost processes: an    *)
(* expense counts at most once in the ledger, and whoever works on it      *)
(* alone leaves its entry up to date or what it lacks pending.             *)
(* And, for any closings and reopenings of any years of CierreAnual: each  *)
(* closing takes its own year, and what was carried to 3705 goes with it.  *)
(***************************************************************************)
EXTENDS Libro, Sumas

\* A counter-entry comes after the original it cancels, and says the same.
Orden ==
    \A i \in Asientos : ~Original(i) =>
        LET o == asientos[i].reversa IN
        /\ o \in Asientos /\ o < i /\ Original(o)
        /\ asientos[o].de = asientos[i].de /\ asientos[o].dice = asientos[i].dice

UnaReversa ==
    \A i, j \in Asientos : ~Original(i) /\ asientos[i].reversa = asientos[j].reversa => i = j

\* The mark is put on an original, after its counter-entry and never before.
MarcadoTieneContra ==
    \A i \in marcados : i \in Asientos /\ Original(i) /\ TieneContra(i)

UnVivo ==
    \A i, j \in Asientos :
        /\ Original(i) /\ i \notin marcados
        /\ Original(j) /\ j \notin marcados
        /\ asientos[i].de = asientos[j].de
        => i = j

\* Whoever reverses holds an original, and marks one that has its counter-entry.
Toman == {"tomar", "contra", "marcar", "reparar"}
Vale(a) ==
    /\ pc[a] \in Toman => leido[a].asiento \in Asientos /\ Original(leido[a].asiento)
    /\ pc[a] \in {"marcar", "reparar"} => TieneContra(leido[a].asiento)
ReversaVale == \A a \in Actores : Vale(a)

\* Who is at work is at work on an expense.
DeUnGasto == \A a \in Actores : pc[a] # "libre" => leido[a].g \in Gastos

Diario == Orden /\ UnaReversa /\ MarcadoTieneContra /\ UnVivo
Inv == TypeOK /\ DeUnGasto /\ Diario /\ ReversaVale
-----------------------------------------------------------------------------
(* What the two writes of the journal do *)

\* A new entry comes last and leaves the others as they were.
LEMMA AnotarDa ==
    ASSUME TypeOK, NEW g \in Gastos, NEW d \in Nat, NEW i \in Nat, Anotar(g, d, i)
    PROVE  /\ asientos' \in Seq(Apuntes)
           /\ Asientos' = Asientos \cup {Len(asientos) + 1}
           /\ Len(asientos) + 1 \notin Asientos /\ Len(asientos) \in Nat
           /\ \A k \in Asientos : asientos'[k] = asientos[k]
           /\ asientos'[Len(asientos) + 1] =
                [de |-> g, dice |-> d, reversa |-> i]
  <1> DEFINE e == [de |-> g, dice |-> d, reversa |-> i]
  <1>1. asientos \in Seq(Apuntes) /\ e \in Apuntes /\ asientos' = Append(asientos, e)
    BY DEF TypeOK, Anotar, Apuntes
  <1> HIDE DEF e
  <1>2. /\ asientos' \in Seq(Apuntes) /\ Len(asientos') = Len(asientos) + 1
        /\ \A k \in 1..Len(asientos) : asientos'[k] = asientos[k]
        /\ asientos'[Len(asientos) + 1] = e /\ Len(asientos) \in Nat
    BY <1>1
  <1>3. QED
    BY <1>2 DEF e, Asientos

-----------------------------------------------------------------------------
(* Types *)

Leidos == [op : Ops, g : Gastos \cup {Nadie}, version : Nat, asiento : Nat,
           existe : BOOLEAN, pend : SUBSET {"post", "reverse"}]

LEMMA TiposInit == Init => TypeOK /\ DeUnGasto
  BY DEF Init, TypeOK, DeUnGasto, SinLeer, Ops, Apuntes

\* Who goes on keeps what it read or forgets it, and the others are left alone.
LEMMA SigueDa ==
    ASSUME TypeOK, DeUnGasto, NEW a \in Actores, pc[a] # "libre",
           NEW paso \in {"libre"} \cup Pasos, Sigue(a, paso)
    PROVE  /\ pc' \in [Actores -> {"libre"} \cup Pasos]
           /\ leido' \in [Actores -> Leidos]
           /\ DeUnGasto'
           /\ pc'[a] = paso
           /\ \A b \in Actores : b # a => pc'[b] = pc[b] /\ leido'[b] = leido[b]
           /\ paso # "libre" => leido' = leido
  <1>1. SinLeer \in Leidos
    BY DEF SinLeer, Leidos, Ops
  <1>2. /\ pc \in [Actores -> {"libre"} \cup Pasos] /\ leido \in [Actores -> Leidos]
        /\ pc' = [pc EXCEPT ![a] = paso]
        /\ leido' = IF paso = "libre" THEN [leido EXCEPT ![a] = SinLeer] ELSE leido
    BY DEF TypeOK, Leidos, Sigue, Va
  <1>3. QED
    BY <1>1, <1>2 DEF DeUnGasto

LEMMA EmpiezaDa ==
    ASSUME TypeOK, DeUnGasto, NEW a \in Actores, NEW op \in Ops, NEW g \in Gastos,
           NEW paso \in Pasos, NEW s \in BOOLEAN, Empieza(a, op, g, paso, s)
    PROVE  /\ pc' \in [Actores -> {"libre"} \cup Pasos]
           /\ leido' \in [Actores -> Leidos]
           /\ alDia' \in [Gastos -> BOOLEAN]
           /\ DeUnGasto'
           /\ pc'[a] = paso
           /\ \A b \in Actores : b # a => pc'[b] = pc[b] /\ leido'[b] = leido[b]
  <1>1. Lectura(op, g, 1, 0) \in Leidos /\ Lectura(op, g, 1, 0).g = g
    BY DEF TypeOK, Leidos, Lectura
  <1>2. /\ pc \in [Actores -> {"libre"} \cup Pasos] /\ leido \in [Actores -> Leidos]
        /\ pc' = [pc EXCEPT ![a] = paso]
        /\ leido' = [leido EXCEPT ![a] = Lectura(op, g, 1, 0)]
    BY DEF TypeOK, Leidos, Empieza, Va
  <1>3. alDia' \in [Gastos -> BOOLEAN]
    BY DEF TypeOK, Empieza
  <1>4. QED
    BY <1>1, <1>2, <1>3 DEF DeUnGasto

\* Where an actor goes on after posting and after reversing is a step of the program.
LEMMA TrasDa ==
    ASSUME TypeOK, NEW a \in Actores
    PROVE  /\ TrasReversar(a) => \E p \in {"libre", "buscar", "quitar", "resolver"} : Sigue(a, p)
           /\ TrasPostear(a) => \E p \in {"mover", "quitar", "resolver"} : Sigue(a, p)
  <1>1. ASSUME TrasReversar(a)
        PROVE  \E p \in {"libre", "buscar", "quitar", "resolver"} : Sigue(a, p)
    <2>1. CASE leido[a].op \in {"editar", "rehacer"}
      BY <1>1, <2>1 DEF TrasReversar
    <2>2. CASE leido[a].op = "borrar"
      BY <1>1, <2>2 DEF TrasReversar
    <2>3. CASE leido[a].op = "retirar"
      BY <1>1, <2>3 DEF TrasReversar
    <2>4. CASE leido[a].op \notin {"editar", "rehacer", "borrar", "retirar"}
      BY <1>1, <2>4 DEF TrasReversar
    <2>5. QED
      BY <2>1, <2>2, <2>3, <2>4
  <1>2. ASSUME TrasPostear(a)
        PROVE  \E p \in {"mover", "quitar", "resolver"} : Sigue(a, p)
    <2>1. CASE leido[a].op = "crear"
      BY <1>2, <2>1 DEF TrasPostear
    <2>2. CASE leido[a].op = "editar"
      BY <1>2, <2>2 DEF TrasPostear
    <2>3. CASE leido[a].op \notin {"crear", "editar"}
      BY <1>2, <2>3 DEF TrasPostear
    <2>4. QED
      BY <2>1, <2>2, <2>3
  <1>3. QED
    BY <1>1, <1>2

\* What the script makes of an expense is one of its operations.
LEMMA RemedioDa == ASSUME NEW g \in Gastos PROVE Remedio(g) \in {"rehacer", "reponer", "retirar", "mirar"}
  <1> DEFINE vivo == Vivos(g) # {}
             existe == gasto[g].estado = "vivo"
             falta == (\E i \in Asientos : asientos[i].de = g /\ Original(i)) => "post" \in pend[g]
  <1>1. CASE existe /\ vivo /\ "reverse" \in pend[g]
    BY <1>1 DEF Remedio
  <1>2. CASE existe /\ ~vivo /\ falta
    BY <1>2 DEF Remedio
  <1>3. CASE ~existe /\ vivo
    BY <1>3 DEF Remedio
  <1>4. CASE ~(existe /\ vivo /\ "reverse" \in pend[g]) /\ ~(existe /\ ~vivo /\ falta)
             /\ ~(~existe /\ vivo)
    BY <1>4 DEF Remedio
  <1>5. QED
    BY <1>1, <1>2, <1>3, <1>4

LEMMA TiposNext ==
    ASSUME TypeOK, DeUnGasto, ReversaVale, [Next]_vars
    PROVE  TypeOK' /\ DeUnGasto'
  <1> USE DEF Leidos
  <1>0. \A a \in Actores : pc[a] # "libre" => leido[a].g \in Gastos
    BY DEF DeUnGasto
  <1>a. Peticiones \subseteq Actores /\ Scripts \subseteq Actores
    BY DEF Actores
  <1>1. ASSUME NEW a \in Peticiones, NEW g \in Gastos, Crear(a, g) \/ Editar(a, g) \/ Borrar(a, g)
        PROVE  TypeOK' /\ DeUnGasto'
    <2>1. CASE Crear(a, g)
      <3>1. Empieza(a, "crear", g, "buscar", TRUE)
        BY <2>1 DEF Crear
      <3>2. gasto' \in [Gastos -> [estado : {"no", "vivo", "borrado"}, version : Nat]]
        BY <2>1 DEF Crear, TypeOK
      <3>3. QED
        BY <1>a, <2>1, <3>1, <3>2, EmpiezaDa DEF Crear, TypeOK, Ops, Pasos, PasosPosteo
    <2>2. CASE Editar(a, g)
      <3>1. Empieza(a, "editar", g, "guardar", TRUE)
        BY <2>2 DEF Editar
      <3>2. QED
        BY <1>a, <2>2, <3>1, EmpiezaDa DEF Editar, TypeOK, Ops, Pasos
    <2>3. CASE Borrar(a, g)
      <3>1. Empieza(a, "borrar", g, "borrar", TRUE)
        BY <2>3 DEF Borrar
      <3>2. QED
        BY <1>a, <2>3, <3>1, EmpiezaDa DEF Borrar, TypeOK, Ops, Pasos
    <2>4. QED
      BY <1>1, <2>1, <2>2, <2>3
  <1>2. ASSUME NEW a \in Peticiones, Guardar(a) PROVE TypeOK' /\ DeUnGasto'
    <2> DEFINE g == leido[a].g
    <2>1. a \in Actores /\ g \in Gastos /\ pc[a] = "guardar"
      BY <1>0, <1>a, <1>2 DEF Guardar
    <2>2. CASE gasto[g].estado = "vivo"
      <3>1. /\ gasto' = [gasto EXCEPT ![g].version = @ + 1]
            /\ leido' = [leido EXCEPT ![a].version = gasto[g].version + 1]
            /\ pc' = [pc EXCEPT ![a] = "mirar"]
        BY <1>2, <2>2 DEF Guardar, TrasGuardar, Va
      <3>a. gasto[g].version + 1 \in Nat
        BY <2>1 DEF TypeOK
      <3> DEFINE n == gasto[g].version + 1
      <3>b. /\ gasto' = [gasto EXCEPT ![g].version = n]
            /\ leido' = [leido EXCEPT ![a].version = n] /\ n \in Nat
        BY <3>1, <3>a
      <3> HIDE DEF n
      <3>2. gasto' \in [Gastos -> [estado : {"no", "vivo", "borrado"}, version : Nat]]
        BY <2>1, <3>b DEF TypeOK
      <3> DEFINE r == [leido[a] EXCEPT !.version = n]
      <3>c. r \in Leidos /\ r.g = leido[a].g
        <4> DEFINE u == leido[a]
        <4>1. u \in Leidos
          BY <2>1 DEF TypeOK
        <4> HIDE DEF u
        <4>2. [u EXCEPT !.version = n] \in Leidos /\ [u EXCEPT !.version = n].g = u.g
          BY <3>b, <4>1
        <4>3. QED
          BY <4>2 DEF u
      <3>d. leido' = [leido EXCEPT ![a] = r]
        BY <3>b
      <3> HIDE DEF r
      <3>3. leido' \in [Actores -> Leidos] /\ \A b \in Actores : leido'[b].g = leido[b].g
        BY <2>1, <3>c, <3>d DEF TypeOK
      <3>4. pc' \in [Actores -> {"libre"} \cup Pasos] /\ DeUnGasto'
        BY <2>1, <3>1, <3>3 DEF TypeOK, DeUnGasto, Pasos, PasosReversa
      <3>5. QED
        BY <1>2, <3>2, <3>3, <3>4 DEF Guardar, TypeOK
    <2>3. CASE gasto[g].estado # "vivo"
      <3>1. Sigue(a, "libre") /\ UNCHANGED gasto
        BY <1>2, <2>3 DEF Guardar
      <3>2. QED
        BY <1>2, <2>1, <3>1, SigueDa DEF Guardar, TypeOK
    <2>4. QED
      BY <2>2, <2>3
  <1>3. ASSUME NEW a \in Peticiones, Borrado(a) PROVE TypeOK' /\ DeUnGasto'
    <2>1. a \in Actores /\ leido[a].g \in Gastos /\ pc[a] = "borrar" /\ Sigue(a, "mirar")
      BY <1>0, <1>a, <1>3 DEF Borrado
    <2>2. gasto' = [gasto EXCEPT ![leido[a].g].estado = "borrado"]
      BY <1>3 DEF Borrado
    <2> DEFINE r == [gasto[leido[a].g] EXCEPT !.estado = "borrado"]
    <2>a. gasto' = [gasto EXCEPT ![leido[a].g] = r]
      BY <2>2
    <2>b. r \in [estado : {"no", "vivo", "borrado"}, version : Nat]
      <3> DEFINE u == gasto[leido[a].g]
      <3>1. u \in [estado : {"no", "vivo", "borrado"}, version : Nat]
        BY <2>1 DEF TypeOK
      <3> HIDE DEF u
      <3>2. [u EXCEPT !.estado = "borrado"] \in [estado : {"no", "vivo", "borrado"}, version : Nat]
        BY <3>1
      <3>3. QED
        BY <3>2 DEF u
    <2> HIDE DEF r
    <2>3. gasto' \in [Gastos -> [estado : {"no", "vivo", "borrado"}, version : Nat]]
      BY <2>1, <2>a, <2>b DEF TypeOK
    <2>4. QED
      BY <1>3, <2>1, <2>3, SigueDa DEF Borrado, TypeOK, Pasos, PasosReversa
  <1>4. ASSUME NEW a \in Peticiones, Quitar(a) PROVE TypeOK' /\ DeUnGasto'
    <2>1. PICK p \in {"libre", "mover"} : Sigue(a, p)
      BY <1>4 DEF Quitar
    <2>2. QED
      BY <1>0, <1>a, <1>4, <2>1, SigueDa DEF Quitar, TypeOK, Pasos, PasosBanco
  <1>5. ASSUME NEW a \in Peticiones, Mover(a) PROVE TypeOK' /\ DeUnGasto'
    <2>1. a \in Actores /\ leido[a].g \in Gastos /\ leido[a].version \in Nat
      BY <1>0, <1>a, <1>5 DEF Mover, TypeOK
    <2>2. banco' \in [Gastos -> Nat]
      BY <1>5, <2>1 DEF Mover, TypeOK
    <2>3. QED
      BY <1>5, <2>1, <2>2, SigueDa DEF Mover, TypeOK
  <1>6. ASSUME NEW a \in Peticiones, FallaBanco(a) PROVE TypeOK' /\ DeUnGasto'
    <2>1. PICK p \in {"libre", "mover"} : Sigue(a, p)
      BY <1>6 DEF FallaBanco
    <2>2. pc[a] # "libre"
      BY <1>6 DEF FallaBanco, PasosBanco
    <2>3. alDia' \in [Gastos -> BOOLEAN]
      BY <1>6 DEF FallaBanco, TypeOK
    <2>a. fallas' \in Nat
      BY <1>6 DEF FallaBanco, TypeOK
    <2>4. QED
      BY <1>a, <1>6, <2>1, <2>2, <2>3, <2>a, SigueDa DEF FallaBanco, TypeOK, Pasos, PasosBanco
  <1>7. ASSUME NEW a \in Peticiones, NEW i \in Asientos, AMano(a, i) PROVE TypeOK' /\ DeUnGasto'
    <2>1. asientos[i] \in Apuntes /\ i \in Nat
      BY DEF TypeOK, Asientos
    <2>2. asientos[i].de \in Gastos
      BY <2>1 DEF Apuntes
    <2>3. Lectura("mano", asientos[i].de, 0, i) \in Leidos
          /\ Lectura("mano", asientos[i].de, 0, i).g \in Gastos
      BY <2>1, <2>2 DEF Lectura, TypeOK, Ops
    <2>4. /\ leido' = [leido EXCEPT ![a] = Lectura("mano", asientos[i].de, 0, i)]
          /\ pc' = [pc EXCEPT ![a] = "tomar"]
          /\ alDia' = [alDia EXCEPT ![asientos[i].de] = FALSE]
      BY <1>7 DEF AMano, Va
    <2>5. leido' \in [Actores -> Leidos] /\ pc' \in [Actores -> {"libre"} \cup Pasos]
          /\ DeUnGasto' /\ alDia' \in [Gastos -> BOOLEAN]
      BY <1>a, <2>3, <2>4 DEF TypeOK, DeUnGasto, Pasos, PasosReversa
    <2>6. QED
      BY <1>7, <2>5 DEF AMano, TypeOK
  <1>8. ASSUME NEW a \in Actores, Buscar(a) PROVE TypeOK' /\ DeUnGasto'
    <2>1. \E p \in {"mover", "quitar", "resolver", "postear"} : Sigue(a, p)
      BY <1>8, TrasDa DEF Buscar
    <2>2. QED
      BY <1>8, <2>1, SigueDa DEF Buscar, TypeOK, Pasos, PasosBanco, PasosPosteo
  <1>9. ASSUME NEW a \in Actores, Postear(a) PROVE TypeOK' /\ DeUnGasto'
    <2>1. leido[a].g \in Gastos /\ leido[a].version \in Nat
      BY <1>0, <1>9 DEF Postear, TypeOK
    <2>2. asientos' \in Seq(Apuntes)
      BY <1>9, <2>1, AnotarDa DEF Postear, TypeOK
    <2>3. \E p \in {"mover", "quitar", "resolver"} : Sigue(a, p)
      BY <1>9, TrasDa DEF Postear
    <2>4. QED
      BY <1>9, <2>2, <2>3, SigueDa DEF Postear, TypeOK, Pasos, PasosBanco
  <1>10. ASSUME NEW a \in Actores, Mirar(a) PROVE TypeOK' /\ DeUnGasto'
    <2>1. CASE Vivos(leido[a].g) = {}
      <3>1. \E p \in {"libre", "buscar", "quitar", "resolver"} : Sigue(a, p)
        BY <1>10, <2>1, TrasDa DEF Mirar
      <3>2. QED
        BY <1>10, <3>1, SigueDa DEF Mirar, TypeOK, Pasos, PasosBanco, PasosPosteo
    <2>2. CASE Vivos(leido[a].g) # {}
      <3>1. PICK i \in Vivos(leido[a].g) : leido' = [leido EXCEPT ![a].asiento = i]
        BY <1>10, <2>2 DEF Mirar
      <3>2. pc' = [pc EXCEPT ![a] = "tomar"]
        BY <1>10, <2>2 DEF Mirar, Va
      <3>3. i \in Nat
        BY DEF Vivos, Asientos
      <3>4. leido' \in [Actores -> Leidos] /\ \A b \in Actores : leido'[b].g = leido[b].g
        BY <3>1, <3>3, ZenonT(60) DEF TypeOK
      <3>5. pc' \in [Actores -> {"libre"} \cup Pasos] /\ DeUnGasto'
        BY <1>10, <3>2, <3>4 DEF Mirar, TypeOK, DeUnGasto, Pasos, PasosReversa
      <3>6. QED
        BY <1>10, <3>4, <3>5 DEF Mirar, TypeOK
    <2>3. QED
      BY <2>1, <2>2
  <1>11. ASSUME NEW a \in Actores, Tomar(a) PROVE TypeOK' /\ DeUnGasto'
    <2>1. \E p \in {"libre", "buscar", "quitar", "resolver", "contra"} : Sigue(a, p)
      BY <1>11, TrasDa DEF Tomar
    <2>2. QED
      BY <1>11, <2>1, SigueDa DEF Tomar, TypeOK, Pasos, PasosBanco, PasosPosteo, PasosReversa
  <1>12. ASSUME NEW a \in Actores, Contra(a) PROVE TypeOK' /\ DeUnGasto'
    <2> DEFINE i == leido[a].asiento
    <2>1. i \in Asientos /\ i \in Nat /\ pc[a] = "contra"
      BY <1>12 DEF Contra, ReversaVale, Vale, Toman, Asientos
    <2>2. asientos[i] \in Apuntes
      BY <2>1 DEF TypeOK, Asientos
    <2>3. asientos[i].de \in Gastos /\ asientos[i].dice \in Nat
      BY <2>2 DEF Apuntes
    <2>4. asientos' \in Seq(Apuntes)
      BY <1>12, <2>1, <2>3, AnotarDa DEF Contra, TypeOK
    <2>5. \E p \in {"marcar", "reparar"} : Sigue(a, p)
      BY <1>12 DEF Contra
    <2>6. QED
      BY <1>12, <2>4, <2>5, SigueDa DEF Contra, TypeOK, Pasos, PasosReversa
  <1>13. ASSUME NEW a \in Actores, Marcar(a) PROVE TypeOK' /\ DeUnGasto'
    <2>1. marcados' \subseteq Nat
      BY <1>13 DEF Marcar, TypeOK
    <2>2. \E p \in {"libre", "buscar", "quitar", "resolver"} : Sigue(a, p)
      BY <1>13, TrasDa DEF Marcar
    <2>3. pc[a] # "libre"
      BY <1>13 DEF Marcar
    <2>4. QED
      BY <1>13, <2>1, <2>2, <2>3, SigueDa DEF Marcar, TypeOK, Pasos, PasosBanco, PasosPosteo
  <1>14. ASSUME NEW a \in Actores, FallaLibro(a) PROVE TypeOK' /\ DeUnGasto'
    <2>1. pc[a] # "libre" /\ leido[a].g \in Gastos
      BY <1>0, <1>14 DEF FallaLibro, PasosReversa, PasosPosteo
    <2>2. \E p \in {"libre", "buscar", "mover", "quitar", "resolver"} : Sigue(a, p)
      BY <1>14, TrasDa DEF FallaLibro
    <2>a. fallas' \in Nat
      BY <1>14 DEF FallaLibro, TypeOK
    <2>b. pend' = pend \/ \E o \in {"post", "reverse"} : Registra(leido[a].g, o)
      <3>1. CASE leido[a].op = "mano"
        BY <1>14, <3>1 DEF FallaLibro
      <3>2. CASE leido[a].op # "mano" /\ pc[a] \in PasosPosteo
        BY <1>14, <3>2 DEF FallaLibro
      <3>3. CASE leido[a].op # "mano" /\ pc[a] \notin PasosPosteo
        BY <1>14, <3>3 DEF FallaLibro
      <3>4. QED
        BY <3>1, <3>2, <3>3
    <2>3. pend' \in [Gastos -> SUBSET {"post", "reverse"}]
      <3>1. ASSUME NEW o \in {"post", "reverse"}, Registra(leido[a].g, o)
            PROVE  pend' \in [Gastos -> SUBSET {"post", "reverse"}]
        BY <2>1, <3>1 DEF Registra, TypeOK
      <3>2. QED
        BY <2>b, <3>1 DEF TypeOK
    <2>4. QED
      BY <1>14, <2>1, <2>2, <2>3, <2>a, SigueDa
      DEF FallaLibro, TypeOK, Pasos, PasosBanco, PasosPosteo
  <1>15. ASSUME NEW a \in Actores, Corte(a) PROVE TypeOK' /\ DeUnGasto'
    <2>a. alDia' \in [Gastos -> BOOLEAN]
      BY <1>15 DEF Corte, TypeOK
    <2>b. cortes' \in Nat
      BY <1>15 DEF Corte, TypeOK
    <2>1. CASE pc[a] = "libre"
      <3>1. leido' \in [Actores -> Leidos] /\ pc' = pc
            /\ \A b \in Actores : b # a => leido'[b] = leido[b]
        BY <1>15, <2>1 DEF Corte, Sigue, Va, TypeOK, SinLeer, Ops
      <3>2. DeUnGasto'
        BY <2>1, <3>1 DEF DeUnGasto
      <3>3. QED
        BY <1>15, <2>a, <2>b, <3>1, <3>2 DEF Corte, TypeOK
    <2>2. CASE pc[a] # "libre"
      <3>1. Sigue(a, "libre")
        BY <1>15 DEF Corte
      <3>2. QED
        BY <1>15, <2>2, <2>a, <2>b, <3>1, SigueDa DEF Corte, TypeOK
    <2>3. QED
      BY <2>1, <2>2
  <1>16. ASSUME NEW s \in Scripts, NEW g \in Gastos, Reconstruir(s, g) PROVE TypeOK' /\ DeUnGasto'
    <2> DEFINE op == Remedio(g)
    <2>1. op \in Ops
      BY RemedioDa DEF Ops
    <2>2. PICK p \in {"buscar", "resolver", "mirar"} : pc' = [pc EXCEPT ![s] = p]
      <3>1. CASE op = "reponer"
        BY <1>16, <3>1 DEF Reconstruir, Va
      <3>2. CASE op = "mirar"
        BY <1>16, <3>2 DEF Reconstruir, Va
      <3>3. CASE op \notin {"reponer", "mirar"}
        BY <1>16, <3>3 DEF Reconstruir, Va
      <3>4. QED
        BY <3>1, <3>2, <3>3
    <2> HIDE DEF op
    <2>3. Lectura(op, g, gasto[g].version, 0) \in Leidos
          /\ Lectura(op, g, gasto[g].version, 0).g = g
      BY <2>1 DEF Lectura, TypeOK
    <2>4. leido' = [leido EXCEPT ![s] = Lectura(op, g, gasto[g].version, 0)]
          /\ alDia' = [alDia EXCEPT ![g] = @ /\ ~Ocupado(g)]
      BY <1>16 DEF Reconstruir, op
    <2>5. leido' \in [Actores -> Leidos] /\ pc' \in [Actores -> {"libre"} \cup Pasos] /\ DeUnGasto'
      BY <1>a, <2>2, <2>3, <2>4 DEF TypeOK, DeUnGasto, Pasos, PasosReversa, PasosPosteo
    <2>6. alDia' \in [Gastos -> BOOLEAN]
      BY <2>4 DEF TypeOK
    <2>7. QED
      BY <1>16, <2>5, <2>6 DEF Reconstruir, TypeOK
  <1>17. ASSUME NEW s \in Scripts, Resolver(s) PROVE TypeOK' /\ DeUnGasto'
    <2>1. s \in Actores /\ pc[s] # "libre" /\ leido[s].g \in Gastos /\ Sigue(s, "libre")
      BY <1>0, <1>a, <1>17 DEF Resolver
    <2>2. PICK B : pend' = [pend EXCEPT ![leido[s].g] = @ \ B]
      BY <1>17 DEF Resolver
    <2>3. pend' \in [Gastos -> SUBSET {"post", "reverse"}]
      BY <2>1, <2>2 DEF TypeOK
    <2>4. QED
      BY <1>17, <2>1, <2>3, SigueDa DEF Resolver, TypeOK
  <1>18. CASE UNCHANGED vars
    BY <1>18 DEF vars, TypeOK, DeUnGasto
  <1>19. QED
    BY <1>1, <1>2, <1>3, <1>4, <1>5, <1>6, <1>7, <1>8, <1>9, <1>10, <1>11, <1>12, <1>13,
       <1>14,
       <1>15, <1>16, <1>17, <1>18 DEF Next
-----------------------------------------------------------------------------
(* The reversals under way *)

\* The journal keeps what it has.
Crece == Asientos \subseteq Asientos' /\ \A k \in Asientos : asientos'[k] = asientos[k]

\* In a journal that keeps what it has, an original and a counter-entry stay so.
LEMMA CreceDa ==
    ASSUME Crece, NEW i \in Asientos
    PROVE  /\ i \in Asientos'
           /\ Original(i)' <=> Original(i)
           /\ TieneContra(i) => TieneContra(i)'
  BY DEF Crece, Original, TieneContra

\* The reversals of the others go on holding what they held.
LEMMA OtrosValen ==
    ASSUME ReversaVale, Crece, NEW a \in Actores,
           \A b \in Actores : b # a => pc'[b] = pc[b] /\ leido'[b] = leido[b],
           Vale(a)'
    PROVE  ReversaVale'
  <1>1. ASSUME NEW b \in Actores, b # a PROVE Vale(b)'
    <2>1. Vale(b) /\ pc'[b] = pc[b] /\ leido'[b] = leido[b]
      BY <1>1 DEF ReversaVale
    <2>2. CASE pc[b] \in Toman
      <3>1. leido[b].asiento \in Asientos
        BY <2>1, <2>2 DEF Vale
      <3>2. /\ leido[b].asiento \in Asientos'
            /\ asientos'[leido[b].asiento] = asientos[leido[b].asiento]
            /\ \A k \in Asientos : k \in Asientos' /\ asientos'[k] = asientos[k]
        BY <3>1 DEF Crece
      <3>3. QED
        BY <2>1, <2>2, <3>2 DEF Vale, Original, TieneContra
    <2>3. CASE pc[b] \notin Toman
      BY <2>1, <2>3 DEF Vale, Toman
    <2>4. QED
      BY <2>2, <2>3
  <1>2. QED
    BY <1>1 DEF ReversaVale

\* Who goes on to a step that is not of a reversal leaves the reversals as they are.
LEMMA SigueVale ==
    ASSUME TypeOK, ReversaVale, Crece, NEW a \in Actores, NEW p \in ({"libre"} \cup Pasos) \ Toman,
           Sigue(a, p)
    PROVE  ReversaVale'
  <1>1. pc'[a] = p /\ \A b \in Actores : b # a => pc'[b] = pc[b] /\ leido'[b] = leido[b]
    BY DEF TypeOK, Sigue, Va
  <1>2. Vale(a)'
    BY <1>1 DEF Vale, Toman
  <1>3. QED
    BY <1>1, <1>2, OtrosValen

\* Who goes on with the reversal of what it read.
LEMMA SigueReversa ==
    ASSUME TypeOK, ReversaVale, Crece, NEW a \in Actores, NEW p \in Toman, Sigue(a, p),
           leido[a].asiento \in Asientos, Original(leido[a].asiento),
           p \in {"marcar", "reparar"} => TieneContra(leido[a].asiento)'
    PROVE  ReversaVale'
  <1>1. /\ pc'[a] = p /\ leido' = leido
        /\ \A b \in Actores : b # a => pc'[b] = pc[b] /\ leido'[b] = leido[b]
    BY DEF TypeOK, Sigue, Va, Toman
  <1>2. leido[a].asiento \in Asientos' /\ Original(leido[a].asiento)'
    <2>1. /\ leido[a].asiento \in Asientos'
          /\ asientos'[leido[a].asiento] = asientos[leido[a].asiento]
      BY DEF Crece
    <2>2. QED
      BY <1>1, <2>1 DEF Original
  <1>3. Vale(a)'
    BY <1>1, <1>2 DEF Vale, Original, TieneContra, Toman
  <1>4. QED
    BY <1>1, <1>3, OtrosValen

-----------------------------------------------------------------------------
(* The journal *)

\* A new original of an expense that had none alive.
LEMMA OriginalNuevo ==
    ASSUME TypeOK, Diario, NEW g \in Gastos, NEW d \in Nat, Anotar(g, d, 0), Vivos(g) = {},
           marcados' = marcados
    PROVE  Diario' /\ Crece
  <1> DEFINE n == Len(asientos) + 1
  <1>1. /\ Asientos' = Asientos \cup {n} /\ n \notin Asientos
        /\ \A k \in Asientos : asientos'[k] = asientos[k]
        /\ asientos'[n] = [de |-> g, dice |-> d, reversa |-> 0]
    BY AnotarDa
  <1>2. Crece
    BY <1>1 DEF Crece
  <1> HIDE DEF n
  <1>3. asientos'[n].reversa = 0 /\ asientos'[n].de = g
    BY <1>1
  <1>4. Orden'
    BY <1>1, <1>3 DEF Diario, Orden, Original
  <1>5. UnaReversa'
    BY <1>1, <1>3 DEF Diario, UnaReversa, Original
  <1>6. MarcadoTieneContra'
    BY <1>1 DEF Diario, MarcadoTieneContra, Original, TieneContra
  <1>7. UnVivo'
    BY <1>1, <1>3 DEF Diario, UnVivo, Original, Vivos
  <1>8. QED
    BY <1>2, <1>4, <1>5, <1>6, <1>7 DEF Diario

\* The counter-entry of an original that had none.
LEMMA ContraNueva ==
    ASSUME TypeOK, Diario, NEW i \in Asientos, Original(i), ~TieneContra(i),
           Anotar(asientos[i].de, asientos[i].dice, i), marcados' = marcados
    PROVE  Diario' /\ Crece /\ TieneContra(i)'
  <1> DEFINE n == Len(asientos) + 1
  <1>a. asientos[i] \in Apuntes /\ i \in Nat /\ i # 0 /\ i < n
    BY DEF TypeOK, Asientos
  <1>b. asientos[i].de \in Gastos /\ asientos[i].dice \in Nat
    BY <1>a DEF Apuntes
  <1>1. /\ Asientos' = Asientos \cup {n} /\ n \notin Asientos
        /\ \A k \in Asientos : asientos'[k] = asientos[k]
        /\ asientos'[n] = [de |-> asientos[i].de, dice |-> asientos[i].dice, reversa |-> i]
    BY <1>a, <1>b, AnotarDa
  <1>2. Crece
    BY <1>1 DEF Crece
  <1> HIDE DEF n
  <1>3. /\ asientos'[n].reversa = i /\ asientos'[n].de = asientos[i].de
        /\ asientos'[n].dice = asientos[i].dice
    <2> DEFINE g == asientos[i].de
               d == asientos[i].dice
    <2>1. asientos'[n] = [de |-> g, dice |-> d, reversa |-> i]
      BY <1>1
    <2> HIDE DEF g, d
    <2>2. asientos'[n].reversa = i /\ asientos'[n].de = g /\ asientos'[n].dice = d
      BY <2>1
    <2>3. QED
      BY <2>2 DEF g, d
  <1>4. Orden'
    <2> SUFFICES ASSUME NEW k \in Asientos', asientos'[k].reversa # 0
                 PROVE  LET o == asientos'[k].reversa IN
                        /\ o \in Asientos' /\ o < k /\ asientos'[o].reversa = 0
                        /\ asientos'[o].de = asientos'[k].de
                        /\ asientos'[o].dice = asientos'[k].dice
      BY DEF Orden, Original
    <2>1. CASE k = n
      BY <1>a, <1>1, <1>3, <2>1 DEF Original
    <2>2. CASE k # n
      <3> DEFINE o == asientos[k].reversa
      <3>1. k \in Asientos /\ asientos'[k] = asientos[k]
        BY <1>1, <2>2
      <3>2. /\ o \in Asientos /\ o < k /\ asientos[o].reversa = 0
            /\ asientos[o].de = asientos[k].de /\ asientos[o].dice = asientos[k].dice
        BY <3>1 DEF Diario, Orden, Original
      <3>3. QED
        BY <1>1, <3>1, <3>2
    <2>3. QED
      BY <2>1, <2>2
  <1>5. UnaReversa'
    <2>1. \A k \in Asientos : asientos'[k].reversa # i
      BY <1>1 DEF TieneContra
    <2>2. \A k, l \in Asientos : asientos'[k].reversa # 0 /\ asientos'[k].reversa = asientos'[l].reversa
                                => k = l
      BY <1>1 DEF Diario, UnaReversa, Original
    <2>3. \A k, l \in Asientos' : asientos'[k].reversa # 0 /\ asientos'[k].reversa = asientos'[l].reversa
                                => k = l
      BY <1>1, <1>3, <2>1, <2>2
    <2>4. QED
      BY <2>3 DEF UnaReversa, Original
  <1>6. MarcadoTieneContra'
    BY <1>1 DEF Diario, MarcadoTieneContra, Original, TieneContra
  <1>7. UnVivo'
    BY <1>a, <1>1, <1>3 DEF Diario, UnVivo, Original
  <1>8. TieneContra(i)'
    BY <1>1, <1>3 DEF TieneContra
  <1>9. QED
    BY <1>2, <1>4, <1>5, <1>6, <1>7, <1>8 DEF Diario

\* A journal nobody touches.
LEMMA Quieto ==
    ASSUME Diario, UNCHANGED <<asientos, marcados>>
    PROVE  Diario' /\ Crece
  BY
  DEF Diario, Orden, UnaReversa, MarcadoTieneContra, UnVivo, Crece, Asientos, Original,
      TieneContra

-----------------------------------------------------------------------------
LEMMA InvInit == Init => Inv
  <1>1. Init => TypeOK /\ DeUnGasto
    BY TiposInit
  <1>2. Init => Diario
    BY DEF Init, Diario, Orden, UnaReversa, MarcadoTieneContra, UnVivo, Asientos
  <1>3. Init => ReversaVale
    BY DEF Init, ReversaVale, Vale, Toman
  <1>4. QED
    BY <1>1, <1>2, <1>3 DEF Inv

LEMMA InvNext == Inv /\ [Next]_vars => Inv'
  <1> SUFFICES ASSUME Inv, [Next]_vars PROVE Inv'
    OBVIOUS
  <1>0. TypeOK /\ DeUnGasto /\ Diario /\ ReversaVale
    BY DEF Inv
  <1>a. Peticiones \subseteq Actores /\ Scripts \subseteq Actores
    BY DEF Actores
  <1>b. UNCHANGED <<asientos, marcados>> => Diario' /\ Crece
    BY <1>0, Quieto
  <1>1. ASSUME NEW a \in Peticiones, NEW g \in Gastos, Crear(a, g) \/ Editar(a, g) \/ Borrar(a, g)
        PROVE  Diario' /\ ReversaVale'
    <2>1. UNCHANGED <<asientos, marcados>>
      BY <1>1 DEF Crear, Editar, Borrar
    <2>2. \E p \in {"buscar", "guardar", "borrar"} :
            /\ pc' = [pc EXCEPT ![a] = p]
            /\ \A b \in Actores : b # a => leido'[b] = leido[b]
      BY <1>0, <1>1 DEF Crear, Editar, Borrar, Empieza, Va, TypeOK
    <2>3. Vale(a)' /\ \A b \in Actores : b # a => pc'[b] = pc[b] /\ leido'[b] = leido[b]
      BY <1>0, <1>a, <2>2 DEF Vale, Toman, TypeOK
    <2>4. QED
      BY <1>0, <1>a, <1>b, <2>1, <2>3, OtrosValen
  <1>2. ASSUME NEW a \in Peticiones, Guardar(a) PROVE Diario' /\ ReversaVale'
    <2>1. UNCHANGED <<asientos, marcados>>
      BY <1>2 DEF Guardar
    <2>2. \E p \in {"mirar", "libre"} : pc' = [pc EXCEPT ![a] = p]
      BY <1>2 DEF Guardar, TrasGuardar, Sigue, Va
    <2>3. \A b \in Actores : b # a => leido'[b] = leido[b]
      BY <1>0, <1>2 DEF Guardar, Sigue, TypeOK
    <2>4. Vale(a)' /\ \A b \in Actores : b # a => pc'[b] = pc[b] /\ leido'[b] = leido[b]
      BY <1>0, <1>a, <2>2, <2>3 DEF Vale, Toman, TypeOK
    <2>5. QED
      BY <1>0, <1>a, <1>b, <2>1, <2>4, OtrosValen
  <1>3. ASSUME NEW a \in Peticiones,
               Borrado(a) \/ Quitar(a) \/ Mover(a) \/ FallaBanco(a)
        PROVE  Diario' /\ ReversaVale'
    <2>1. UNCHANGED <<asientos, marcados>>
      BY <1>3 DEF Borrado, Quitar, Mover, FallaBanco
    <2>2. \E p \in {"mirar", "libre", "mover"} : Sigue(a, p)
      BY <1>3 DEF Borrado, Quitar, Mover, FallaBanco
    <2>3. QED
      BY <1>0, <1>a, <1>b, <2>1, <2>2, SigueVale
         DEF Toman, Pasos, PasosReversa, PasosBanco
  <1>4. ASSUME NEW a \in Peticiones, NEW i \in Asientos, AMano(a, i) PROVE Diario' /\ ReversaVale'
    <2>1. UNCHANGED <<asientos, marcados>> /\ Original(i) /\ i \in Nat
      BY <1>4 DEF AMano, Asientos
    <2>2. /\ pc' = [pc EXCEPT ![a] = "tomar"]
          /\ leido' = [leido EXCEPT ![a] = Lectura("mano", asientos[i].de, 0, i)]
      BY <1>4 DEF AMano, Va
    <2>3. /\ pc'[a] = "tomar" /\ leido'[a].asiento = i
          /\ \A b \in Actores : b # a => pc'[b] = pc[b] /\ leido'[b] = leido[b]
      BY <1>0, <1>a, <2>2 DEF TypeOK, Lectura
    <2>4. Vale(a)'
      BY <2>1, <2>3 DEF Vale, Original, Asientos
    <2>5. QED
      BY <1>0, <1>a, <1>b, <2>1, <2>3, <2>4, OtrosValen
  <1>5. ASSUME NEW a \in Actores, Buscar(a) PROVE Diario' /\ ReversaVale'
    <2>1. UNCHANGED <<asientos, marcados>>
      BY <1>5 DEF Buscar
    <2>2. \E p \in {"mover", "quitar", "resolver", "postear"} : Sigue(a, p)
      BY <1>0, <1>5, TrasDa DEF Buscar
    <2>3. QED
      BY <1>0, <1>b, <2>1, <2>2, SigueVale DEF Toman, Pasos, PasosBanco, PasosPosteo
  <1>6. ASSUME NEW a \in Actores, Postear(a) PROVE Diario' /\ ReversaVale'
    <2>1. leido[a].g \in Gastos /\ leido[a].version \in Nat
      BY <1>0, <1>6 DEF Postear, DeUnGasto, TypeOK
    <2>2. Diario' /\ Crece
      <3>1. CASE Vivos(leido[a].g) = {}
        BY <1>0, <1>6, <2>1, <3>1, OriginalNuevo DEF Postear
      <3>2. CASE Vivos(leido[a].g) # {}
        BY <1>6, <1>b, <3>2 DEF Postear
      <3>3. QED
        BY <3>1, <3>2
    <2>3. \E p \in {"mover", "quitar", "resolver"} : Sigue(a, p)
      BY <1>0, <1>6, TrasDa DEF Postear
    <2>4. QED
      BY <1>0, <2>2, <2>3, SigueVale DEF Toman, Pasos, PasosBanco
  <1>7. ASSUME NEW a \in Actores, Mirar(a) PROVE Diario' /\ ReversaVale'
    <2>1. UNCHANGED <<asientos, marcados>>
      BY <1>7 DEF Mirar
    <2>2. CASE Vivos(leido[a].g) = {}
      <3>1. \E p \in {"libre", "buscar", "quitar", "resolver"} : Sigue(a, p)
        BY <1>0, <1>7, <2>2, TrasDa DEF Mirar
      <3>2. QED
        BY <1>0, <1>b, <2>1, <3>1, SigueVale DEF Toman, Pasos, PasosBanco, PasosPosteo
    <2>3. CASE Vivos(leido[a].g) # {}
      <3>1. PICK i \in Vivos(leido[a].g) : leido' = [leido EXCEPT ![a].asiento = i]
        BY <1>7, <2>3 DEF Mirar
      <3>2. pc' = [pc EXCEPT ![a] = "tomar"]
        BY <1>7, <2>3 DEF Mirar, Va
      <3>3. i \in Asientos /\ Original(i)
        BY DEF Vivos
      <3>4. /\ pc'[a] = "tomar" /\ leido'[a].asiento = i
            /\ \A b \in Actores : b # a => pc'[b] = pc[b] /\ leido'[b] = leido[b]
        BY <1>0, <3>1, <3>2 DEF TypeOK
      <3>5. Vale(a)'
        BY <2>1, <3>3, <3>4 DEF Vale, Original, Asientos
      <3>6. QED
        BY <1>0, <1>b, <2>1, <3>4, <3>5, OtrosValen
    <2>4. QED
      BY <2>2, <2>3
  <1>8. ASSUME NEW a \in Actores, Tomar(a) PROVE Diario' /\ ReversaVale'
    <2>1. UNCHANGED <<asientos, marcados>> /\ pc[a] = "tomar"
      BY <1>8 DEF Tomar
    <2>2. CASE leido[a].asiento \in marcados
      <3>1. \E p \in {"libre", "buscar", "quitar", "resolver"} : Sigue(a, p)
        BY <1>0, <1>8, <2>2, TrasDa DEF Tomar
      <3>2. QED
        BY <1>0, <1>b, <2>1, <3>1, SigueVale DEF Toman, Pasos, PasosBanco, PasosPosteo
    <2>3. CASE leido[a].asiento \notin marcados
      <3>1. leido[a].asiento \in Asientos /\ Original(leido[a].asiento)
        BY <1>0, <2>1 DEF ReversaVale, Vale, Toman
      <3>2. Sigue(a, "contra")
        BY <1>8, <2>3 DEF Tomar
      <3>3. "contra" \in Toman /\ "contra" \notin {"marcar", "reparar"}
        BY DEF Toman
      <3>4. QED
        BY <1>0, <1>b, <2>1, <3>1, <3>2, <3>3, SigueReversa
    <2>4. QED
      BY <2>2, <2>3
  <1>9. ASSUME NEW a \in Actores, Contra(a) PROVE Diario' /\ ReversaVale'
    <2> DEFINE i == leido[a].asiento
    <2>1. i \in Asientos /\ Original(i)
      BY <1>0, <1>9 DEF Contra, ReversaVale, Vale, Toman
    <2>2. CASE TieneContra(i)
      <3>1. UNCHANGED <<asientos, marcados>> /\ Sigue(a, "reparar")
        BY <1>9, <2>2 DEF Contra
      <3>2. Crece /\ TieneContra(i)'
        <4>1. \E j \in Asientos' : asientos'[j].reversa = i
          BY <2>2, <3>1 DEF TieneContra, Asientos
        <4>2. leido' = leido
          BY <3>1 DEF Sigue
        <4>3. QED
          BY <1>b, <3>1, <4>1, <4>2 DEF TieneContra
      <3>3. QED
        BY <1>0, <1>b, <2>1, <3>1, <3>2, SigueReversa DEF Toman
    <2>3. CASE ~TieneContra(i)
      <3>1. Anotar(asientos[i].de, asientos[i].dice, i) /\ marcados' = marcados /\ Sigue(a, "marcar")
        BY <1>9, <2>3 DEF Contra
      <3>2. leido' = leido
        BY <3>1 DEF Sigue
      <3> HIDE DEF i
      <3>3. PICK k \in Asientos : k = i
        BY <2>1
      <3>4. Diario' /\ Crece /\ TieneContra(k)'
        BY <1>0, <2>1, <2>3, <3>1, <3>3, ContraNueva
      <3>5. TieneContra(i)'
        BY <3>2, <3>3, <3>4 DEF i, TieneContra
      <3>6. QED
        BY <1>0, <2>1, <3>1, <3>4, <3>5, SigueReversa DEF Toman, i
    <2>4. QED
      BY <2>2, <2>3
  <1>10. ASSUME NEW a \in Actores, Marcar(a) PROVE Diario' /\ ReversaVale'
    <2> DEFINE i == leido[a].asiento
    <2>1. i \in Asientos /\ Original(i) /\ TieneContra(i)
      BY <1>0, <1>10 DEF Marcar, ReversaVale, Vale, Toman
    <2>2. marcados' = marcados \cup {i} /\ asientos' = asientos
      BY <1>10 DEF Marcar
    <2> HIDE DEF i
    <2>3. Crece
      BY <2>2 DEF Crece, Asientos
    <2>4. MarcadoTieneContra'
      BY <1>0, <2>1, <2>2 DEF Diario, MarcadoTieneContra, Asientos, Original, TieneContra
    <2>5. Orden' /\ UnaReversa' /\ UnVivo'
      BY <1>0, <2>2 DEF Diario, Orden, UnaReversa, UnVivo, Asientos, Original
    <2>6. \E p \in {"libre", "buscar", "quitar", "resolver"} : Sigue(a, p)
      BY <1>0, <1>10, TrasDa DEF Marcar
    <2>7. ReversaVale'
      BY <1>0, <2>3, <2>6, SigueVale DEF Toman, Pasos, PasosBanco, PasosPosteo
    <2>8. QED
      BY <2>4, <2>5, <2>7 DEF Diario
  <1>11. ASSUME NEW a \in Actores, FallaLibro(a) PROVE Diario' /\ ReversaVale'
    <2>1. UNCHANGED <<asientos, marcados>>
      BY <1>11 DEF FallaLibro
    <2>2. \E p \in {"libre", "buscar", "mover", "quitar", "resolver"} : Sigue(a, p)
      BY <1>0, <1>11, TrasDa DEF FallaLibro
    <2>3. QED
      BY <1>0, <1>b, <2>1, <2>2, SigueVale DEF Toman, Pasos, PasosBanco, PasosPosteo
  <1>12. ASSUME NEW a \in Actores, Corte(a) PROVE Diario' /\ ReversaVale'
    <2>1. UNCHANGED <<asientos, marcados>> /\ Sigue(a, "libre")
      BY <1>12 DEF Corte
    <2>2. QED
      BY <1>0, <1>b, <2>1, SigueVale DEF Toman
  <1>13. ASSUME NEW s \in Scripts, NEW g \in Gastos, Reconstruir(s, g) PROVE Diario' /\ ReversaVale'
    <2> DEFINE op == Remedio(g)
    <2>1. \E p \in {"buscar", "resolver", "mirar"} : pc' = [pc EXCEPT ![s] = p]
      <3>1. CASE op = "reponer"
        BY <1>13, <3>1 DEF Reconstruir, Va
      <3>2. CASE op = "mirar"
        BY <1>13, <3>2 DEF Reconstruir, Va
      <3>3. CASE op \notin {"reponer", "mirar"}
        BY <1>13, <3>3 DEF Reconstruir, Va
      <3>4. QED
        BY <3>1, <3>2, <3>3
    <2> HIDE DEF op
    <2>2. UNCHANGED <<asientos, marcados>>
      BY <1>13 DEF Reconstruir
    <2>3. \A b \in Actores : b # s => leido'[b] = leido[b]
      BY <1>0, <1>13 DEF Reconstruir, TypeOK
    <2>4. Vale(s)' /\ \A b \in Actores : b # s => pc'[b] = pc[b] /\ leido'[b] = leido[b]
      BY <1>0, <1>a, <2>1, <2>3 DEF Vale, Toman, TypeOK
    <2>5. QED
      BY <1>0, <1>a, <1>b, <2>2, <2>4, OtrosValen
  <1>14. ASSUME NEW s \in Scripts, Resolver(s) PROVE Diario' /\ ReversaVale'
    <2>1. UNCHANGED <<asientos, marcados>> /\ Sigue(s, "libre")
      BY <1>14 DEF Resolver
    <2>2. QED
      BY <1>0, <1>a, <1>b, <2>1, SigueVale DEF Toman
  <1>15. ASSUME UNCHANGED vars PROVE Diario' /\ ReversaVale'
    <2>1. UNCHANGED <<asientos, marcados, pc, leido>>
      BY <1>15 DEF vars
    <2>2. ReversaVale'
      BY <1>0, <2>1 DEF ReversaVale, Vale, Asientos, Original, TieneContra
    <2>3. QED
      BY <1>b, <2>1, <2>2
  <1>16. Diario' /\ ReversaVale'
    BY <1>1, <1>2, <1>3, <1>4, <1>5, <1>6, <1>7, <1>8, <1>9, <1>10, <1>11, <1>12, <1>13,
       <1>14,
       <1>15 DEF Next
  <1>17. QED
    BY <1>0, <1>16, TiposNext DEF Inv

-----------------------------------------------------------------------------
LEMMA InvSiempre == Spec => []Inv
  BY InvInit, InvNext, PTL DEF Spec

\* The parts of the invariant leave an expense one entry at most that counts.
LEMMA UnSoloEfectoDeInv == Inv => UnSoloEfecto
  <1> SUFFICES ASSUME Inv PROVE UnSoloEfecto
    OBVIOUS
  <1>1. Orden /\ UnaReversa /\ MarcadoTieneContra /\ UnVivo
    BY DEF Inv, Diario
  <1>2. ASSUME NEW g \in Gastos, NEW i \in SinCancelar(g), NEW j \in SinCancelar(g)
        PROVE  i = j
    BY <1>1 DEF SinCancelar, MarcadoTieneContra, UnVivo
  <1>3. \A i \in Asientos : ~Original(i) =>
          LET o == asientos[i].reversa IN
          /\ o < i /\ Original(o)
          /\ asientos[o].de = asientos[i].de /\ asientos[o].dice = asientos[i].dice
    BY <1>1 DEF Orden, Original
  <1>4. \A g \in Gastos : \A i, j \in SinCancelar(g) : i = j
    BY <1>2
  <1>5. \A i, j \in Asientos : ~Original(i) /\ asientos[i].reversa = asientos[j].reversa => i = j
    BY <1>1 DEF UnaReversa, Original
  <1>6. QED
    BY <1>3, <1>4, <1>5 DEF UnSoloEfecto, Original

\* Every variable keeps its type, whatever fails and whoever is killed.
THEOREM TiposSiempre == Spec => []TypeOK
  <1>1. Inv => TypeOK
    BY DEF Inv
  <1>2. QED
    BY <1>1, InvSiempre, PTL

\* An expense counts once in the ledger: at most one of its originals has no
\* counter-entry, no original has two, and a counter-entry says what its original
\* said, whoever races, fails or is killed between the two writes of reverse
\* (the indexes of journal-entry.indices.ts).
THEOREM UnSoloEfectoSiempre == Spec => []UnSoloEfecto
  BY InvSiempre, UnSoloEfectoDeInv, PTL


-----------------------------------------------------------------------------
(* What each step of the work on an expense has done when nobody else is at it *)

Trabaja(a, g) == pc[a] # "libre" /\ leido[a].g = g
Vive(g) == gasto[g].estado = "vivo"

\* The steps of each operation.
OpsScript == {"rehacer", "reponer", "retirar", "mirar"}
Ruta(op) ==
    CASE op = "crear" -> PasosPosteo \cup {"mover"}
      [] op = "editar" -> {"guardar"} \cup PasosReversa \cup PasosPosteo \cup PasosBanco
      [] op = "borrar" -> {"borrar", "quitar"} \cup PasosReversa
      [] op = "mano" -> Toman
      [] op = "rehacer" -> PasosReversa \cup PasosPosteo \cup {"resolver"}
      [] op = "reponer" -> PasosPosteo \cup {"resolver"}
      [] op = "retirar" -> PasosReversa \cup {"resolver"}
      [] OTHER -> {"resolver"}

\* Who is at work is at a step of its operation, and reverses an entry of its expense.
EnRuta(a) ==
    pc[a] # "libre" =>
        /\ pc[a] \in Ruta(leido[a].op)
        /\ leido[a].op \in OpsScript => a \in Scripts
        /\ pc[a] \in Toman => asientos[leido[a].asiento].de = leido[a].g
RutaVale == \A a \in Actores : EnRuta(a)

\* Nothing is known of an expense that was not created.
Desconocido(g) ==
    gasto[g].estado = "no" =>
        /\ \A i \in Asientos : asientos[i].de # g
        /\ banco[g] = 0 /\ \A a \in Actores : ~Trabaja(a, g)
SinRegistro == \A g \in Gastos : Desconocido(g)

\* The live entry says what the expense says.
Sirve(g) == \E i \in Vivos(g) : asientos[i].dice = gasto[g].version /\ ~TieneContra(i)
BancoAlDia(g) == banco[g] = IF Vive(g) THEN gasto[g].version ELSE 0

\* The ledger of an expense is right, or what it lacks is pending: its reversal while an
\* entry lives, its posting while none does.
Anotado(g) ==
    IF Vive(g) THEN \/ Sirve(g)
                    \/ Vivos(g) # {} /\ "reverse" \in pend[g]
                    \/ Vivos(g) = {} /\ "post" \in pend[g]
               ELSE Vivos(g) = {} \/ "reverse" \in pend[g]

\* What the script leaves: only a posting can be missing.
Remediado(g) ==
    IF Vive(g) THEN Sirve(g) \/ (Vivos(g) = {} /\ "post" \in pend[g])
               ELSE Vivos(g) = {}

\* What holds of the expense at each step of who works on it alone.
Tarea(a, g) ==
    /\ leido[a].op # "mano"
    /\ leido[a].op \in {"crear", "editar", "rehacer", "reponer"} =>
         Vive(g) /\ (pc[a] # "guardar" => leido[a].version = gasto[g].version)
    /\ leido[a].op = "retirar" => ~Vive(g)
    /\ leido[a].op = "borrar" /\ pc[a] # "borrar" => ~Vive(g)
    /\ leido[a].op \in OpsScript => BancoAlDia(g)
    /\ leido[a].op = "crear" \/ pc[a] = "mover" => banco[g] = 0
    /\ pc[a] \in Toman => leido[a].asiento \in Vivos(g)
    /\ pc[a] = "buscar" =>
         Vivos(g) = {} \/ (leido[a].op = "editar" /\ "reverse" \in pend[g])
    /\ pc[a] = "postear" => Vivos(g) = {}
    /\ pc[a] \in PasosBanco => Anotado(g)
    /\ pc[a] = "resolver" => Remediado(g)

AlDia(g) ==
    alDia[g] =>
        /\ \A a \in Actores : Trabaja(a, g) =>
              Tarea(a, g) /\ \A b \in Actores : Trabaja(b, g) => b = a
        /\ (\A a \in Actores : ~Trabaja(a, g)) => Anotado(g) /\ BancoAlDia(g)
AlDiaVale == \A g \in Gastos : AlDia(g)

LEMMA LibroDeAlDia == Inv /\ AlDiaVale => LibroAlDia
  <1> SUFFICES ASSUME Inv, AlDiaVale, NEW g \in Gastos, ~Ocupado(g), alDia[g]
               PROVE  /\ Corriente(g) \/ pend[g] # {}
                      /\ banco[g] = IF gasto[g].estado = "vivo" THEN gasto[g].version ELSE 0
    BY DEF LibroAlDia
  <1>1. Anotado(g) /\ BancoAlDia(g)
    BY DEF AlDiaVale, AlDia, Ocupado, Trabaja
  <1>2. SinCancelar(g) \subseteq Vivos(g)
    BY DEF Inv, Diario, MarcadoTieneContra, SinCancelar, Vivos
  <1>3. Sirve(g) =>
          \E i \in SinCancelar(g) : asientos[i].dice = gasto[g].version /\ i \in Vivos(g)
    BY DEF Sirve, SinCancelar, Vivos
  <1>4. QED
    BY <1>1, <1>2, <1>3 DEF Anotado, BancoAlDia, Vive, Corriente

-----------------------------------------------------------------------------
(* Who works on one expense leaves the others alone *)

MismoLibro(h) ==
    /\ Vivos(h)' = Vivos(h)
    /\ \A i \in Vivos(h) : asientos'[i] = asientos[i] /\ (TieneContra(i)' <=> TieneContra(i))

Aparte(a, g) ==
    /\ \A i \in Asientos' : i \notin Asientos => asientos'[i].de = g
    /\ \A b \in Actores : b # a => pc'[b] = pc[b] /\ leido'[b] = leido[b]
    /\ pc'[a] # "libre" => leido'[a].g = g
    /\ \A h \in Gastos : h # g =>
          /\ gasto'[h] = gasto[h] /\ banco'[h] = banco[h] /\ pend'[h] = pend[h]
          /\ alDia'[h] = alDia[h] /\ MismoLibro(h)

LEMMA MismoDa ==
    ASSUME NEW h, MismoLibro(h), gasto'[h] = gasto[h], pend'[h] = pend[h]
    PROVE  /\ Vive(h)' <=> Vive(h)
           /\ Sirve(h)' <=> Sirve(h)
           /\ Vivos(h)' = Vivos(h)
           /\ Anotado(h)' <=> Anotado(h)
           /\ Remediado(h)' <=> Remediado(h)
           /\ banco'[h] = banco[h] => (BancoAlDia(h)' <=> BancoAlDia(h))
  <1>1. Vive(h)' <=> Vive(h)
    BY DEF Vive
  <1>2. Sirve(h)' <=> Sirve(h)
    BY DEF Sirve, MismoLibro
  <1>3. Vivos(h)' = Vivos(h)
    BY DEF MismoLibro
  <1>4. Anotado(h)' <=> Anotado(h)
    BY <1>1, <1>2, <1>3 DEF Anotado
  <1>5. Remediado(h)' <=> Remediado(h)
    BY <1>1, <1>2, <1>3 DEF Remediado
  <1>6. QED
    BY <1>1, <1>2, <1>3, <1>4, <1>5 DEF BancoAlDia

LEMMA TareaIgual ==
    ASSUME NEW b, NEW h, pc'[b] = pc[b], leido'[b] = leido[b],
           MismoLibro(h), gasto'[h] = gasto[h], pend'[h] = pend[h], banco'[h] = banco[h]
    PROVE  Tarea(b, h)' <=> Tarea(b, h)
  <1>1. Vivos(h)' = Vivos(h)
    BY DEF MismoLibro
  <1>2. QED
    BY <1>1, MismoDa DEF Tarea

LEMMA OtrosGastos ==
    ASSUME AlDiaVale, NEW a \in Actores, NEW g \in Gastos, Aparte(a, g),
           pc[a] = "libre" \/ leido[a].g = g, NEW h \in Gastos, h # g
    PROVE  AlDia(h)'
  <1>1. \A b \in Actores : Trabaja(b, h)' <=> Trabaja(b, h)
    BY DEF Trabaja, Aparte
  <1>2. \A b \in Actores : Trabaja(b, h) => b # a
    BY DEF Trabaja
  <1>3. \A b \in Actores : Trabaja(b, h) => (Tarea(b, h)' <=> Tarea(b, h))
    BY <1>2, TareaIgual DEF Aparte
  <1>4. (Anotado(h)' <=> Anotado(h)) /\ (BancoAlDia(h)' <=> BancoAlDia(h))
    BY MismoDa DEF Aparte
  <1>5. AlDia(h) /\ alDia'[h] = alDia[h]
    BY DEF AlDiaVale, Aparte
  <1>6. QED
    BY <1>1, <1>3, <1>4, <1>5 DEF AlDia

\* Who goes on alone leaves its expense as the next step of its operation says.
LEMMA ObraVale ==
    ASSUME AlDiaVale, NEW a \in Actores, NEW g \in Gastos, Aparte(a, g), Trabaja(a, g),
           alDia'[g] => alDia[g],
           alDia'[g] /\ Tarea(a, g) =>
             IF pc'[a] = "libre" THEN Anotado(g)' /\ BancoAlDia(g)' ELSE Tarea(a, g)'
    PROVE  AlDiaVale'
  <1>1. ASSUME alDia'[g] PROVE AlDia(g)'
    <2>1. Tarea(a, g) /\ \A b \in Actores : Trabaja(b, g) => b = a
      BY <1>1 DEF AlDiaVale, AlDia
    <2>2. \A b \in Actores : Trabaja(b, g)' => b = a /\ pc'[a] # "libre"
      BY <2>1 DEF Aparte, Trabaja
    <2>3. CASE pc'[a] = "libre"
      BY <1>1, <2>1, <2>2, <2>3 DEF AlDia
    <2>4. CASE pc'[a] # "libre"
      <3>1. Trabaja(a, g)' /\ Tarea(a, g)'
        BY <1>1, <2>1, <2>4 DEF Aparte, Trabaja
      <3>2. QED
        BY <2>2, <3>1 DEF AlDia
    <2>5. QED
      BY <2>3, <2>4
  <1>2. \A h \in Gastos : h # g => AlDia(h)'
    BY OtrosGastos DEF Trabaja
  <1>3. QED
    BY <1>1, <1>2 DEF AlDiaVale, AlDia

LEMMA ArrancaVale ==
    ASSUME AlDiaVale, NEW a \in Actores, NEW g \in Gastos, Aparte(a, g), pc[a] = "libre",
           alDia'[g] => ~Ocupado(g) /\ pc'[a] # "libre" /\ Tarea(a, g)'
    PROVE  AlDiaVale'
  <1>1. ASSUME alDia'[g] PROVE AlDia(g)'
    <2>1. \A b \in Actores : Trabaja(b, g)' => b = a
      BY <1>1 DEF Aparte, Trabaja, Ocupado
    <2>2. Trabaja(a, g)' /\ Tarea(a, g)'
      BY <1>1 DEF Aparte, Trabaja
    <2>3. QED
      BY <2>1, <2>2 DEF AlDia
  <1>2. \A h \in Gastos : h # g => AlDia(h)'
    BY OtrosGastos
  <1>3. QED
    BY <1>1, <1>2 DEF AlDiaVale, AlDia


-----------------------------------------------------------------------------
(* The operations and their steps *)

LEMMA RutaDa ==
    /\ Ruta("crear") = {"buscar", "postear", "mover"}
    /\ Ruta("editar") = {"guardar"} \cup PasosReversa \cup PasosPosteo \cup PasosBanco
    /\ Ruta("borrar") = {"borrar", "quitar"} \cup PasosReversa
    /\ Ruta("mano") = Toman
    /\ Ruta("rehacer") = PasosReversa \cup PasosPosteo \cup {"resolver"}
    /\ Ruta("reponer") = PasosPosteo \cup {"resolver"}
    /\ Ruta("retirar") = PasosReversa \cup {"resolver"}
    /\ Ruta("mirar") = {"resolver"}
  BY DEF Ruta, PasosPosteo

\* Each step belongs to some operations.
LEMMA OpDe ==
    ASSUME TypeOK, NEW a \in Actores, EnRuta(a), pc[a] # "libre"
    PROVE  /\ pc[a] = "guardar" => leido[a].op = "editar"
           /\ pc[a] = "borrar" => leido[a].op = "borrar"
           /\ pc[a] \in PasosReversa =>
                leido[a].op \in {"editar", "borrar", "mano", "rehacer", "retirar"}
           /\ pc[a] \in PasosPosteo => leido[a].op \in {"crear", "editar", "rehacer", "reponer"}
           /\ pc[a] = "quitar" => leido[a].op \in {"editar", "borrar"}
           /\ pc[a] = "mover" => leido[a].op \in {"crear", "editar"}
           /\ pc[a] = "resolver" => leido[a].op \in OpsScript
  <1>1. leido[a].op \in Ops /\ pc[a] \in Ruta(leido[a].op)
    BY DEF TypeOK, EnRuta
  <1> DEFINE op == leido[a].op
             p == pc[a]
  <1>2. op \in Ops /\ p \in Ruta(op)
    BY <1>1
  <1> HIDE DEF op, p
  <1>3. /\ p = "guardar" => op = "editar"
        /\ p = "borrar" => op = "borrar"
        /\ p \in PasosReversa => op \in {"editar", "borrar", "mano", "rehacer", "retirar"}
        /\ p \in PasosPosteo => op \in {"crear", "editar", "rehacer", "reponer"}
        /\ p = "quitar" => op \in {"editar", "borrar"}
        /\ p = "mover" => op \in {"crear", "editar"}
        /\ p = "resolver" => op \in OpsScript
    BY <1>2, RutaDa, SMTT(30) DEF Ops, OpsScript, PasosReversa, PasosPosteo, PasosBanco, Toman
  <1>4. QED
    BY <1>3 DEF op, p

\* Where each operation goes on after a reversal and after a posting.
LEMMA TrasOp ==
    ASSUME NEW a \in Actores
    PROVE  /\ TrasReversar(a) =>
                /\ leido[a].op \in {"editar", "rehacer"} => Sigue(a, "buscar")
                /\ leido[a].op = "borrar" => Sigue(a, "quitar")
                /\ leido[a].op = "retirar" => Sigue(a, "resolver")
                /\ leido[a].op = "mano" => Sigue(a, "libre")
           /\ TrasPostear(a) =>
                /\ leido[a].op = "crear" => Sigue(a, "mover")
                /\ leido[a].op = "editar" => Sigue(a, "quitar")
                /\ leido[a].op \in {"rehacer", "reponer"} => Sigue(a, "resolver")
  <1>1. ASSUME TrasReversar(a)
        PROVE  /\ leido[a].op \in {"editar", "rehacer"} => Sigue(a, "buscar")
               /\ leido[a].op = "borrar" => Sigue(a, "quitar")
               /\ leido[a].op = "retirar" => Sigue(a, "resolver")
               /\ leido[a].op = "mano" => Sigue(a, "libre")
    <2>1. CASE leido[a].op \in {"editar", "rehacer"}
      BY <1>1, <2>1 DEF TrasReversar
    <2>2. CASE leido[a].op = "borrar"
      BY <1>1, <2>2 DEF TrasReversar
    <2>3. CASE leido[a].op = "retirar"
      BY <1>1, <2>3 DEF TrasReversar
    <2>4. CASE leido[a].op = "mano"
      BY <1>1, <2>4 DEF TrasReversar
    <2>5. CASE leido[a].op \notin {"editar", "rehacer", "borrar", "retirar", "mano"}
      BY <2>5
    <2>6. QED
      BY <2>1, <2>2, <2>3, <2>4, <2>5
  <1>2. ASSUME TrasPostear(a)
        PROVE  /\ leido[a].op = "crear" => Sigue(a, "mover")
               /\ leido[a].op = "editar" => Sigue(a, "quitar")
               /\ leido[a].op \in {"rehacer", "reponer"} => Sigue(a, "resolver")
    <2>1. CASE leido[a].op = "crear"
      BY <1>2, <2>1 DEF TrasPostear
    <2>2. CASE leido[a].op = "editar"
      BY <1>2, <2>2 DEF TrasPostear
    <2>3. CASE leido[a].op \notin {"crear", "editar"}
      BY <1>2, <2>3 DEF TrasPostear
    <2>4. QED
      BY <2>1, <2>2, <2>3
  <1>3. QED
    BY <1>1, <1>2

LEMMA TrasRuta ==
    ASSUME TypeOK, NEW a \in Actores, EnRuta(a), pc[a] # "libre"
    PROVE  /\ TrasReversar(a) /\ pc[a] \in PasosReversa =>
                \E p \in {"libre", "buscar", "quitar", "resolver"} :
                    Sigue(a, p) /\ (p # "libre" => p \in Ruta(leido[a].op))
           /\ TrasPostear(a) /\ pc[a] \in PasosPosteo =>
                \E p \in {"mover", "quitar", "resolver"} :
                    Sigue(a, p) /\ p \in Ruta(leido[a].op)
  <1>1. /\ "buscar" \in Ruta("editar") /\ "buscar" \in Ruta("rehacer")
        /\ "quitar" \in Ruta("borrar") /\ "quitar" \in Ruta("editar")
        /\ "resolver" \in Ruta("retirar") /\ "resolver" \in Ruta("rehacer")
        /\ "resolver" \in Ruta("reponer") /\ "mover" \in Ruta("crear")
    BY RutaDa DEF PasosPosteo, PasosBanco
  <1>2. ASSUME TrasReversar(a), pc[a] \in PasosReversa
        PROVE  \E p \in {"libre", "buscar", "quitar", "resolver"} :
                   Sigue(a, p) /\ (p # "libre" => p \in Ruta(leido[a].op))
    <2>1. leido[a].op \in {"editar", "borrar", "mano", "rehacer", "retirar"}
      BY <1>2, OpDe
    <2>2. CASE leido[a].op \in {"editar", "rehacer"}
      BY <1>1, <1>2, <2>2, TrasOp
    <2>3. CASE leido[a].op = "borrar"
      BY <1>1, <1>2, <2>3, TrasOp
    <2>4. CASE leido[a].op = "retirar"
      BY <1>1, <1>2, <2>4, TrasOp
    <2>5. CASE leido[a].op = "mano"
      BY <1>2, <2>5, TrasOp
    <2>6. QED
      BY <2>1, <2>2, <2>3, <2>4, <2>5
  <1>3. ASSUME TrasPostear(a), pc[a] \in PasosPosteo
        PROVE  \E p \in {"mover", "quitar", "resolver"} : Sigue(a, p) /\ p \in Ruta(leido[a].op)
    <2>1. leido[a].op \in {"crear", "editar", "rehacer", "reponer"}
      BY <1>3, OpDe
    <2>2. CASE leido[a].op = "crear"
      BY <1>1, <1>3, <2>2, TrasOp
    <2>3. CASE leido[a].op = "editar"
      BY <1>1, <1>3, <2>3, TrasOp
    <2>4. CASE leido[a].op \in {"rehacer", "reponer"}
      BY <1>1, <1>3, <2>4, TrasOp
    <2>5. QED
      BY <2>1, <2>2, <2>3, <2>4
  <1>4. QED
    BY <1>2, <1>3

\* The journal only grows.
LEMMA SiempreCrece ==
    ASSUME TypeOK, DeUnGasto, ReversaVale, [Next]_vars
    PROVE  Crece
  <1>1. asientos' = asientos => Crece
    BY DEF Crece, Asientos
  <1>2. ASSUME NEW a \in Actores, Postear(a) PROVE Crece
    <2>1. leido[a].g \in Gastos /\ leido[a].version \in Nat
      BY <1>2 DEF Postear, DeUnGasto, TypeOK
    <2>2. CASE Vivos(leido[a].g) = {}
      <3>1. Anotar(leido[a].g, leido[a].version, 0)
        BY <1>2, <2>2 DEF Postear
      <3>2. QED
        BY <2>1, <3>1, AnotarDa DEF Crece
    <2>3. CASE Vivos(leido[a].g) # {}
      BY <1>1, <1>2, <2>3 DEF Postear
    <2>4. QED
      BY <2>2, <2>3
  <1>3. ASSUME NEW a \in Actores, Contra(a) PROVE Crece
    <2> DEFINE i == leido[a].asiento
    <2>1. i \in Asientos
      BY <1>3 DEF Contra, ReversaVale, Vale, Toman
    <2>2. i \in Nat /\ asientos[i].de \in Gastos /\ asientos[i].dice \in Nat
      <3> HIDE DEF i
      <3>1. asientos[i] \in Apuntes /\ i \in Nat
        BY <2>1 DEF TypeOK, Asientos
      <3>2. QED
        BY <3>1 DEF Apuntes
    <2>3. CASE TieneContra(i)
      BY <1>1, <1>3, <2>3 DEF Contra
    <2>4. CASE ~TieneContra(i)
      <3>1. Anotar(asientos[i].de, asientos[i].dice, i)
        BY <1>3, <2>4 DEF Contra
      <3> HIDE DEF i
      <3>2. QED
        BY <2>2, <3>1, AnotarDa DEF Crece
    <2>5. QED
      BY <2>3, <2>4
  <1>4. ASSUME NEW a \in Actores,
               \/ Buscar(a) \/ Mirar(a) \/ Tomar(a) \/ Marcar(a) \/ FallaLibro(a) \/ Corte(a)
               \/ Guardar(a) \/ Borrado(a) \/ Quitar(a) \/ Mover(a) \/ FallaBanco(a) \/ Resolver(a)
        PROVE  Crece
    BY <1>1, <1>4
    DEF Buscar, Mirar, Tomar, Marcar, FallaLibro, Corte, Guardar, Borrado, Quitar,
       Mover, FallaBanco, Resolver
  <1>5. ASSUME NEW a \in Actores, NEW g \in Gastos,
               Crear(a, g) \/ Editar(a, g) \/ Borrar(a, g) \/ Reconstruir(a, g)
        PROVE  Crece
    BY <1>1, <1>5 DEF Crear, Editar, Borrar, Reconstruir
  <1>6. ASSUME NEW a \in Actores, NEW i \in Asientos, AMano(a, i) PROVE Crece
    BY <1>1, <1>6 DEF AMano
  <1>7. CASE UNCHANGED vars
    BY <1>1, <1>7 DEF vars
  <1>8. QED
    BY <1>2, <1>3, <1>4, <1>5, <1>6, <1>7 DEF Next, Actores


-----------------------------------------------------------------------------
(* What a step has to show *)

\* Inductive beside Inv.
EnOrden == RutaVale /\ SinRegistro /\ AlDiaVale

LEMMA OtrosEnRuta ==
    ASSUME ReversaVale, RutaVale, Crece, NEW a \in Actores,
           \A b \in Actores : b # a => pc'[b] = pc[b] /\ leido'[b] = leido[b],
           EnRuta(a)'
    PROVE  RutaVale'
  <1>1. ASSUME NEW b \in Actores, b # a PROVE EnRuta(b)'
    <2>1. EnRuta(b) /\ pc'[b] = pc[b] /\ leido'[b] = leido[b]
      BY <1>1 DEF RutaVale
    <2>2. pc[b] \in Toman => asientos'[leido[b].asiento] = asientos[leido[b].asiento]
      BY DEF ReversaVale, Vale, Crece
    <2>3. QED
      BY <2>1, <2>2 DEF EnRuta
  <1>2. QED
    BY <1>1 DEF RutaVale

LEMMA EnRutaSigue ==
    ASSUME TypeOK, ReversaVale, Crece, NEW a \in Actores, EnRuta(a), pc[a] # "libre",
           NEW p, Sigue(a, p), p # "libre" => p \in Ruta(leido[a].op), p \in Toman => pc[a] \in Toman
    PROVE  EnRuta(a)'
  <1>1. pc'[a] = p /\ (p # "libre" => leido' = leido)
    BY DEF TypeOK, Sigue, Va
  <1>2. pc[a] \in Toman => asientos'[leido[a].asiento] = asientos[leido[a].asiento]
    BY DEF ReversaVale, Vale, Crece
  <1>3. QED
    BY <1>1, <1>2 DEF EnRuta

LEMMA Desconocidos ==
    ASSUME SinRegistro, Crece, NEW a \in Actores, NEW g \in Gastos, Aparte(a, g),
           pc[a] = "libre" \/ leido[a].g = g, gasto'[g].estado # "no"
    PROVE  SinRegistro'
  <1>1. ASSUME NEW h \in Gastos, gasto'[h].estado = "no"
        PROVE  /\ \A i \in Asientos' : asientos'[i].de # h
               /\ banco'[h] = 0 /\ \A b \in Actores : ~Trabaja(b, h)'
    <2>1. h # g /\ gasto'[h] = gasto[h] /\ banco'[h] = banco[h]
      BY <1>1 DEF Aparte
    <2>2. /\ \A i \in Asientos : asientos[i].de # h
          /\ banco[h] = 0 /\ \A b \in Actores : ~Trabaja(b, h)
      BY <1>1, <2>1 DEF SinRegistro, Desconocido
    <2>3. \A i \in Asientos' : asientos'[i].de # h
      BY <2>1, <2>2 DEF Aparte, Crece
    <2>4. \A b \in Actores : ~Trabaja(b, h)'
      BY <2>1, <2>2 DEF Aparte, Trabaja
    <2>5. QED
      BY <2>1, <2>2, <2>3, <2>4
  <1>2. QED
    BY <1>1 DEF SinRegistro, Desconocido

\* Who goes on with its operation.
LEMMA ObraBien ==
    ASSUME Inv, EnOrden, Crece, NEW a \in Actores, NEW g \in Gastos, Trabaja(a, g),
           Aparte(a, g), EnRuta(a)', gasto'[g].estado = "no" => gasto[g].estado = "no",
           alDia'[g] => alDia[g],
           alDia'[g] /\ Tarea(a, g) =>
             IF pc'[a] = "libre" THEN Anotado(g)' /\ BancoAlDia(g)' ELSE Tarea(a, g)'
    PROVE  EnOrden'
  <1>1. \A b \in Actores : b # a => pc'[b] = pc[b] /\ leido'[b] = leido[b]
    BY DEF Aparte
  <1>2. RutaVale'
    BY <1>1, OtrosEnRuta DEF Inv, EnOrden
  <1>3. leido[a].g = g /\ gasto'[g].estado # "no"
    BY DEF EnOrden, SinRegistro, Desconocido, Trabaja
  <1>4. SinRegistro'
    BY <1>3, Desconocidos DEF EnOrden
  <1>5. AlDiaVale'
    BY ObraVale DEF EnOrden
  <1>6. QED
    BY <1>2, <1>4, <1>5 DEF EnOrden

\* Who starts one.
LEMMA ArrancaBien ==
    ASSUME Inv, EnOrden, Crece, NEW a \in Actores, NEW g \in Gastos, pc[a] = "libre",
           Aparte(a, g), EnRuta(a)', gasto'[g].estado # "no",
           alDia'[g] => ~Ocupado(g) /\ pc'[a] # "libre" /\ Tarea(a, g)'
    PROVE  EnOrden'
  <1>1. \A b \in Actores : b # a => pc'[b] = pc[b] /\ leido'[b] = leido[b]
    BY DEF Aparte
  <1>2. RutaVale'
    BY <1>1, OtrosEnRuta DEF Inv, EnOrden
  <1>3. SinRegistro'
    BY Desconocidos DEF EnOrden
  <1>4. AlDiaVale'
    BY ArrancaVale DEF EnOrden
  <1>5. QED
    BY <1>2, <1>3, <1>4 DEF EnOrden

\* A journal nobody touches is the same for every expense.
LEMMA LibroQuieto ==
    ASSUME UNCHANGED <<asientos, marcados>>
    PROVE  /\ Asientos' = Asientos
           /\ \A h : MismoLibro(h)
  BY DEF Asientos, MismoLibro, Vivos, Original, TieneContra

\* Going on touches nobody else.
LEMMA AparteSigue ==
    ASSUME TypeOK, DeUnGasto, NEW a \in Actores, NEW g \in Gastos, Trabaja(a, g),
           NEW p, Sigue(a, p),
           \A i \in Asientos' : i \notin Asientos => asientos'[i].de = g,
           \A h \in Gastos : h # g =>
              /\ gasto'[h] = gasto[h] /\ banco'[h] = banco[h] /\ pend'[h] = pend[h]
              /\ alDia'[h] = alDia[h] /\ MismoLibro(h)
    PROVE  /\ Aparte(a, g) /\ pc'[a] = p /\ (p # "libre" => leido' = leido)
  <1>1. /\ pc'[a] = p /\ (p # "libre" => leido' = leido)
        /\ \A b \in Actores : b # a => pc'[b] = pc[b] /\ leido'[b] = leido[b]
    BY DEF TypeOK, Sigue, Va
  <1>2. leido[a].g = g
    BY DEF Trabaja
  <1>3. QED
    BY <1>1, <1>2 DEF Aparte


LEMMA SigueBien ==
    ASSUME Inv, EnOrden, Crece, NEW a \in Actores, NEW g \in Gastos, Trabaja(a, g),
           NEW p, Sigue(a, p),
           p # "libre" => p \in Ruta(leido[a].op), p \in Toman => pc[a] \in Toman,
           \A i \in Asientos' : i \notin Asientos => asientos'[i].de = g,
           \A h \in Gastos : h # g =>
              /\ gasto'[h] = gasto[h] /\ banco'[h] = banco[h] /\ pend'[h] = pend[h]
              /\ alDia'[h] = alDia[h] /\ MismoLibro(h),
           gasto'[g].estado = "no" => gasto[g].estado = "no",
           alDia'[g] => alDia[g],
           alDia'[g] /\ Tarea(a, g) /\ pc'[a] = p /\ (p # "libre" => leido' = leido) =>
             IF p = "libre" THEN Anotado(g)' /\ BancoAlDia(g)' ELSE Tarea(a, g)'
    PROVE  EnOrden'
  <1>1. Aparte(a, g) /\ pc'[a] = p /\ (p # "libre" => leido' = leido)
    BY AparteSigue DEF Inv
  <1>2. EnRuta(a) /\ pc[a] # "libre"
    BY DEF EnOrden, RutaVale, Trabaja
  <1>3. EnRuta(a)'
    BY <1>2, EnRutaSigue DEF Inv
  <1>4. QED
    BY <1>1, <1>3, ObraBien

\* A step that leaves the journal as it is.
LEMMA QuietaBien ==
    ASSUME Inv, EnOrden, NEW a \in Actores, NEW g \in Gastos, Trabaja(a, g),
           UNCHANGED <<asientos, marcados>>,
           NEW p, Sigue(a, p),
           p # "libre" => p \in Ruta(leido[a].op), p \in Toman => pc[a] \in Toman,
           \A h \in Gastos : h # g =>
              /\ gasto'[h] = gasto[h] /\ banco'[h] = banco[h] /\ pend'[h] = pend[h]
              /\ alDia'[h] = alDia[h],
           gasto'[g].estado = "no" => gasto[g].estado = "no",
           alDia'[g] => alDia[g],
           alDia'[g] /\ Tarea(a, g) /\ pc'[a] = p /\ (p # "libre" => leido' = leido)
             /\ MismoLibro(g) /\ Vivos(g)' = Vivos(g) =>
               IF p = "libre" THEN Anotado(g)' /\ BancoAlDia(g)' ELSE Tarea(a, g)'
    PROVE  EnOrden'
  <1>1. /\ Asientos' = Asientos /\ Crece
        /\ \A h : MismoLibro(h)
    BY LibroQuieto DEF Crece
  <1>2. Vivos(g)' = Vivos(g)
    BY <1>1 DEF MismoLibro
  <1>3. QED
    BY <1>1, <1>2, SigueBien

-----------------------------------------------------------------------------
(* The steps of the expense and of the bank *)

LEMMA BorradoBien ==
    ASSUME Inv, EnOrden, NEW a \in Peticiones, Borrado(a)
    PROVE  EnOrden'
  <1>1. PICK g \in Gastos : g = leido[a].g
    BY DEF Borrado, Inv, DeUnGasto, Actores
  <1>2. /\ a \in Actores /\ Trabaja(a, g) /\ pc[a] = "borrar" /\ Sigue(a, "mirar")
        /\ UNCHANGED <<asientos, marcados>>
        /\ banco' = banco /\ pend' = pend /\ alDia' = alDia
        /\ gasto' = [gasto EXCEPT ![g].estado = "borrado"]
    BY <1>1 DEF Borrado, Trabaja, Actores
  <1>3. EnRuta(a) /\ leido[a].op = "borrar"
    BY <1>2, OpDe DEF Inv, EnOrden, RutaVale
  <1>4. "mirar" \in Ruta("borrar") /\ "mirar" \notin Toman
    BY RutaDa DEF PasosReversa, Toman
  <1>5. gasto'[g].estado = "borrado" /\ \A h \in Gastos : h # g => gasto'[h] = gasto[h]
    BY <1>2 DEF Inv, TypeOK
  <1>6. ASSUME Tarea(a, g), pc'[a] = "mirar", leido' = leido PROVE Tarea(a, g)'
    BY <1>3, <1>5, <1>6 DEF Tarea, Vive, Toman, PasosBanco, OpsScript
  <1>7. QED
    BY <1>2, <1>3, <1>4, <1>5, <1>6, QuietaBien

LEMMA QuitarBien ==
    ASSUME Inv, EnOrden, NEW a \in Peticiones, Quitar(a)
    PROVE  EnOrden'
  <1>1. PICK g \in Gastos : g = leido[a].g
    BY DEF Quitar, Inv, DeUnGasto, Actores
  <1> DEFINE p == IF leido[a].op = "borrar" THEN "libre" ELSE "mover"
  <1>2. /\ a \in Actores /\ Trabaja(a, g) /\ pc[a] = "quitar" /\ Sigue(a, p)
        /\ UNCHANGED <<asientos, marcados>>
        /\ gasto' = gasto /\ pend' = pend /\ alDia' = alDia
        /\ banco' = [banco EXCEPT ![g] = 0]
    BY <1>1 DEF Quitar, Trabaja, Actores
  <1>3. EnRuta(a) /\ leido[a].op \in {"editar", "borrar"}
    BY <1>2, OpDe DEF Inv, EnOrden, RutaVale
  <1>4. p # "libre" => p \in Ruta(leido[a].op)
    BY <1>3, RutaDa DEF PasosBanco
  <1>5. p \notin Toman
    BY DEF Toman
  <1>6. banco'[g] = 0 /\ \A h \in Gastos : h # g => banco'[h] = banco[h]
    BY <1>2 DEF Inv, TypeOK
  <1>7. ASSUME Tarea(a, g), pc'[a] = p, p # "libre" => leido' = leido, MismoLibro(g)
        PROVE  IF p = "libre" THEN Anotado(g)' /\ BancoAlDia(g)' ELSE Tarea(a, g)'
    <2>1. Anotado(g) /\ (leido[a].op = "borrar" => ~Vive(g))
      BY <1>2, <1>7 DEF Tarea, PasosBanco
    <2>2. (Vive(g)' <=> Vive(g)) /\ Anotado(g)'
      BY <1>2, <1>7, <2>1, MismoDa
    <2>3. CASE leido[a].op = "borrar"
      BY <1>6, <2>1, <2>2, <2>3 DEF BancoAlDia
    <2>4. CASE leido[a].op = "editar"
      <3>1. pc'[a] = "mover" /\ leido' = leido
        BY <1>7, <2>4
      <3>2. Vive(g) /\ leido[a].version = gasto[g].version
        BY <1>2, <1>7, <2>4 DEF Tarea
      <3>3. QED
        BY <1>2, <1>6, <2>2, <2>4, <3>1, <3>2 DEF Tarea, Toman, PasosBanco, OpsScript
    <2>5. QED
      BY <1>3, <2>3, <2>4
  <1> HIDE DEF p
  <1>8. QED
    BY <1>2, <1>4, <1>5, <1>6, <1>7, QuietaBien

LEMMA MoverBien ==
    ASSUME Inv, EnOrden, NEW a \in Peticiones, Mover(a)
    PROVE  EnOrden'
  <1>1. PICK g \in Gastos : g = leido[a].g
    BY DEF Mover, Inv, DeUnGasto, Actores
  <1>2. /\ a \in Actores /\ Trabaja(a, g) /\ pc[a] = "mover" /\ Sigue(a, "libre")
        /\ UNCHANGED <<asientos, marcados>>
        /\ gasto' = gasto /\ pend' = pend /\ alDia' = alDia
        /\ banco' = IF banco[g] = 0 THEN [banco EXCEPT ![g] = leido[a].version] ELSE banco
    BY <1>1 DEF Mover, Trabaja, Actores
  <1>3. EnRuta(a) /\ leido[a].op \in {"crear", "editar"}
    BY <1>2, OpDe DEF Inv, EnOrden, RutaVale
  <1>4. "libre" \notin Toman
    BY DEF Toman
  <1>5. /\ banco[g] = 0 => banco'[g] = leido[a].version
        /\ \A h \in Gastos : h # g => banco'[h] = banco[h]
    BY <1>2 DEF Inv, TypeOK
  <1>6. ASSUME Tarea(a, g), MismoLibro(g) PROVE Anotado(g)' /\ BancoAlDia(g)'
    <2>1. /\ Anotado(g) /\ Vive(g) /\ banco[g] = 0
          /\ leido[a].version = gasto[g].version
      BY <1>2, <1>3, <1>6 DEF Tarea, PasosBanco
    <2>2. Vive(g)' /\ Anotado(g)'
      BY <1>2, <1>6, <2>1, MismoDa
    <2>3. QED
      BY <1>2, <1>5, <2>1, <2>2 DEF BancoAlDia
  <1>7. QED
    BY <1>2, <1>4, <1>5, <1>6, QuietaBien


LEMMA FallaBancoBien ==
    ASSUME Inv, EnOrden, NEW a \in Peticiones, FallaBanco(a)
    PROVE  EnOrden'
  <1>1. PICK g \in Gastos : g = leido[a].g
    BY DEF FallaBanco, Inv, DeUnGasto, Actores, PasosBanco
  <1> DEFINE p == IF pc[a] = "quitar" /\ leido[a].op = "editar" THEN "mover" ELSE "libre"
  <1>2. /\ a \in Actores /\ Trabaja(a, g) /\ Sigue(a, p)
        /\ UNCHANGED <<asientos, marcados>>
        /\ gasto' = gasto /\ pend' = pend /\ banco' = banco
        /\ alDia' = [alDia EXCEPT ![g] = FALSE]
    BY <1>1 DEF FallaBanco, Trabaja, Actores, PasosBanco
  <1>3. p # "libre" => p \in Ruta(leido[a].op)
    BY RutaDa DEF PasosBanco
  <1>4. p \notin Toman
    BY DEF Toman
  <1>5. ~alDia'[g] /\ \A h \in Gastos : h # g => alDia'[h] = alDia[h]
    BY <1>2 DEF Inv, TypeOK
  <1> HIDE DEF p
  <1>6. QED
    BY <1>2, <1>3, <1>4, <1>5, QuietaBien

\* Nobody is at work where nothing is left to lose.
LEMMA CorteOcioso ==
    ASSUME Inv, EnOrden, NEW a \in Actores, Corte(a), pc[a] = "libre"
    PROVE  EnOrden'
  <1>1. /\ pc' = pc /\ UNCHANGED <<asientos, marcados, gasto, banco, pend>>
        /\ \A b \in Actores : b # a => leido'[b] = leido[b]
    BY DEF Corte, Sigue, Va, Inv, TypeOK
  <1>2. Asientos' = Asientos /\ \A h : MismoLibro(h)
    BY <1>1, LibroQuieto
  <1>3. \A h \in Gastos : alDia'[h] => alDia[h]
    BY DEF Corte, Inv, TypeOK
  <1>4. \A b \in Actores : pc[b] # "libre" => b # a
    OBVIOUS
  <1>5. RutaVale'
    BY <1>1, <1>2, <1>4 DEF EnOrden, RutaVale, EnRuta
  <1>6. \A b \in Actores, h \in Gastos : Trabaja(b, h)' <=> Trabaja(b, h)
    BY <1>1, <1>4 DEF Trabaja
  <1>7. SinRegistro'
    BY <1>1, <1>2, <1>6 DEF EnOrden, SinRegistro, Desconocido
  <1>8. ASSUME NEW h \in Gastos PROVE AlDia(h)'
    <2>1. \A b \in Actores : Trabaja(b, h) => (Tarea(b, h)' <=> Tarea(b, h))
      BY <1>1, <1>2, <1>4, TareaIgual DEF Trabaja
    <2>2. (Anotado(h)' <=> Anotado(h)) /\ (BancoAlDia(h)' <=> BancoAlDia(h))
      BY <1>1, <1>2, MismoDa
    <2>3. QED
      BY <1>3, <1>6, <2>1, <2>2 DEF EnOrden, AlDiaVale, AlDia
  <1>9. QED
    BY <1>5, <1>7, <1>8 DEF EnOrden, AlDiaVale

LEMMA CorteBien ==
    ASSUME Inv, EnOrden, NEW a \in Actores, Corte(a)
    PROVE  EnOrden'
  <1>1. CASE pc[a] = "libre"
    BY <1>1, CorteOcioso
  <1>2. CASE pc[a] # "libre"
    <2>1. PICK g \in Gastos : g = leido[a].g
      BY <1>2 DEF Inv, DeUnGasto
    <2>2. /\ Trabaja(a, g) /\ Sigue(a, "libre")
          /\ UNCHANGED <<asientos, marcados>>
          /\ gasto' = gasto /\ pend' = pend /\ banco' = banco
          /\ alDia' = [alDia EXCEPT ![g] = FALSE]
      BY <1>2, <2>1 DEF Corte, Trabaja
    <2>3. ~alDia'[g] /\ \A h \in Gastos : h # g => alDia'[h] = alDia[h]
      BY <2>2 DEF Inv, TypeOK
    <2>4. "libre" \notin Toman
      BY DEF Toman
    <2>5. QED
      BY <2>2, <2>3, <2>4, QuietaBien
  <1>3. QED
    BY <1>1, <1>2

-----------------------------------------------------------------------------
(* The steps of the ledger *)

\* What an operation finds after its reversal, when no entry of the expense lives or its
\* failure is pending.
LEMMA TrasReversarBien ==
    ASSUME Inv, EnOrden, NEW a \in Actores, NEW g \in Gastos, Trabaja(a, g),
           pc[a] \in PasosReversa, TrasReversar(a), Crece,
           \A i \in Asientos' : i \notin Asientos => asientos'[i].de = g,
           \A h \in Gastos : h # g => pend'[h] = pend[h] /\ MismoLibro(h),
           gasto' = gasto, banco' = banco, alDia' = alDia,
           alDia'[g] /\ Tarea(a, g) =>
             \/ Vivos(g)' = {}
             \/ "reverse" \in pend'[g] /\ leido[a].op \in {"editar", "borrar"}
    PROVE  EnOrden'
  <1>1. EnRuta(a) /\ leido[a].op \in {"editar", "borrar", "mano", "rehacer", "retirar"}
    BY OpDe DEF Inv, EnOrden, RutaVale, Trabaja
  <1>2. \E p \in {"libre", "buscar", "quitar", "resolver"} :
            Sigue(a, p) /\ (p # "libre" => p \in Ruta(leido[a].op))
    BY <1>1, TrasRuta DEF Inv, Trabaja
  <1>3. /\ leido[a].op \in {"editar", "rehacer"} => Sigue(a, "buscar")
        /\ leido[a].op = "borrar" => Sigue(a, "quitar")
        /\ leido[a].op = "retirar" => Sigue(a, "resolver")
    BY TrasOp
  <1>4. \A p : Sigue(a, p) => pc'[a] = p /\ (p # "libre" => leido' = leido)
    BY DEF Sigue, Va, Inv, TypeOK
  <1>5. Vive(g)' <=> Vive(g)
    BY DEF Vive
  <1>6. BancoAlDia(g)' <=> BancoAlDia(g)
    BY <1>5 DEF BancoAlDia
  <1>7. ASSUME alDia'[g], Tarea(a, g) PROVE pc'[a] # "libre" /\ Tarea(a, g)'
    <2>1. \/ Vivos(g)' = {}
          \/ "reverse" \in pend'[g] /\ leido[a].op \in {"editar", "borrar"}
      BY <1>7
    <2>2. CASE leido[a].op = "editar"
      <3>1. pc'[a] = "buscar" /\ leido' = leido
        BY <1>3, <1>4, <2>2
      <3>2. Vive(g) /\ leido[a].version = gasto[g].version
        BY <1>7, <2>2 DEF Tarea, PasosReversa
      <3>3. QED
        BY <1>5, <2>1, <2>2, <3>1, <3>2 DEF Tarea, Toman, PasosBanco, OpsScript
    <2>3. CASE leido[a].op = "rehacer"
      <3>1. pc'[a] = "buscar" /\ leido' = leido
        BY <1>3, <1>4, <2>3
      <3>2. Vive(g) /\ leido[a].version = gasto[g].version /\ BancoAlDia(g)
        BY <1>7, <2>3 DEF Tarea, PasosReversa, OpsScript
      <3>3. QED
        BY <1>5, <1>6, <2>1, <2>3, <3>1, <3>2 DEF Tarea, Toman, PasosBanco, OpsScript
    <2>4. CASE leido[a].op = "borrar"
      <3>1. pc'[a] = "quitar" /\ leido' = leido
        BY <1>3, <1>4, <2>4
      <3>2. ~Vive(g)
        BY <1>7, <2>4 DEF Tarea, PasosReversa
      <3>3. Anotado(g)'
        BY <1>5, <2>1, <3>2 DEF Anotado
      <3>4. QED
        BY <1>5, <2>4, <3>1, <3>2, <3>3 DEF Tarea, Toman, PasosBanco, OpsScript
    <2>5. CASE leido[a].op = "retirar"
      <3>1. pc'[a] = "resolver" /\ leido' = leido
        BY <1>3, <1>4, <2>5
      <3>2. ~Vive(g) /\ BancoAlDia(g)
        BY <1>7, <2>5 DEF Tarea, OpsScript
      <3>3. Remediado(g)'
        BY <1>5, <2>1, <2>5, <3>2 DEF Remediado
      <3>4. QED
        BY <1>5, <1>6, <2>5, <3>1, <3>2, <3>3 DEF Tarea, Toman, PasosBanco, OpsScript
    <2>6. leido[a].op # "mano"
      BY <1>7 DEF Tarea
    <2>7. QED
      BY <1>1, <2>2, <2>3, <2>4, <2>5, <2>6
  <1>8. PICK p \in {"libre", "buscar", "quitar", "resolver"} :
            Sigue(a, p) /\ (p # "libre" => p \in Ruta(leido[a].op))
    BY <1>2
  <1>9. p \notin Toman /\ pc'[a] = p
    BY <1>4, <1>8 DEF Toman
  <1>10. QED
    BY <1>7, <1>8, <1>9, SigueBien


\* What an operation leaves posted, when an entry lives or its failure is pending.
LEMMA TrasPostearBien ==
    ASSUME Inv, EnOrden, NEW a \in Actores, NEW g \in Gastos, Trabaja(a, g),
           pc[a] \in PasosPosteo, TrasPostear(a), Crece,
           \A i \in Asientos' : i \notin Asientos => asientos'[i].de = g,
           \A h \in Gastos : h # g => pend'[h] = pend[h] /\ MismoLibro(h),
           gasto' = gasto, banco' = banco, alDia' = alDia,
           alDia'[g] /\ Tarea(a, g) /\ Vive(g)' /\ leido[a].version = gasto[g].version =>
             \/ Remediado(g)'
             \/ leido[a].op = "editar" /\ Anotado(g)'
    PROVE  EnOrden'
  <1>1. EnRuta(a) /\ leido[a].op \in {"crear", "editar", "rehacer", "reponer"}
    BY OpDe DEF Inv, EnOrden, RutaVale, Trabaja
  <1>2. \E p \in {"mover", "quitar", "resolver"} : Sigue(a, p) /\ p \in Ruta(leido[a].op)
    BY <1>1, TrasRuta DEF Inv, Trabaja
  <1>3. /\ leido[a].op = "crear" => Sigue(a, "mover")
        /\ leido[a].op = "editar" => Sigue(a, "quitar")
        /\ leido[a].op \in {"rehacer", "reponer"} => Sigue(a, "resolver")
    BY TrasOp
  <1>4. \A p : Sigue(a, p) => pc'[a] = p /\ (p # "libre" => leido' = leido)
    BY DEF Sigue, Va, Inv, TypeOK
  <1>5. Vive(g)' <=> Vive(g)
    BY DEF Vive
  <1>6. BancoAlDia(g)' <=> BancoAlDia(g)
    BY <1>5 DEF BancoAlDia
  <1>7. ASSUME alDia'[g], Tarea(a, g) PROVE pc'[a] # "libre" /\ Tarea(a, g)'
    <2>1. Vive(g)' /\ leido[a].version = gasto[g].version
      BY <1>1, <1>5, <1>7 DEF Tarea, PasosPosteo
    <2>2. Remediado(g)' \/ (leido[a].op = "editar" /\ Anotado(g)')
      BY <1>7, <2>1
    <2>3. Remediado(g)' => Anotado(g)'
      BY DEF Remediado, Anotado
    <2>4. CASE leido[a].op = "crear"
      <3>1. pc'[a] = "mover" /\ leido' = leido /\ banco'[g] = 0
        BY <1>3, <1>4, <1>7, <2>4 DEF Tarea
      <3>2. QED
        BY <2>1, <2>2, <2>3, <2>4, <3>1 DEF Tarea, Toman, PasosBanco, OpsScript
    <2>5. CASE leido[a].op = "editar"
      <3>1. pc'[a] = "quitar" /\ leido' = leido
        BY <1>3, <1>4, <2>5
      <3>2. QED
        BY <2>1, <2>2, <2>3, <2>5, <3>1 DEF Tarea, Toman, PasosBanco, OpsScript
    <2>6. CASE leido[a].op \in {"rehacer", "reponer"}
      <3>1. pc'[a] = "resolver" /\ leido' = leido /\ BancoAlDia(g)'
        BY <1>3, <1>4, <1>6, <1>7, <2>6 DEF Tarea, OpsScript
      <3>2. QED
        BY <2>1, <2>2, <2>6, <3>1 DEF Tarea, Toman, PasosBanco, OpsScript
    <2>7. QED
      BY <1>1, <2>4, <2>5, <2>6
  <1>8. PICK p \in {"mover", "quitar", "resolver"} : Sigue(a, p) /\ p \in Ruta(leido[a].op)
    BY <1>2
  <1>9. p \notin Toman /\ pc'[a] = p
    BY <1>4, <1>8 DEF Toman
  <1>10. QED
    BY <1>7, <1>8, <1>9, SigueBien

\* What an actor at work on the ledger works on.
LEMMA GastoDe ==
    ASSUME Inv, EnOrden, NEW a \in Actores, pc[a] # "libre"
    PROVE  \E g \in Gastos : g = leido[a].g /\ Trabaja(a, g) /\ EnRuta(a)
  BY DEF Inv, DeUnGasto, Trabaja, EnOrden, RutaVale

LEMMA BuscarBien ==
    ASSUME Inv, EnOrden, NEW a \in Actores, Buscar(a)
    PROVE  EnOrden'
  <1>1. PICK g \in Gastos : g = leido[a].g /\ Trabaja(a, g) /\ EnRuta(a)
    BY GastoDe DEF Buscar
  <1>2. /\ pc[a] = "buscar" /\ pc[a] \in PasosPosteo
        /\ UNCHANGED <<asientos, marcados>>
        /\ gasto' = gasto /\ pend' = pend /\ banco' = banco /\ alDia' = alDia
    BY DEF Buscar, PasosPosteo
  <1>3. /\ Asientos' = Asientos /\ Crece
        /\ \A h : MismoLibro(h)
    BY <1>2, LibroQuieto DEF Crece
  <1>4. CASE Vivos(g) # {}
    <2>1. TrasPostear(a)
      BY <1>1, <1>4 DEF Buscar
    <2>2. ASSUME Tarea(a, g), Vive(g)' PROVE leido[a].op = "editar" /\ Anotado(g)'
      <3>1. leido[a].op = "editar" /\ "reverse" \in pend[g]
        BY <1>2, <1>4, <2>2 DEF Tarea
      <3>2. Anotado(g)
        BY <1>2, <1>4, <2>2, <3>1 DEF Anotado, Vive
      <3>3. QED
        BY <1>2, <1>3, <3>1, <3>2, MismoDa
    <2>3. QED
      BY <1>1, <1>2, <1>3, <2>1, <2>2, TrasPostearBien
  <1>5. CASE Vivos(g) = {}
    <2>1. Sigue(a, "postear")
      BY <1>1, <1>5 DEF Buscar
    <2>2. leido[a].op \in {"crear", "editar", "rehacer", "reponer"}
      BY <1>1, <1>2, OpDe DEF Inv, Trabaja
    <2>3. "postear" \in Ruta(leido[a].op) /\ "postear" \notin Toman
      BY <2>2, RutaDa DEF PasosPosteo, Toman
    <2>4. ASSUME Tarea(a, g), pc'[a] = "postear", leido' = leido, Vivos(g)' = Vivos(g)
          PROVE  Tarea(a, g)'
      <3>1. (Vive(g)' <=> Vive(g)) /\ (BancoAlDia(g)' <=> BancoAlDia(g))
        BY <1>2, <1>3, MismoDa
      <3>2. QED
        BY <1>2, <1>5, <2>2, <2>4, <3>1 DEF Tarea, Toman, PasosBanco, OpsScript
    <2>5. QED
      BY <1>1, <1>2, <2>1, <2>3, <2>4, QuietaBien
  <1>6. QED
    BY <1>4, <1>5

\* A new original is the one live entry of its expense, and nobody else's.
LEMMA OriginalVive ==
    ASSUME Inv, NEW g \in Gastos, NEW d \in Nat, Anotar(g, d, 0), Vivos(g) = {},
           marcados' = marcados
    PROVE  /\ \A i \in Asientos' : i \notin Asientos => asientos'[i].de = g
           /\ \A h \in Gastos : h # g => MismoLibro(h)
           /\ \E n \in Vivos(g)' : asientos'[n].dice = d /\ ~TieneContra(n)'
           /\ Crece
  <1>0. PICK n \in Nat : n = Len(asientos) + 1
    BY DEF Inv, TypeOK
  <1>1. /\ Asientos' = Asientos \cup {n} /\ n \notin Asientos
        /\ \A k \in Asientos : asientos'[k] = asientos[k]
        /\ asientos'[n] = [de |-> g, dice |-> d, reversa |-> 0]
    BY <1>0, AnotarDa DEF Inv
  <1>2. n # 0
    BY <1>0 DEF Inv, TypeOK
  <1>3. asientos'[n].reversa = 0 /\ asientos'[n].de = g /\ asientos'[n].dice = d
    BY <1>1
  <1>4. \A k \in Asientos' : k \notin Asientos => asientos'[k].de = g
    BY <1>1, <1>3
  <1>5. \A k \in Asientos : asientos[k].reversa # n
    BY <1>1, <1>2 DEF Inv, Diario, Orden, Original
  <1>6. \A k \in Asientos' : asientos'[k].reversa # n
    BY <1>1, <1>2, <1>3, <1>5
  <1>7. \A i \in Asientos : TieneContra(i)' <=> TieneContra(i)
    <2>1. \A i \in Asientos : i # 0
      BY DEF Asientos
    <2>2. QED
      BY <1>1, <1>3, <2>1 DEF TieneContra
  <1>8. ASSUME NEW h \in Gastos, h # g PROVE MismoLibro(h)
    <2>1. Vivos(h)' = Vivos(h)
      BY <1>1, <1>3, <1>8 DEF Vivos, Original
    <2>2. \A i \in Vivos(h) : i \in Asientos
      BY DEF Vivos
    <2>3. QED
      BY <1>1, <1>7, <2>1, <2>2 DEF MismoLibro
  <1>9. n \notin marcados
    BY <1>1 DEF Inv, Diario, MarcadoTieneContra
  <1>10. n \in Vivos(g)'
    BY <1>1, <1>3, <1>9 DEF Vivos, Original
  <1>11. ~TieneContra(n)'
    BY <1>6 DEF TieneContra
  <1>12. Crece
    BY <1>1 DEF Crece
  <1>13. QED
    BY <1>3, <1>4, <1>8, <1>10, <1>11, <1>12

LEMMA PostearBien ==
    ASSUME Inv, EnOrden, NEW a \in Actores, Postear(a)
    PROVE  EnOrden'
  <1>1. PICK g \in Gastos : g = leido[a].g /\ Trabaja(a, g) /\ EnRuta(a)
    BY GastoDe DEF Postear
  <1>2. /\ pc[a] = "postear" /\ pc[a] \in PasosPosteo /\ TrasPostear(a)
        /\ gasto' = gasto /\ pend' = pend /\ banco' = banco /\ alDia' = alDia
        /\ marcados' = marcados
    BY DEF Postear, PasosPosteo
  <1>3. leido[a].version \in Nat
    BY DEF Inv, TypeOK
  <1>4. CASE Vivos(g) # {}
    <2>1. UNCHANGED <<asientos, marcados>>
      BY <1>1, <1>2, <1>4 DEF Postear
    <2>2. /\ Asientos' = Asientos /\ Crece
          /\ \A h : MismoLibro(h)
      BY <2>1, LibroQuieto DEF Crece
    <2>3. ~Tarea(a, g)
      BY <1>2, <1>4 DEF Tarea
    <2>4. QED
      BY <1>1, <1>2, <2>2, <2>3, TrasPostearBien
  <1>5. CASE Vivos(g) = {}
    <2>1. Anotar(g, leido[a].version, 0)
      BY <1>1, <1>5 DEF Postear
    <2>2. /\ \A i \in Asientos' : i \notin Asientos => asientos'[i].de = g
          /\ \A h \in Gastos : h # g => MismoLibro(h)
          /\ \E n \in Vivos(g)' : asientos'[n].dice = leido[a].version /\ ~TieneContra(n)'
          /\ Crece
      BY <1>2, <1>3, <1>5, <2>1, OriginalVive
    <2>3. ASSUME Vive(g)', leido[a].version = gasto[g].version PROVE Remediado(g)'
      <3>1. Sirve(g)'
        BY <1>2, <2>2, <2>3 DEF Sirve
      <3>2. QED
        BY <2>3, <3>1 DEF Remediado
    <2>4. QED
      BY <1>1, <1>2, <2>2, <2>3, TrasPostearBien
  <1>6. QED
    BY <1>4, <1>5


\* Going on with a reversal, the entry held is still the live one.
LEMMA TareaReversa ==
    ASSUME NEW a \in Actores, NEW g \in Gastos, pc[a] \in PasosReversa, pc'[a] \in Toman,
           leido'[a].op = leido[a].op, leido'[a].version = leido[a].version,
           gasto' = gasto, banco' = banco, leido'[a].asiento \in Vivos(g)', Tarea(a, g)
    PROVE  Tarea(a, g)'
  <1>1. (Vive(g)' <=> Vive(g)) /\ (BancoAlDia(g)' <=> BancoAlDia(g))
    BY DEF Vive, BancoAlDia
  <1>2. QED
    BY <1>1 DEF Tarea, Toman, PasosReversa, PasosBanco

\* The steps of a reversal are steps of every operation that reverses.
LEMMA TomanEnRuta ==
    ASSUME Inv, NEW a \in Actores, EnRuta(a), pc[a] \in PasosReversa
    PROVE  Toman \subseteq Ruta(leido[a].op)
  <1>1. leido[a].op \in {"editar", "borrar", "mano", "rehacer", "retirar"}
    BY OpDe DEF Inv, PasosReversa
  <1>2. QED
    BY <1>1, RutaDa DEF Toman, PasosReversa

LEMMA MirarBien ==
    ASSUME Inv, EnOrden, NEW a \in Actores, Mirar(a)
    PROVE  EnOrden'
  <1>1. PICK g \in Gastos : g = leido[a].g /\ Trabaja(a, g) /\ EnRuta(a)
    BY GastoDe DEF Mirar
  <1>2. /\ pc[a] = "mirar" /\ pc[a] \in PasosReversa
        /\ UNCHANGED <<asientos, marcados>>
        /\ gasto' = gasto /\ pend' = pend /\ banco' = banco /\ alDia' = alDia
    BY DEF Mirar, PasosReversa
  <1>3. /\ Asientos' = Asientos /\ Crece
        /\ \A h : MismoLibro(h)
    BY <1>2, LibroQuieto DEF Crece
  <1>4. CASE Vivos(g) = {}
    <2>1. TrasReversar(a) /\ Vivos(g)' = {}
      BY <1>1, <1>3, <1>4 DEF Mirar, MismoLibro
    <2>2. QED
      BY <1>1, <1>2, <1>3, <2>1, TrasReversarBien
  <1>5. CASE Vivos(g) # {}
    <2>1. PICK i \in Vivos(g) : leido' = [leido EXCEPT ![a].asiento = i]
      BY <1>1, <1>5 DEF Mirar
    <2>2. pc' = [pc EXCEPT ![a] = "tomar"]
      BY <1>1, <1>5 DEF Mirar, Va
    <2>3. /\ pc'[a] = "tomar" /\ leido'[a].asiento = i /\ leido'[a].g = g
          /\ leido'[a].op = leido[a].op /\ leido'[a].version = leido[a].version
          /\ \A b \in Actores : b # a => pc'[b] = pc[b] /\ leido'[b] = leido[b]
      BY <1>1, <2>1, <2>2 DEF Inv, TypeOK
    <2>4. "tomar" \in Toman /\ "tomar" \in Ruta(leido[a].op)
      BY <1>1, <1>2, TomanEnRuta DEF Toman
    <2>5. asientos'[i].de = g
      BY <1>2 DEF Vivos
    <2>6. EnRuta(a)'
      BY <1>1, <1>2, <2>3, <2>4, <2>5 DEF EnRuta, Trabaja
    <2>7. Aparte(a, g)
      BY <1>2, <1>3, <2>3 DEF Aparte
    <2>8. i \in Vivos(g)'
      BY <1>3 DEF MismoLibro
    <2>9. Tarea(a, g) => Tarea(a, g)'
      BY <1>2, <2>3, <2>4, <2>8, TareaReversa
    <2>10. QED
      BY <1>1, <1>2, <1>3, <2>3, <2>6, <2>7, <2>9, ObraBien
  <1>6. QED
    BY <1>4, <1>5

LEMMA TomarBien ==
    ASSUME Inv, EnOrden, NEW a \in Actores, Tomar(a)
    PROVE  EnOrden'
  <1>1. PICK g \in Gastos : g = leido[a].g /\ Trabaja(a, g) /\ EnRuta(a)
    BY GastoDe DEF Tomar
  <1>2. /\ pc[a] = "tomar" /\ pc[a] \in PasosReversa /\ pc[a] \in Toman
        /\ UNCHANGED <<asientos, marcados>>
        /\ gasto' = gasto /\ pend' = pend /\ banco' = banco /\ alDia' = alDia
    BY DEF Tomar, PasosReversa, Toman
  <1>3. /\ Asientos' = Asientos /\ Crece
        /\ \A h : MismoLibro(h)
    BY <1>2, LibroQuieto DEF Crece
  <1>4. CASE leido[a].asiento \in marcados
    <2>1. TrasReversar(a)
      BY <1>4 DEF Tomar
    <2>2. ~Tarea(a, g)
      BY <1>2, <1>4 DEF Tarea, Vivos
    <2>3. QED
      BY <1>1, <1>2, <1>3, <2>1, <2>2, TrasReversarBien
  <1>5. CASE leido[a].asiento \notin marcados
    <2>1. Sigue(a, "contra")
      BY <1>5 DEF Tomar
    <2>2. "contra" \in Toman /\ "contra" \in Ruta(leido[a].op)
      BY <1>1, <1>2, TomanEnRuta DEF Toman
    <2>3. ASSUME Tarea(a, g), pc'[a] = "contra", leido' = leido, Vivos(g)' = Vivos(g)
          PROVE  Tarea(a, g)'
      <3>1. leido'[a].asiento \in Vivos(g)'
        BY <1>2, <2>3 DEF Tarea
      <3>2. QED
        BY <1>2, <2>2, <2>3, <3>1, TareaReversa
    <2>4. QED
      BY <1>1, <1>2, <2>1, <2>2, <2>3, QuietaBien
  <1>6. QED
    BY <1>4, <1>5

\* A counter-entry is of the expense of its original, and makes no entry live or not.
LEMMA ContraAparte ==
    ASSUME Inv, NEW g \in Gastos, NEW i \in Asientos, asientos[i].de = g,
           Anotar(asientos[i].de, asientos[i].dice, i), marcados' = marcados
    PROVE  /\ \A k \in Asientos' : k \notin Asientos => asientos'[k].de = g
           /\ \A h \in Gastos : h # g => MismoLibro(h)
           /\ Vivos(g)' = Vivos(g)
           /\ Crece
  <1>0. PICK n \in Nat : n = Len(asientos) + 1
    BY DEF Inv, TypeOK
  <1>1. asientos[i] \in Apuntes /\ i \in Nat /\ i # 0
    BY DEF Inv, TypeOK, Asientos
  <1>2. PICK d \in Nat : d = asientos[i].dice
    BY <1>1 DEF Apuntes
  <1>3. /\ Asientos' = Asientos \cup {n} /\ n \notin Asientos
        /\ \A k \in Asientos : asientos'[k] = asientos[k]
        /\ asientos'[n] = [de |-> g, dice |-> d, reversa |-> i]
    BY <1>0, <1>1, <1>2, AnotarDa DEF Inv
  <1>4. asientos'[n].reversa = i /\ asientos'[n].de = g
    BY <1>3
  <1>5. \A h \in Gastos : Vivos(h)' = Vivos(h)
    BY <1>1, <1>3, <1>4 DEF Vivos, Original
  <1>6. \A h \in Gastos : \A k \in Vivos(h) : k \in Asientos /\ asientos[k].de = h
    BY DEF Vivos
  <1>7. \A k \in Asientos : k # i => (TieneContra(k)' <=> TieneContra(k))
    BY <1>3, <1>4 DEF TieneContra
  <1>8. \A h \in Gastos : h # g => MismoLibro(h)
    BY <1>3, <1>5, <1>6, <1>7 DEF MismoLibro
  <1>9. QED
    BY <1>3, <1>4, <1>5, <1>8 DEF Crece

LEMMA ContraBien ==
    ASSUME Inv, EnOrden, NEW a \in Actores, Contra(a)
    PROVE  EnOrden'
  <1>1. PICK g \in Gastos : g = leido[a].g /\ Trabaja(a, g) /\ EnRuta(a)
    BY GastoDe DEF Contra
  <1>2. /\ pc[a] = "contra" /\ pc[a] \in PasosReversa /\ pc[a] \in Toman
        /\ marcados' = marcados
        /\ gasto' = gasto /\ pend' = pend /\ banco' = banco /\ alDia' = alDia
    BY DEF Contra, PasosReversa, Toman
  <1>3. PICK i \in Asientos : i = leido[a].asiento
    BY <1>2 DEF Inv, ReversaVale, Vale
  <1>4. asientos[i].de = g
    BY <1>1, <1>2, <1>3 DEF EnRuta, Trabaja
  <1>5. {"marcar", "reparar"} \subseteq Toman \cap Ruta(leido[a].op)
    BY <1>1, <1>2, TomanEnRuta DEF Toman
  <1>6. ASSUME NEW p \in {"marcar", "reparar"}, Tarea(a, g), pc'[a] = p, leido' = leido,
               Vivos(g)' = Vivos(g)
        PROVE  Tarea(a, g)'
    <2>1. leido'[a].asiento \in Vivos(g)'
      BY <1>2, <1>6 DEF Tarea
    <2>2. QED
      BY <1>2, <1>5, <1>6, <2>1, TareaReversa
  <1>7. CASE TieneContra(i)
    <2>1. Sigue(a, "reparar") /\ UNCHANGED <<asientos, marcados>>
      BY <1>2, <1>3, <1>7 DEF Contra
    <2>2. QED
      BY <1>1, <1>2, <1>5, <1>6, <2>1, QuietaBien
  <1>8. CASE ~TieneContra(i)
    <2>1. Sigue(a, "marcar") /\ Anotar(asientos[i].de, asientos[i].dice, i)
      BY <1>3, <1>8 DEF Contra
    <2>2. /\ \A k \in Asientos' : k \notin Asientos => asientos'[k].de = g
          /\ \A h \in Gastos : h # g => MismoLibro(h)
          /\ Vivos(g)' = Vivos(g)
          /\ Crece
      BY <1>2, <1>4, <2>1, ContraAparte
    <2>3. QED
      BY <1>1, <1>2, <1>5, <1>6, <2>1, <2>2, SigueBien
  <1>9. QED
    BY <1>7, <1>8

LEMMA MarcarBien ==
    ASSUME Inv, EnOrden, NEW a \in Actores, Marcar(a)
    PROVE  EnOrden'
  <1>1. PICK g \in Gastos : g = leido[a].g /\ Trabaja(a, g) /\ EnRuta(a)
    BY GastoDe DEF Marcar
  <1>2. /\ pc[a] \in PasosReversa /\ pc[a] \in Toman /\ TrasReversar(a)
        /\ asientos' = asientos
        /\ gasto' = gasto /\ pend' = pend /\ banco' = banco /\ alDia' = alDia
    BY DEF Marcar, PasosReversa, Toman
  <1>3. PICK i \in Asientos : i = leido[a].asiento
    BY <1>2 DEF Inv, ReversaVale, Vale
  <1>4. asientos[i].de = g /\ marcados' = marcados \cup {i}
    BY <1>1, <1>2, <1>3 DEF EnRuta, Trabaja, Marcar
  <1>5. Asientos' = Asientos /\ Crece
    BY <1>2 DEF Asientos, Crece
  <1>6. \A k : TieneContra(k)' <=> TieneContra(k)
    BY <1>2, <1>5 DEF TieneContra
  <1>7. \A h \in Gastos : h # g => MismoLibro(h)
    BY <1>2, <1>4, <1>5, <1>6 DEF MismoLibro, Vivos, Original
  <1>8. ASSUME Tarea(a, g) PROVE Vivos(g)' = {}
    <2>1. i \in Vivos(g)
      BY <1>2, <1>3, <1>8 DEF Tarea
    <2>2. \A k \in Vivos(g) : k = i
      BY <2>1 DEF Inv, Diario, UnVivo, Vivos
    <2>3. QED
      BY <1>2, <1>4, <1>5, <2>2 DEF Vivos, Original
  <1>9. QED
    BY <1>1, <1>2, <1>5, <1>7, <1>8, TrasReversarBien


\* The reversals of the script do not fail.
ScriptReversa == FallaScript \cap PasosReversa = {}

LEMMA FallaLibroBien ==
    ASSUME ScriptReversa, Inv, EnOrden, NEW a \in Actores, FallaLibro(a)
    PROVE  EnOrden'
  <1>0. pc[a] \in PasosReversa \cup PasosPosteo /\ pc[a] # "libre"
    BY DEF FallaLibro, PasosReversa, PasosPosteo
  <1>1. PICK g \in Gastos : g = leido[a].g /\ Trabaja(a, g) /\ EnRuta(a)
    BY <1>0, GastoDe
  <1>2. /\ UNCHANGED <<asientos, marcados>>
        /\ gasto' = gasto /\ banco' = banco /\ alDia' = alDia
    BY DEF FallaLibro
  <1>3. /\ Asientos' = Asientos /\ Crece
        /\ \A h : MismoLibro(h)
    BY <1>2, LibroQuieto DEF Crece
  <1>4. /\ Vivos(g)' = Vivos(g) /\ (Vive(g)' <=> Vive(g))
    BY <1>2, <1>3 DEF MismoLibro, Vive
  <1>5. CASE pc[a] \in PasosPosteo
    <2>1. pc[a] \notin PasosReversa /\ TrasPostear(a)
      BY <1>5 DEF FallaLibro, PasosPosteo, PasosReversa
    <2>2. leido[a].op \in {"crear", "editar", "rehacer", "reponer"}
      BY <1>1, <1>5, OpDe DEF Inv, Trabaja
    <2>3. Registra(g, "post")
      BY <1>1, <1>5, <2>2 DEF FallaLibro
    <2>4. /\ pend'[g] = pend[g] \cup {"post"}
          /\ \A h \in Gastos : h # g => pend'[h] = pend[h]
      BY <2>3 DEF Registra, Inv, TypeOK
    <2>5. ASSUME Tarea(a, g), Vive(g)'
          PROVE  Remediado(g)' \/ (leido[a].op = "editar" /\ Anotado(g)')
      <3>1. Vivos(g) = {} \/ (leido[a].op = "editar" /\ "reverse" \in pend[g])
        BY <1>5, <2>5 DEF Tarea, PasosPosteo
      <3>2. CASE Vivos(g) = {}
        BY <1>4, <2>4, <2>5, <3>2 DEF Remediado
      <3>3. CASE Vivos(g) # {}
        BY <1>4, <2>4, <2>5, <3>1, <3>3 DEF Anotado
      <3>4. QED
        BY <3>2, <3>3
    <2>6. QED
      BY <1>1, <1>2, <1>3, <1>5, <2>1, <2>4, <2>5, TrasPostearBien
  <1>6. CASE pc[a] \in PasosReversa
    <2>1. pc[a] \notin PasosPosteo /\ TrasReversar(a)
      BY <1>6 DEF FallaLibro, PasosPosteo, PasosReversa
    <2>2. a \notin Scripts
      BY <1>6 DEF FallaLibro, ScriptReversa
    <2>3. leido[a].op \in {"editar", "borrar", "mano"}
      <3>1. leido[a].op \in {"editar", "borrar", "mano", "rehacer", "retirar"}
        BY <1>1, <1>6, OpDe DEF Inv, Trabaja
      <3>2. QED
        BY <1>1, <2>2, <3>1 DEF EnRuta, OpsScript, Trabaja
    <2>4. CASE leido[a].op = "mano"
      <3>1. pend' = pend
        BY <2>4 DEF FallaLibro
      <3>2. ~Tarea(a, g)
        BY <2>4 DEF Tarea
      <3>3. QED
        BY <1>1, <1>2, <1>3, <1>6, <2>1, <3>1, <3>2, TrasReversarBien
    <2>5. CASE leido[a].op # "mano"
      <3>1. Registra(g, "reverse")
        BY <1>1, <2>1, <2>5 DEF FallaLibro
      <3>2. /\ pend'[g] = pend[g] \cup {"reverse"}
            /\ \A h \in Gastos : h # g => pend'[h] = pend[h]
        BY <3>1 DEF Registra, Inv, TypeOK
      <3>3. QED
        BY <1>1, <1>2, <1>3, <1>6, <2>1, <2>3, <2>5, <3>2, TrasReversarBien
    <2>6. QED
      BY <2>4, <2>5
  <1>7. QED
    BY <1>0, <1>5, <1>6

LEMMA GuardarBien ==
    ASSUME Inv, EnOrden, NEW a \in Peticiones, Guardar(a)
    PROVE  EnOrden'
  <1>0. a \in Actores /\ pc[a] = "guardar"
    BY DEF Guardar, Actores
  <1>1. PICK g \in Gastos : g = leido[a].g /\ Trabaja(a, g) /\ EnRuta(a)
    BY <1>0, GastoDe
  <1>2. /\ UNCHANGED <<asientos, marcados>>
        /\ pend' = pend /\ banco' = banco /\ alDia' = alDia
    BY DEF Guardar
  <1>3. /\ Asientos' = Asientos /\ Crece
        /\ \A h : MismoLibro(h)
    BY <1>2, LibroQuieto DEF Crece
  <1>4. leido[a].op = "editar"
    BY <1>0, <1>1, OpDe DEF Inv
  <1>5. CASE Vive(g)
    <2>1. /\ gasto' = [gasto EXCEPT ![g].version = gasto[g].version + 1]
          /\ leido' = [leido EXCEPT ![a].version = gasto[g].version + 1]
          /\ pc' = [pc EXCEPT ![a] = "mirar"]
      BY <1>1, <1>5 DEF Guardar, TrasGuardar, Va, Vive
    <2>2. /\ pc'[a] = "mirar" /\ leido'[a].g = g /\ leido'[a].op = "editar"
          /\ leido'[a].version = gasto[g].version + 1
          /\ \A b \in Actores : b # a => pc'[b] = pc[b] /\ leido'[b] = leido[b]
      BY <1>0, <1>1, <1>4, <2>1 DEF Inv, TypeOK
    <2>3. /\ gasto'[g].version = gasto[g].version + 1
          /\ gasto'[g].estado = "vivo"
          /\ \A h \in Gastos : h # g => gasto'[h] = gasto[h]
      BY <1>5, <2>1 DEF Inv, TypeOK, Vive
    <2>4. "mirar" \in Ruta("editar") /\ "mirar" \notin Toman
      BY RutaDa DEF PasosReversa, Toman
    <2>5. EnRuta(a)'
      BY <2>2, <2>4 DEF EnRuta, OpsScript
    <2>6. Aparte(a, g)
      BY <1>2, <1>3, <2>2, <2>3 DEF Aparte
    <2>7. Tarea(a, g)'
      BY <2>2, <2>3, <2>4 DEF Tarea, Vive, OpsScript, PasosBanco
    <2>8. QED
      BY <1>0, <1>1, <1>2, <1>3, <2>2, <2>3, <2>5, <2>6, <2>7, ObraBien
  <1>6. CASE ~Vive(g)
    <2>1. gasto' = gasto /\ Sigue(a, "libre")
      BY <1>1, <1>6 DEF Guardar, Vive
    <2>2. ~Tarea(a, g)
      BY <1>4, <1>6 DEF Tarea
    <2>3. "libre" \notin Toman
      BY DEF Toman
    <2>4. QED
      BY <1>0, <1>1, <1>2, <2>1, <2>2, <2>3, QuietaBien
  <1>7. QED
    BY <1>5, <1>6

LEMMA ResolverBien ==
    ASSUME Inv, EnOrden, NEW s \in Scripts, Resolver(s)
    PROVE  EnOrden'
  <1>0. s \in Actores /\ pc[s] = "resolver"
    BY DEF Resolver, Actores
  <1>1. PICK g \in Gastos : g = leido[s].g /\ Trabaja(s, g) /\ EnRuta(s)
    BY <1>0, GastoDe
  <1>2. /\ UNCHANGED <<asientos, marcados>> /\ Sigue(s, "libre")
        /\ gasto' = gasto /\ banco' = banco /\ alDia' = alDia
    BY DEF Resolver
  <1>3. leido[s].op \in OpsScript
    BY <1>0, <1>1, OpDe DEF Inv
  <1> DEFINE bien == {p \in leido[s].pend : IF p = "post" THEN Vivos(g) # {}
                                            ELSE (Vivos(g) # {}) = leido[s].existe}
  <1>4. pend' = [pend EXCEPT ![g] = @ \ bien]
    BY <1>1 DEF Resolver
  <1>5. /\ Vivos(g) = {} /\ "post" \in pend[g] => "post" \in pend'[g]
        /\ \A h \in Gastos : h # g => pend'[h] = pend[h]
    BY <1>4 DEF Inv, TypeOK
  <1>6. "libre" \notin Toman
    BY DEF Toman
  <1>7. ASSUME Tarea(s, g), MismoLibro(g) PROVE Anotado(g)' /\ BancoAlDia(g)'
    <2>1. Remediado(g) /\ BancoAlDia(g)
      BY <1>0, <1>3, <1>7 DEF Tarea
    <2>2. Vive(g)' <=> Vive(g)
      BY <1>2 DEF Vive
    <2>3. Sirve(g)' <=> Sirve(g)
      BY <1>2, <1>7 DEF Sirve, MismoLibro
    <2>4. Vivos(g)' = Vivos(g)
      BY <1>7 DEF MismoLibro
    <2>5. Anotado(g)'
      BY <1>5, <2>1, <2>2, <2>3, <2>4 DEF Remediado, Anotado
    <2>6. QED
      BY <1>2, <2>1, <2>2, <2>5 DEF BancoAlDia
  <1> HIDE DEF bien
  <1>8. QED
    BY <1>0, <1>1, <1>2, <1>5, <1>6, <1>7, QuietaBien


-----------------------------------------------------------------------------
(* The operations start *)

LEMMA EmpiezaAparte ==
    ASSUME Inv, EnOrden, NEW a \in Peticiones, NEW op \in Ops, NEW g \in Gastos, NEW paso \in Pasos,
           Empieza(a, op, g, paso, TRUE), UNCHANGED <<asientos, marcados, banco, pend>>,
           \A h \in Gastos : h # g => gasto'[h] = gasto[h],
           op \notin OpsScript, paso \in Ruta(op), paso \notin Toman,
           gasto'[g].estado # "no",
           ~Ocupado(g) /\ pc'[a] = paso /\ leido'[a].op = op /\ leido'[a].version = 1
             /\ Vivos(g)' = Vivos(g) => Tarea(a, g)'
    PROVE  EnOrden'
  <1>1. a \in Actores /\ pc[a] = "libre" /\ "libre" \notin Pasos
    BY DEF Empieza, Actores, Pasos, PasosReversa, PasosPosteo, PasosBanco
  <1>2. Lectura(op, g, 1, 0).g = g /\ Lectura(op, g, 1, 0).op = op
        /\ Lectura(op, g, 1, 0).version = 1
    BY DEF Lectura
  <1>3. /\ pc'[a] = paso /\ leido'[a].g = g /\ leido'[a].op = op /\ leido'[a].version = 1
        /\ \A b \in Actores : b # a => pc'[b] = pc[b] /\ leido'[b] = leido[b]
    BY <1>1, <1>2 DEF Empieza, Va, Inv, TypeOK
  <1>4. /\ alDia'[g] => ~Ocupado(g)
        /\ \A h \in Gastos : h # g => alDia'[h] = alDia[h]
    BY DEF Empieza, Inv, TypeOK
  <1>5. /\ Asientos' = Asientos /\ Crece
        /\ \A h : MismoLibro(h)
    BY LibroQuieto DEF Crece
  <1>6. Aparte(a, g)
    BY <1>3, <1>4, <1>5 DEF Aparte
  <1>7. EnRuta(a)'
    BY <1>3 DEF EnRuta
  <1>8. Vivos(g)' = Vivos(g)
    BY <1>5 DEF MismoLibro
  <1>9. QED
    BY <1>1, <1>3, <1>4, <1>5, <1>6, <1>7, <1>8, ArrancaBien

LEMMA CrearBien ==
    ASSUME Inv, EnOrden, NEW a \in Peticiones, NEW g \in Gastos, Crear(a, g)
    PROVE  EnOrden'
  <1>1. /\ gasto[g].estado = "no" /\ Empieza(a, "crear", g, "buscar", TRUE)
        /\ UNCHANGED <<asientos, marcados, banco, pend>>
        /\ gasto' = [gasto EXCEPT ![g] = [estado |-> "vivo", version |-> 1]]
    BY DEF Crear
  <1>2. /\ gasto'[g].estado = "vivo" /\ gasto'[g].version = 1
        /\ \A h \in Gastos : h # g => gasto'[h] = gasto[h]
    BY <1>1 DEF Inv, TypeOK
  <1>3. Vivos(g) = {} /\ banco[g] = 0
    BY <1>1 DEF EnOrden, SinRegistro, Desconocido, Vivos
  <1>4. /\ "crear" \in Ops /\ "crear" \notin OpsScript
        /\ "buscar" \in Pasos /\ "buscar" \in Ruta("crear") /\ "buscar" \notin Toman
    BY RutaDa DEF Ops, OpsScript, Pasos, PasosPosteo, Toman
  <1>5. ASSUME pc'[a] = "buscar", leido'[a].op = "crear", leido'[a].version = 1,
               Vivos(g)' = Vivos(g)
        PROVE  Tarea(a, g)'
    BY <1>1, <1>2, <1>3, <1>4, <1>5 DEF Tarea, Vive, PasosBanco
  <1>6. QED
    BY <1>1, <1>2, <1>4, <1>5, EmpiezaAparte

LEMMA EditarBien ==
    ASSUME Inv, EnOrden, NEW a \in Peticiones, NEW g \in Gastos, Editar(a, g)
    PROVE  EnOrden'
  <1>1. /\ gasto[g].estado = "vivo" /\ Empieza(a, "editar", g, "guardar", TRUE)
        /\ UNCHANGED <<asientos, marcados, banco, pend, gasto>>
    BY DEF Editar
  <1>2. /\ "editar" \in Ops /\ "editar" \notin OpsScript
        /\ "guardar" \in Pasos /\ "guardar" \in Ruta("editar") /\ "guardar" \notin Toman
    BY RutaDa DEF Ops, OpsScript, Pasos, Toman
  <1>3. ASSUME pc'[a] = "guardar", leido'[a].op = "editar" PROVE Tarea(a, g)'
    BY <1>1, <1>2, <1>3 DEF Tarea, Vive, PasosBanco
  <1>4. QED
    BY <1>1, <1>2, <1>3, EmpiezaAparte

LEMMA BorrarBien ==
    ASSUME Inv, EnOrden, NEW a \in Peticiones, NEW g \in Gastos, Borrar(a, g)
    PROVE  EnOrden'
  <1>1. /\ gasto[g].estado = "vivo" /\ Empieza(a, "borrar", g, "borrar", TRUE)
        /\ UNCHANGED <<asientos, marcados, banco, pend, gasto>>
    BY DEF Borrar
  <1>2. /\ "borrar" \in Ops /\ "borrar" \notin OpsScript
        /\ "borrar" \in Pasos /\ "borrar" \in Ruta("borrar") /\ "borrar" \notin Toman
    BY RutaDa DEF Ops, OpsScript, Pasos, Toman
  <1>3. ASSUME pc'[a] = "borrar", leido'[a].op = "borrar" PROVE Tarea(a, g)'
    BY <1>1, <1>2, <1>3 DEF Tarea, Vive, PasosBanco
  <1>4. QED
    BY <1>1, <1>2, <1>3, EmpiezaAparte

LEMMA AManoBien ==
    ASSUME Inv, EnOrden, NEW a \in Peticiones, NEW i \in Asientos, AMano(a, i)
    PROVE  EnOrden'
  <1>1. asientos[i] \in Apuntes
    BY DEF Inv, TypeOK, Asientos
  <1>2. PICK g \in Gastos : g = asientos[i].de
    BY <1>1 DEF Apuntes
  <1>3. /\ a \in Actores /\ pc[a] = "libre"
        /\ UNCHANGED <<asientos, marcados, gasto, banco, pend>>
        /\ pc' = [pc EXCEPT ![a] = "tomar"]
        /\ leido' = [leido EXCEPT ![a] = Lectura("mano", g, 0, i)]
        /\ alDia' = [alDia EXCEPT ![g] = FALSE]
    BY <1>2 DEF AMano, Va, Actores
  <1>4. /\ Lectura("mano", g, 0, i).g = g /\ Lectura("mano", g, 0, i).op = "mano"
        /\ Lectura("mano", g, 0, i).asiento = i
    BY DEF Lectura
  <1>5. /\ pc'[a] = "tomar" /\ leido'[a].g = g /\ leido'[a].op = "mano" /\ leido'[a].asiento = i
        /\ \A b \in Actores : b # a => pc'[b] = pc[b] /\ leido'[b] = leido[b]
    BY <1>3, <1>4 DEF Inv, TypeOK
  <1>6. ~alDia'[g] /\ \A h \in Gastos : h # g => alDia'[h] = alDia[h]
    BY <1>3 DEF Inv, TypeOK
  <1>7. /\ Asientos' = Asientos /\ Crece
        /\ \A h : MismoLibro(h)
    BY <1>3, LibroQuieto DEF Crece
  <1>8. Aparte(a, g)
    BY <1>3, <1>5, <1>6, <1>7 DEF Aparte
  <1>9. EnRuta(a)'
    BY <1>2, <1>3, <1>5, RutaDa DEF EnRuta, OpsScript, Toman
  <1>10. gasto'[g].estado # "no"
    BY <1>2, <1>3 DEF EnOrden, SinRegistro, Desconocido
  <1>11. QED
    BY <1>3, <1>6, <1>7, <1>8, <1>9, <1>10, ArrancaBien

\* What the script finds, and what it takes each thing for.
LEMMA RemedioEs ==
    ASSUME NEW g \in Gastos
    PROVE  /\ Remedio(g) = "rehacer" => Vive(g) /\ Vivos(g) # {}
           /\ Remedio(g) = "reponer" => Vive(g) /\ Vivos(g) = {}
           /\ Remedio(g) = "retirar" => ~Vive(g) /\ Vivos(g) # {}
           /\ Remedio(g) = "mirar" => \/ Vive(g) /\ Vivos(g) # {} /\ "reverse" \notin pend[g]
                                      \/ Vive(g) /\ Vivos(g) = {} /\ "post" \notin pend[g]
                                      \/ ~Vive(g) /\ Vivos(g) = {}
  <1> DEFINE falta == (\E i \in Asientos : asientos[i].de = g /\ Original(i)) => "post" \in pend[g]
  <1>1. CASE Vive(g) /\ Vivos(g) # {} /\ "reverse" \in pend[g]
    <2>1. Remedio(g) = "rehacer"
      BY <1>1 DEF Remedio, Vive
    <2>2. QED
      BY <1>1, <2>1
  <1>2. CASE Vive(g) /\ Vivos(g) = {} /\ falta
    <2>1. Remedio(g) = "reponer"
      BY <1>2 DEF Remedio, Vive
    <2>2. QED
      BY <1>2, <2>1
  <1>3. CASE ~Vive(g) /\ Vivos(g) # {}
    <2>1. Remedio(g) = "retirar"
      BY <1>3 DEF Remedio, Vive
    <2>2. QED
      BY <1>3, <2>1
  <1>4. CASE \/ Vive(g) /\ Vivos(g) # {} /\ "reverse" \notin pend[g]
             \/ Vive(g) /\ Vivos(g) = {} /\ ~falta
             \/ ~Vive(g) /\ Vivos(g) = {}
    <2>1. Remedio(g) = "mirar"
      BY <1>4 DEF Remedio, Vive
    <2>2. ~falta => "post" \notin pend[g]
      OBVIOUS
    <2> HIDE DEF falta
    <2>3. QED
      BY <1>4, <2>1, <2>2
  <1> HIDE DEF falta
  <1>5. QED
    BY <1>1, <1>2, <1>3, <1>4

LEMMA ReconstruirBien ==
    ASSUME Inv, EnOrden, NEW s \in Scripts, NEW g \in Gastos, Reconstruir(s, g)
    PROVE  EnOrden'
  <1>1. PICK op \in {"rehacer", "reponer", "retirar", "mirar"} : op = Remedio(g)
    BY RemedioDa
  <1>2. /\ s \in Actores /\ pc[s] = "libre" /\ gasto[g].estado # "no"
        /\ UNCHANGED <<asientos, marcados, gasto, banco, pend>>
        /\ leido' = [leido EXCEPT ![s] = Lectura(op, g, gasto[g].version, 0)]
        /\ alDia' = [alDia EXCEPT ![g] = alDia[g] /\ ~Ocupado(g)]
    BY <1>1 DEF Reconstruir, Actores
  <1>3. /\ op = "reponer" => pc' = [pc EXCEPT ![s] = "buscar"]
        /\ op = "mirar" => pc' = [pc EXCEPT ![s] = "resolver"]
        /\ op \in {"rehacer", "retirar"} => pc' = [pc EXCEPT ![s] = "mirar"]
    <2>1. CASE op = "reponer"
      BY <1>1, <2>1 DEF Reconstruir, Va
    <2>2. CASE op = "mirar"
      BY <1>1, <2>2 DEF Reconstruir, Va
    <2>3. CASE op \in {"rehacer", "retirar"}
      BY <1>1, <2>3 DEF Reconstruir, Va
    <2>4. QED
      BY <2>1, <2>2, <2>3
  <1>4. /\ Lectura(op, g, gasto[g].version, 0).g = g
        /\ Lectura(op, g, gasto[g].version, 0).op = op
        /\ Lectura(op, g, gasto[g].version, 0).version = gasto[g].version
    BY DEF Lectura
  <1>5. /\ leido'[s].g = g /\ leido'[s].op = op /\ leido'[s].version = gasto[g].version
        /\ \A b \in Actores : b # s => leido'[b] = leido[b]
    BY <1>2, <1>4 DEF Inv, TypeOK
  <1>6. /\ op = "reponer" => pc'[s] = "buscar"
        /\ op = "mirar" => pc'[s] = "resolver"
        /\ op \in {"rehacer", "retirar"} => pc'[s] = "mirar"
        /\ \A b \in Actores : b # s => pc'[b] = pc[b]
    BY <1>2, <1>3 DEF Inv, TypeOK
  <1>7. /\ alDia'[g] => alDia[g] /\ ~Ocupado(g)
        /\ \A h \in Gastos : h # g => alDia'[h] = alDia[h]
    BY <1>2, Zenon DEF Inv, TypeOK
  <1>8. /\ Asientos' = Asientos /\ Crece
        /\ \A h : MismoLibro(h)
    BY <1>2, LibroQuieto DEF Crece
  <1>9. Aparte(s, g)
    BY <1>2, <1>5, <1>6, <1>7, <1>8 DEF Aparte
  <1>10. EnRuta(s)'
    BY <1>5, <1>6, RutaDa DEF EnRuta, Toman, PasosReversa, PasosPosteo
  <1>11. ASSUME alDia'[g] PROVE Tarea(s, g)'
    <2>1. Anotado(g) /\ BancoAlDia(g)
      BY <1>7, <1>11 DEF EnOrden, AlDiaVale, AlDia, Ocupado, Trabaja
    <2>2. /\ Vive(g)' <=> Vive(g)
          /\ BancoAlDia(g)' /\ Vivos(g)' = Vivos(g)
          /\ Remediado(g)' <=> Remediado(g)
      BY <1>2, <1>8, <2>1, MismoDa
    <2>3. CASE op = "rehacer"
      BY <1>1, <1>2, <1>5, <1>6, <2>2, <2>3, RemedioEs DEF Tarea, Toman, PasosBanco
    <2>4. CASE op = "reponer"
      BY <1>1, <1>2, <1>5, <1>6, <2>2, <2>4, RemedioEs DEF Tarea, Toman, PasosBanco
    <2>5. CASE op = "retirar"
      BY <1>1, <1>2, <1>5, <1>6, <2>2, <2>5, RemedioEs DEF Tarea, Toman, PasosBanco
    <2>6. CASE op = "mirar"
      <3>1. Remediado(g)
        BY <1>1, <2>1, <2>6, RemedioEs DEF Anotado, Remediado
      <3>2. QED
        BY <1>5, <1>6, <2>2, <2>6, <3>1 DEF Tarea, Toman, PasosBanco
    <2>7. QED
      BY <2>3, <2>4, <2>5, <2>6
  <1>12. pc'[s] # "libre"
    BY <1>6
  <1>13. QED
    BY <1>2, <1>7, <1>8, <1>9, <1>10, <1>11, <1>12, ArrancaBien

-----------------------------------------------------------------------------
LEMMA EnOrdenInit == Init => EnOrden
  <1> SUFFICES ASSUME Init PROVE EnOrden
    OBVIOUS
  <1>1. Asientos = {} /\ \A a \in Actores : pc[a] = "libre"
    BY DEF Init, Asientos
  <1>2. RutaVale /\ SinRegistro
    BY <1>1 DEF Init, RutaVale, EnRuta, SinRegistro, Desconocido, Trabaja
  <1>3. ASSUME NEW g \in Gastos PROVE Anotado(g) /\ BancoAlDia(g)
    BY <1>1 DEF Init, Anotado, BancoAlDia, Vive, Vivos
  <1>4. AlDiaVale
    BY <1>1, <1>3 DEF AlDiaVale, AlDia, Trabaja
  <1>5. QED
    BY <1>2, <1>4 DEF EnOrden

LEMMA EnOrdenNext ==
    ASSUME ScriptReversa, Inv, EnOrden, [Next]_vars
    PROVE  EnOrden'
  <1>1. ASSUME NEW a \in Peticiones, NEW g \in Gastos, Crear(a, g) \/ Editar(a, g) \/ Borrar(a, g)
        PROVE  EnOrden'
    BY <1>1, CrearBien, EditarBien, BorrarBien
  <1>2. ASSUME NEW a \in Peticiones,
               Guardar(a) \/ Borrado(a) \/ Quitar(a) \/ Mover(a) \/ FallaBanco(a)
        PROVE  EnOrden'
    BY <1>2, GuardarBien, BorradoBien, QuitarBien, MoverBien, FallaBancoBien
  <1>3. ASSUME NEW a \in Peticiones, NEW i \in Asientos, AMano(a, i) PROVE EnOrden'
    BY <1>3, AManoBien
  <1>4. ASSUME NEW a \in Actores, Buscar(a) \/ Postear(a) PROVE EnOrden'
    BY <1>4, BuscarBien, PostearBien
  <1>5. ASSUME NEW a \in Actores, Mirar(a) \/ Tomar(a) \/ Contra(a) \/ Marcar(a) PROVE EnOrden'
    BY <1>5, MirarBien, TomarBien, ContraBien, MarcarBien
  <1>6. ASSUME NEW a \in Actores, FallaLibro(a) \/ Corte(a) PROVE EnOrden'
    BY <1>6, FallaLibroBien, CorteBien
  <1>7. ASSUME NEW s \in Scripts, NEW g \in Gastos, Reconstruir(s, g) PROVE EnOrden'
    BY <1>7, ReconstruirBien
  <1>8. ASSUME NEW s \in Scripts, Resolver(s) PROVE EnOrden'
    BY <1>8, ResolverBien
  <1>9. CASE UNCHANGED vars
    BY <1>9 DEF vars, EnOrden, RutaVale, EnRuta, SinRegistro, Desconocido, Trabaja, AlDiaVale,
       AlDia, Tarea, Vive, Vivos, Original, TieneContra, Sirve, Anotado, Remediado, BancoAlDia,
       Asientos
  <1>10. QED
    BY <1>1, <1>2, <1>3, <1>4, <1>5, <1>6, <1>7, <1>8, <1>9 DEF Next

\* Whoever creates, edits or deletes an expense with nobody else at it, and is neither
\* killed nor loses the movement of the bank, leaves the bank up to date and its entry too,
\* or a pending reconciliation, after any half-done reversal before it; and the script
\* closes no pending that it did not mend, as long as its own reversals do not fail
\* (updateExpense, deleteExpense, safePost, safeReverse, reconstruirAsientos).
THEOREM LibroSiempreAlDia ==
    ASSUME ScriptReversa
    PROVE  Spec => []LibroAlDia
  <1>1. Init => Inv /\ EnOrden
    BY InvInit, EnOrdenInit
  <1>2. Inv /\ EnOrden /\ [Next]_vars => (Inv /\ EnOrden)'
    BY InvNext, EnOrdenNext
  <1>3. Inv /\ EnOrden => LibroAlDia
    BY LibroDeAlDia DEF EnOrden
  <1>4. QED
    BY <1>1, <1>2, <1>3, PTL DEF Spec

-----------------------------------------------------------------------------
(* The annual closing, CierreAnual, is C! *)

CONSTANTS
    UltimoAnio, Cerradores, Reaperturas, Cruces, MaxMovido, MaxAsientos, cMaxCortes

VARIABLES
    movido, tarde, asiento, cPc, cLeido, cCortes

C == INSTANCE CierreAnual WITH
    MaxCortes <- cMaxCortes, pc <- cPc, leido <- cLeido, cortes <- cCortes

\* The instance's sums are the library's.
LEMMA MismasSumas == \A f, S : C!SumFunctionOnSet(f, S) = SumFunctionOnSet(f, S)
BY DEF C!SumFunctionOnSet, C!FoldFunctionOnSet, C!MapThenFoldSet,
       SumFunctionOnSet, FoldFunctionOnSet, MapThenFoldSet

\* Each request is at a step of its own operation, and the ones that close do not
\* work beside the ones that reopen.
Oficio ==
    /\ \A c \in Cerradores :
         cPc[c] \in {"libre", "pendientes", "armar", "postear", "mirarTraslado", "trasladar"}
    /\ \A r \in Reaperturas : cPc[r] \in {"libre", "siguiente", "buscar", "contra", "marcar"}
Exclusion == (\A c \in Cerradores : cPc[c] = "libre") \/ (\A r \in Reaperturas : cPc[r] = "libre")

\* What a year keeps in its accounts of result.
Queda(y) == movido[y] - C!Efecto("cierre", y)
Tarde == \A y \in C!Anios : tarde[y] <= movido[y] /\ C!Efecto("cierre", y) <= movido[y]

\* Which years a closing left behind, and what it takes.
Cierra(c) ==
    /\ cPc[c] = "armar" => \A z \in C!Anios : z < C!Anio(c) => Queda(z) = 0
    /\ cPc[c] = "postear" =>
         /\ cLeido[c].valor <= movido[C!Anio(c)]
         /\ \A z \in C!Anios : z < C!Anio(c) => Queda(z) <= tarde[z]
    /\ cPc[c] \in {"mirarTraslado", "trasladar"} =>
         C!Vivo("cierre", C!Anio(c)) /\ cLeido[c].valor = asiento["cierre"][C!Anio(c)].valor
Cierran == \A c \in Cerradores : Cierra(c)

\* An entry that says nothing in the ledger.
Muerto(t, y) == ~C!Vivo(t, y) \/ asiento[t][y].contra

\* Who reopens holds the entries there are, of a year whose next is open, and comes to
\* the closing when the transfer says nothing.
Reabre(r) ==
    /\ cLeido[r].id["cierre"] = asiento["cierre"][C!Anio(r)].id
    /\ cLeido[r].tipo = "traslado" =>
         cPc[r] \in {"contra", "marcar"} /\ cLeido[r].id["traslado"] = asiento["traslado"][C!Anio(r)].id
    /\ cPc[r] \in {"buscar", "contra", "marcar"} => ~C!SiguienteCerrado(C!Anio(r))
    /\ cPc[r] \in {"contra", "marcar"} /\ cLeido[r].tipo = "cierre" => Muerto("traslado", C!Anio(r))
    /\ cPc[r] = "marcar" => Muerto(cLeido[r].tipo, C!Anio(r))
Reabren == \A r \in Reaperturas : cPc[r] # "libre" => Reabre(r)

\* A closed year leaves nothing behind it but what arrived later.
Atras == \A y \in C!Anios : y + 1 \in C!Anios /\ C!Vivo("cierre", y + 1) => Queda(y) <= tarde[y]

\* A transfer that counts is of a closing there is, and says the same.
Lleva == \A y \in C!Anios :
    ~Muerto("traslado", y) =>
        C!Vivo("cierre", y) /\ asiento["cierre"][y].valor = asiento["traslado"][y].valor

\* With no lost process, a counter-entry has who marks it, and who is about to even
\* the closing and the transfer of a year is at work.
Empareja(a, y) ==
    /\ C!Anio(a) = y
    /\ \/ a \in Cerradores /\ cPc[a] \in {"mirarTraslado", "trasladar"}
       \/ a \in Reaperturas /\ \/ cPc[a] = "marcar" /\ cLeido[a].tipo = "traslado"
                               \/ cPc[a] = "contra" /\ cLeido[a].tipo = "cierre"
Pareja == cCortes = 0 => \A y \in C!Anios :
    /\ \A t \in C!Tipos : asiento[t][y].contra =>
         \E r \in Reaperturas : cPc[r] = "marcar" /\ cLeido[r].tipo = t /\ C!Anio(r) = y
    /\ C!Efecto("traslado", y) = C!Efecto("cierre", y) \/ \E a \in C!Actores : Empareja(a, y)

IInv == C!TypeOK /\ Oficio /\ Exclusion /\ Tarde /\ Cierran /\ Reabren /\ Atras /\ Lleva /\ Pareja

\* How a step of one request leaves the others.
Solo(a) == \A b \in C!Actores : b # a => cPc'[b] = cPc[b] /\ cLeido'[b] = cLeido[b]
Salvo(t, y) == \A u \in C!Tipos, z \in C!Anios : u # t \/ z # y => asiento'[u][z] = asiento[u][z]
Registros == [id : 0..MaxAsientos, vivo : BOOLEAN, contra : BOOLEAN, valor : Nat]
AsientosDeC == [C!Tipos -> [C!Anios -> Registros]]
Memorias == [anio : C!Anios, valor : Nat, tipo : C!Tipos, id : [C!Tipos -> 0..MaxAsientos]]
PasosDeC == {"libre", "pendientes", "armar", "postear", "mirarTraslado",
          "trasladar", "siguiente", "buscar", "contra", "marcar"}

-----------------------------------------------------------------------------
(* What each step does *)

LEMMA Cambiado ==
    ASSUME C!TypeOK, NEW t \in C!Tipos, NEW y \in C!Anios, NEW n \in Registros,
           asiento' = [asiento EXCEPT ![t][y] = n]
    PROVE  asiento' \in AsientosDeC /\ asiento'[t][y] = n /\ Salvo(t, y)
BY DEF C!TypeOK, AsientosDeC, Registros, Salvo

LEMMA CreaHace ==
    ASSUME C!Supuestos, C!TypeOK, NEW t \in C!Tipos, NEW y \in C!Anios, NEW v \in Nat,
           asiento[t][y].id < MaxAsientos, asiento' = C!Crea(t, y, v)
    PROVE  /\ asiento' \in AsientosDeC /\ Salvo(t, y)
           /\ C!Vivo(t, y) => asiento' = asiento
           /\ ~C!Vivo(t, y) => asiento'[t][y] = [id |-> asiento[t][y].id + 1, vivo |-> TRUE,
                                               contra |-> FALSE, valor |-> v]
<1>1. CASE C!Vivo(t, y)
  BY <1>1 DEF C!Crea, C!TypeOK, AsientosDeC, Registros, Salvo
<1>2. CASE ~C!Vivo(t, y)
  <2> DEFINE n == [id |-> asiento[t][y].id + 1, vivo |-> TRUE, contra |-> FALSE, valor |-> v]
  <2>1. n \in Registros
    BY DEF C!Supuestos, C!TypeOK, Registros
  <2>2. asiento' = [asiento EXCEPT ![t][y] = n]
    BY <1>2 DEF C!Crea, C!TypeOK
  <2>3. asiento' \in AsientosDeC /\ asiento'[t][y] = n /\ Salvo(t, y)
    <3> HIDE DEF n
    <3> QED
      BY <2>1, <2>2, Cambiado
  <2> QED
    BY <1>2, <2>3
<1> QED
  BY <1>1, <1>2

LEMMA MarcadoHace ==
    ASSUME C!TypeOK, NEW t \in C!Tipos, NEW y \in C!Anios, asiento' = C!Marcado(t, y)
    PROVE  /\ asiento' \in AsientosDeC /\ Salvo(t, y)
           /\ asiento'[t][y].id = asiento[t][y].id
           /\ ~asiento'[t][y].vivo /\ ~asiento'[t][y].contra
<1> DEFINE n == [asiento[t][y] EXCEPT !.vivo = FALSE, !.contra = FALSE, !.valor = 0]
<1>0. asiento[t][y] \in Registros
  BY DEF C!TypeOK, Registros
<1>1. n \in Registros /\ n.id = asiento[t][y].id /\ n.vivo = FALSE /\ n.contra = FALSE
  BY <1>0 DEF Registros
<1>2. asiento' = [asiento EXCEPT ![t][y] = n]
  BY DEF C!Marcado, C!TypeOK
<1> HIDE DEF n
<1>3. asiento' \in AsientosDeC /\ asiento'[t][y] = n /\ Salvo(t, y)
  BY <1>1, <1>2, Cambiado
<1> QED
  BY <1>1, <1>3

LEMMA ContraHace ==
    ASSUME C!TypeOK, NEW t \in C!Tipos, NEW y \in C!Anios,
           asiento' = [asiento EXCEPT ![t][y].contra = TRUE]
    PROVE  /\ asiento' \in AsientosDeC /\ Salvo(t, y)
           /\ asiento'[t][y].id = asiento[t][y].id
           /\ asiento'[t][y].vivo = asiento[t][y].vivo /\ asiento'[t][y].contra
           /\ asiento'[t][y].valor = asiento[t][y].valor
<1> DEFINE n == [asiento[t][y] EXCEPT !.contra = TRUE]
<1>0. asiento[t][y] \in Registros
  BY DEF C!TypeOK, Registros
<1>1. n \in Registros /\ n.id = asiento[t][y].id /\ n.vivo = asiento[t][y].vivo
      /\ n.contra = TRUE /\ n.valor = asiento[t][y].valor
  BY <1>0 DEF Registros
<1>2. asiento' = [asiento EXCEPT ![t][y] = n]
  BY DEF C!TypeOK
<1> HIDE DEF n
<1>3. asiento' \in AsientosDeC /\ asiento'[t][y] = n /\ Salvo(t, y)
  BY <1>1, <1>2, Cambiado
<1> QED
  BY <1>1, <1>3

\* The fields of what a request has in memory.
LEMMA Lee ==
    ASSUME C!TypeOK, NEW a \in C!Actores
    PROVE  /\ cLeido[a] \in Memorias /\ C!Anio(a) \in C!Anios /\ cLeido[a].valor \in Nat
           /\ cLeido[a].tipo \in C!Tipos /\ cPc[a] \in PasosDeC
           /\ cLeido[a].id \in [C!Tipos -> 0..MaxAsientos]
BY DEF C!TypeOK, Memorias, C!Anio, PasosDeC

LEMMA EfectoNatural ==
    ASSUME C!TypeOK, NEW t \in C!Tipos, NEW y \in C!Anios
    PROVE  C!Efecto(t, y) \in Nat /\ movido[y] \in Nat /\ tarde[y] \in Nat
           /\ asiento[t][y].valor \in Nat
BY DEF C!TypeOK, C!Efecto

LEMMA VaHace ==
    ASSUME C!TypeOK, NEW a \in C!Actores, NEW s \in PasosDeC, C!Va(a, s)
    PROVE  cPc' \in [C!Actores -> PasosDeC] /\ cPc'[a] = s /\ \A b \in C!Actores : b # a => cPc'[b] = cPc[b]
BY DEF C!TypeOK, C!Va, PasosDeC

LEMMA PoneMemoria ==
    ASSUME C!TypeOK, NEW a \in C!Actores, NEW l \in Memorias, cLeido' = [cLeido EXCEPT ![a] = l]
    PROVE  cLeido' \in [C!Actores -> Memorias] /\ cLeido'[a] = l
           /\ \A b \in C!Actores : b # a => cLeido'[b] = cLeido[b]
BY DEF C!TypeOK, Memorias

-----------------------------------------------------------------------------
(* The balance of the results *)

LEMMA SaldoHace ==
    ASSUME C!Supuestos, C!TypeOK, Tarde, NEW y \in C!Anios
    PROVE  /\ C!Saldo(y) \in Nat
           /\ C!Saldo(y - 1) = 0 => \A z \in C!Anios : z < y => Queda(z) = 0
           /\ (\A z \in C!Anios : z < y => Queda(z) = 0) => C!Saldo(y) = Queda(y)
<1> DEFINE f(n) == [z \in 1..n |-> movido[z] - C!Efecto("cierre", z)]
<1>1. \A z \in C!Anios : Queda(z) \in Nat /\ movido[z] - C!Efecto("cierre", z) = Queda(z)
  BY EfectoNatural DEF Tarde, Queda, C!Tipos
<1>2. y \in Nat \ {0} /\ 1..y \subseteq C!Anios /\ 1..(y - 1) \subseteq C!Anios
  BY DEF C!Anios, C!Supuestos
<1>3. IsFiniteSet(1..y) /\ IsFiniteSet(1..(y - 1))
  BY <1>2, FS_Interval
<1>4. /\ \A z \in 1..y : f(y)[z] = Queda(z)
      /\ \A z \in 1..(y - 1) : f(y - 1)[z] = Queda(z)
  BY <1>1, <1>2
<1>5. C!Saldo(y) = SumFunctionOnSet(f(y), 1..y) /\ C!Saldo(y - 1) = SumFunctionOnSet(f(y - 1), 1..(y - 1))
  BY MismasSumas DEF C!Saldo
<1> HIDE DEF f
<1>6. C!Saldo(y) \in Nat
  <2>1. \A z \in 1..y : f(y)[z] \in Nat
    BY <1>1, <1>2, <1>4
  <2> QED
    BY <1>3, <1>5, <2>1, SumaNatural
<1>7. ASSUME C!Saldo(y - 1) = 0, NEW z \in C!Anios, z < y PROVE Queda(z) = 0
  <2>1. z \in 1..(y - 1)
    BY <1>2, <1>7 DEF C!Anios, C!Supuestos
  <2>2. \A x \in 1..(y - 1) : f(y - 1)[x] \in Nat
    BY <1>1, <1>2, <1>4
  <2>3. f(y - 1)[z] <= SumFunctionOnSet(f(y - 1), 1..(y - 1))
    BY <1>3, <2>1, <2>2, SumaIncluye
  <2> QED
    BY <1>1, <1>4, <1>5, <1>7, <2>1, <2>3
<1>8. ASSUME \A z \in C!Anios : z < y => Queda(z) = 0 PROVE C!Saldo(y) = Queda(y)
  <2>1. y \in 1..y /\ \A z \in 1..y : f(y)[z] \in Int
    BY <1>1, <1>2, <1>4
  <2>2. SumFunctionOnSet(f(y), 1..y) = f(y)[y] + SumFunctionOnSet(f(y), 1..y \ {y})
    BY <1>3, <2>1, SumaQuita
  <2>3. \A z \in 1..y \ {y} : f(y)[z] = 0
    BY <1>2, <1>4, <1>8
  <2>4. IsFiniteSet(1..y \ {y})
    BY <1>3, FS_Subset
  <2>5. SumFunctionOnSet(f(y), 1..y \ {y}) = 0
    BY <2>3, <2>4, SumaDeCeros
  <2>6. f(y)[y] = Queda(y) /\ Queda(y) \in Nat
    BY <1>1, <1>4, <2>1
  <2> QED
    BY <1>5, <2>2, <2>5, <2>6
<1> QED
  BY <1>6, <1>7, <1>8

-----------------------------------------------------------------------------
(* One request moves *)

Sanos(a) == cPc' \in [C!Actores -> PasosDeC] /\ cLeido' \in [C!Actores -> Memorias] /\ Solo(a)

LEMMA CerrarHace ==
    ASSUME C!Supuestos, C!TypeOK, NEW c \in Cerradores, NEW y \in C!Anios, C!Cerrar(c, y)
    PROVE  /\ Sanos(c) /\ cPc[c] = "libre" /\ cLeido'[c].anio = y
           /\ cPc'[c] = "mirarTraslado" \/ cPc'[c] = "pendientes"
           /\ cPc'[c] = "mirarTraslado" =>
                C!Vivo("cierre", y) /\ cLeido'[c].valor = asiento["cierre"][y].valor
<1>1. c \in C!Actores /\ asiento["cierre"][y].valor \in Nat
  BY EfectoNatural DEF C!Actores, C!Tipos
<1> DEFINE l == [[cLeido[c] EXCEPT !.anio = y] EXCEPT !.valor = asiento["cierre"][y].valor]
           s == IF C!Vivo("cierre", y) THEN "mirarTraslado" ELSE "pendientes"
<1>2. l \in Memorias /\ l.anio = y /\ l.valor = asiento["cierre"][y].valor
  BY <1>1, Lee DEF Memorias
<1>3. cLeido' = [cLeido EXCEPT ![c] = l] /\ C!Va(c, s) /\ cPc[c] = "libre" /\ s \in PasosDeC
  BY <1>1 DEF C!Cerrar, C!TypeOK, PasosDeC
<1> HIDE DEF l
<1>4. /\ cLeido' \in [C!Actores -> Memorias] /\ cLeido'[c] = l
      /\ \A b \in C!Actores : b # c => cLeido'[b] = cLeido[b]
  BY <1>1, <1>2, <1>3, PoneMemoria
<1>5. cPc' \in [C!Actores -> PasosDeC] /\ cPc'[c] = s /\ \A b \in C!Actores : b # c => cPc'[b] = cPc[b]
  <2> HIDE DEF s
  <2> QED
    BY <1>1, <1>3, VaHace
<1> QED
  BY <1>2, <1>3, <1>4, <1>5 DEF Sanos, Solo

LEMMA PendientesHace ==
    ASSUME C!Supuestos, C!TypeOK, NEW c \in Cerradores, C!Pendientes(c) \/ C!MirarTraslado(c)
    PROVE  /\ Sanos(c) /\ cLeido' = cLeido
           /\ \/ cPc[c] = "pendientes" /\ cPc'[c] = "libre"
              \/ cPc[c] = "pendientes" /\ cPc'[c] = "armar" /\ ~C!HayPendientes(C!Anio(c))
              \/ cPc[c] = "mirarTraslado" /\ cPc'[c] = "libre" /\ C!Vivo("traslado", C!Anio(c))
              \/ cPc[c] = "mirarTraslado" /\ cPc'[c] = "trasladar"
<1>1. c \in C!Actores
  BY DEF C!Actores
<1>2. \/ cPc[c] = "pendientes" /\ C!Va(c, "libre")
      \/ cPc[c] = "pendientes" /\ C!Va(c, "armar") /\ ~C!HayPendientes(C!Anio(c))
      \/ cPc[c] = "mirarTraslado" /\ C!Va(c, "libre") /\ C!Vivo("traslado", C!Anio(c))
      \/ cPc[c] = "mirarTraslado" /\ C!Va(c, "trasladar")
  BY DEF C!Pendientes, C!MirarTraslado
<1>3. \A s \in PasosDeC : C!Va(c, s) =>
        cPc' \in [C!Actores -> PasosDeC] /\ cPc'[c] = s /\ \A b \in C!Actores : b # c => cPc'[b] = cPc[b]
  BY <1>1, VaHace
<1>4. {"libre", "armar", "trasladar"} \subseteq PasosDeC
  BY DEF PasosDeC
<1>5. cLeido' = cLeido /\ cLeido \in [C!Actores -> Memorias]
  BY DEF C!Pendientes, C!MirarTraslado, C!TypeOK, Memorias
<1> QED
  BY <1>2, <1>3, <1>4, <1>5 DEF Sanos, Solo

LEMMA ArmarHace ==
    ASSUME C!Supuestos, C!TypeOK, Tarde, NEW c \in Cerradores, C!Armar(c)
    PROVE  /\ Sanos(c) /\ cPc[c] = "armar" /\ cLeido'[c].anio = C!Anio(c)
           /\ cLeido'[c].valor = C!Saldo(C!Anio(c))
           /\ cPc'[c] = "libre" \/ cPc'[c] = "postear"
<1>1. c \in C!Actores /\ C!Anio(c) \in C!Anios /\ C!Saldo(C!Anio(c)) \in Nat
  BY Lee, SaldoHace DEF C!Actores
<1> DEFINE l == [cLeido[c] EXCEPT !.valor = C!Saldo(C!Anio(c))]
           s == IF C!Saldo(C!Anio(c)) = 0 THEN "libre" ELSE "postear"
<1>2. l \in Memorias /\ l.anio = C!Anio(c) /\ l.valor = C!Saldo(C!Anio(c))
  BY <1>1, Lee DEF Memorias, C!Anio
<1>3. cLeido' = [cLeido EXCEPT ![c] = l] /\ C!Va(c, s) /\ cPc[c] = "armar" /\ s \in PasosDeC
  BY <1>1 DEF C!Armar, C!TypeOK, PasosDeC
<1> HIDE DEF l
<1>4. /\ cLeido' \in [C!Actores -> Memorias] /\ cLeido'[c] = l
      /\ \A b \in C!Actores : b # c => cLeido'[b] = cLeido[b]
  BY <1>1, <1>2, <1>3, PoneMemoria
<1>5. cPc' \in [C!Actores -> PasosDeC] /\ cPc'[c] = s /\ \A b \in C!Actores : b # c => cPc'[b] = cPc[b]
  <2> HIDE DEF s
  <2> QED
    BY <1>1, <1>3, VaHace
<1> QED
  BY <1>2, <1>3, <1>4, <1>5 DEF Sanos, Solo

LEMMA PostearHace ==
    ASSUME C!Supuestos, C!TypeOK, NEW c \in Cerradores, C!Postear(c)
    PROVE  /\ Sanos(c) /\ cPc[c] = "postear" /\ cPc'[c] = "mirarTraslado"
           /\ asiento' \in AsientosDeC /\ Salvo("cierre", C!Anio(c))
           /\ cLeido'[c].anio = C!Anio(c)
           /\ cLeido'[c].valor = asiento'["cierre"][C!Anio(c)].valor
           /\ C!Vivo("cierre", C!Anio(c)) => asiento' = asiento
           /\ ~C!Vivo("cierre", C!Anio(c)) =>
                /\ asiento'["cierre"][C!Anio(c)].vivo /\ ~asiento'["cierre"][C!Anio(c)].contra
                /\ asiento'["cierre"][C!Anio(c)].valor = cLeido[c].valor
<1>1. c \in C!Actores /\ C!Anio(c) \in C!Anios /\ cLeido[c].valor \in Nat /\ "cierre" \in C!Tipos
  BY Lee DEF C!Actores, C!Tipos
<1>2. /\ asiento' \in AsientosDeC /\ Salvo("cierre", C!Anio(c))
      /\ C!Vivo("cierre", C!Anio(c)) => asiento' = asiento
      /\ ~C!Vivo("cierre", C!Anio(c)) =>
           asiento'["cierre"][C!Anio(c)] = [id |-> asiento["cierre"][C!Anio(c)].id + 1,
               vivo |-> TRUE, contra |-> FALSE, valor |-> cLeido[c].valor]
  <2>1. asiento["cierre"][C!Anio(c)].id < MaxAsientos
        /\ asiento' = C!Crea("cierre", C!Anio(c), cLeido[c].valor)
    BY DEF C!Postear
  <2> QED
    BY <1>1, <2>1, CreaHace
<1> DEFINE v == asiento'["cierre"][C!Anio(c)].valor
           l == [cLeido[c] EXCEPT !.valor = v]
<1>3. v \in Nat
  BY <1>1, <1>2 DEF AsientosDeC, Registros
<1>4. l \in Memorias /\ l.anio = C!Anio(c) /\ l.valor = v
  <2> HIDE DEF v
  <2> QED
    BY <1>1, <1>3, Lee DEF Memorias, C!Anio
<1>5. cLeido' = [cLeido EXCEPT ![c] = l] /\ C!Va(c, "mirarTraslado") /\ cPc[c] = "postear"
  BY <1>1 DEF C!Postear, C!TypeOK
<1>6. /\ cLeido' \in [C!Actores -> Memorias] /\ cLeido'[c] = l
      /\ \A b \in C!Actores : b # c => cLeido'[b] = cLeido[b]
  <2> HIDE DEF l
  <2> QED
    BY <1>1, <1>4, <1>5 DEF C!TypeOK, Memorias
<1>7. /\ cPc' \in [C!Actores -> PasosDeC] /\ cPc'[c] = "mirarTraslado"
      /\ \A b \in C!Actores : b # c => cPc'[b] = cPc[b]
  BY <1>1, <1>5, VaHace DEF PasosDeC
<1> QED
  BY <1>2, <1>4, <1>5, <1>6, <1>7 DEF Sanos, Solo

LEMMA TrasladarHace ==
    ASSUME C!Supuestos, C!TypeOK, NEW c \in Cerradores, C!Trasladar(c)
    PROVE  /\ Sanos(c) /\ cPc[c] = "trasladar" /\ cPc'[c] = "libre"
           /\ asiento' \in AsientosDeC /\ Salvo("traslado", C!Anio(c))
           /\ C!Vivo("traslado", C!Anio(c)) => asiento' = asiento
           /\ ~C!Vivo("traslado", C!Anio(c)) =>
                /\ asiento'["traslado"][C!Anio(c)].vivo /\ ~asiento'["traslado"][C!Anio(c)].contra
                /\ asiento'["traslado"][C!Anio(c)].valor = cLeido[c].valor
<1>1. c \in C!Actores /\ C!Anio(c) \in C!Anios /\ cLeido[c].valor \in Nat /\ "traslado" \in C!Tipos
  BY Lee DEF C!Actores, C!Tipos
<1>2. asiento["traslado"][C!Anio(c)].id < MaxAsientos
      /\ asiento' = C!Crea("traslado", C!Anio(c), cLeido[c].valor)
      /\ C!Va(c, "libre") /\ cPc[c] = "trasladar" /\ cLeido' = cLeido
  BY DEF C!Trasladar
<1>3. /\ cPc' \in [C!Actores -> PasosDeC] /\ cPc'[c] = "libre"
      /\ \A b \in C!Actores : b # c => cPc'[b] = cPc[b]
  BY <1>1, <1>2, VaHace DEF PasosDeC
<1>4. cLeido' \in [C!Actores -> Memorias]
  BY <1>2 DEF C!TypeOK, Memorias
<1>5. /\ asiento' \in AsientosDeC /\ Salvo("traslado", C!Anio(c))
      /\ C!Vivo("traslado", C!Anio(c)) => asiento' = asiento
      /\ ~C!Vivo("traslado", C!Anio(c)) =>
           asiento'["traslado"][C!Anio(c)] = [id |-> asiento["traslado"][C!Anio(c)].id + 1,
               vivo |-> TRUE, contra |-> FALSE, valor |-> cLeido[c].valor]
  BY <1>1, <1>2, CreaHace
<1> QED
  BY <1>2, <1>3, <1>4, <1>5 DEF Sanos, Solo

LEMMA ReabrirHace ==
    ASSUME C!Supuestos, C!TypeOK, NEW r \in Reaperturas, NEW y \in C!Anios, C!Reabrir(r, y)
    PROVE  /\ Sanos(r) /\ cPc[r] = "libre" /\ cPc'[r] = "siguiente" /\ cLeido'[r].anio = y
           /\ cLeido'[r].tipo = "cierre" /\ cLeido'[r].id["cierre"] = asiento["cierre"][y].id
<1>1. r \in C!Actores /\ asiento["cierre"][y].id \in 0..MaxAsientos /\ 0 \in 0..MaxAsientos
  BY DEF C!Actores, C!TypeOK, C!Tipos, C!Supuestos
<1> DEFINE i == [t \in C!Tipos |-> IF t = "cierre" THEN asiento[t][y].id ELSE 0]
           l == [anio |-> y, valor |-> 0, tipo |-> "cierre", id |-> i]
<1>2. i \in [C!Tipos -> 0..MaxAsientos] /\ i["cierre"] = asiento["cierre"][y].id
  BY <1>1 DEF C!Tipos
<1>3. l \in Memorias /\ l.anio = y /\ l.tipo = "cierre" /\ l.id = i
  <2> HIDE DEF i
  <2> QED
    BY <1>2 DEF Memorias, C!Tipos
<1>4. cLeido' = [cLeido EXCEPT ![r] = l] /\ C!Va(r, "siguiente") /\ cPc[r] = "libre"
  BY DEF C!Reabrir
<1> HIDE DEF l
<1>5. /\ cLeido' \in [C!Actores -> Memorias] /\ cLeido'[r] = l
      /\ \A b \in C!Actores : b # r => cLeido'[b] = cLeido[b]
  BY <1>1, <1>3, <1>4, PoneMemoria
<1>6. /\ cPc' \in [C!Actores -> PasosDeC] /\ cPc'[r] = "siguiente"
      /\ \A b \in C!Actores : b # r => cPc'[b] = cPc[b]
  BY <1>1, <1>4, VaHace DEF PasosDeC
<1> QED
  BY <1>2, <1>3, <1>4, <1>5, <1>6 DEF Sanos, Solo

LEMMA BuscarHace ==
    ASSUME C!Supuestos, C!TypeOK, NEW r \in Reaperturas, C!Buscar(r)
    PROVE  /\ Sanos(r) /\ cPc[r] = "buscar" /\ cPc'[r] = "contra" /\ cLeido'[r].anio = C!Anio(r)
           /\ cLeido'[r].id["cierre"] = cLeido[r].id["cierre"]
           /\ ~C!Vivo("traslado", C!Anio(r)) => cLeido'[r] = cLeido[r]
           /\ C!Vivo("traslado", C!Anio(r)) =>
                /\ cLeido'[r].tipo = "traslado"
                /\ cLeido'[r].id["traslado"] = asiento["traslado"][C!Anio(r)].id
<1>1. r \in C!Actores /\ C!Anio(r) \in C!Anios
  BY Lee DEF C!Actores
<1>2. asiento["traslado"][C!Anio(r)].id \in 0..MaxAsientos
  BY <1>1 DEF C!TypeOK, C!Tipos
<1> DEFINE i == [cLeido[r].id EXCEPT !["traslado"] = asiento["traslado"][C!Anio(r)].id]
           m == [[cLeido[r] EXCEPT !.tipo = "traslado"] EXCEPT !.id = i]
           l == IF C!Vivo("traslado", C!Anio(r)) THEN m ELSE cLeido[r]
<1>3. /\ i \in [C!Tipos -> 0..MaxAsientos] /\ i["cierre"] = cLeido[r].id["cierre"]
      /\ i["traslado"] = asiento["traslado"][C!Anio(r)].id
  BY <1>1, <1>2, Lee DEF C!Tipos
<1>4. m \in Memorias /\ m.anio = C!Anio(r) /\ m.tipo = "traslado" /\ m.id = i
  <2> HIDE DEF i
  <2> QED
    BY <1>1, <1>3, Lee DEF Memorias, C!Tipos, C!Anio
<1>5. l \in Memorias /\ cLeido[r] \in Memorias /\ cLeido[r].anio = C!Anio(r)
  BY <1>1, <1>4, Lee DEF C!Anio
<1>6. cLeido' = [cLeido EXCEPT ![r] = l] /\ C!Va(r, "contra") /\ cPc[r] = "buscar"
  <2>1. CASE C!Vivo("traslado", C!Anio(r))
    BY <1>1, <2>1 DEF C!Buscar, C!TypeOK
  <2>2. CASE ~C!Vivo("traslado", C!Anio(r))
    BY <1>1, <2>2 DEF C!Buscar, C!TypeOK
  <2> QED
    BY <2>1, <2>2
<1>7. /\ cLeido' \in [C!Actores -> Memorias] /\ cLeido'[r] = l
      /\ \A b \in C!Actores : b # r => cLeido'[b] = cLeido[b]
  <2> HIDE DEF l
  <2> QED
    BY <1>1, <1>5, <1>6, PoneMemoria
<1>8. /\ cPc' \in [C!Actores -> PasosDeC] /\ cPc'[r] = "contra"
      /\ \A b \in C!Actores : b # r => cPc'[b] = cPc[b]
  BY <1>1, <1>6, VaHace DEF PasosDeC
<1> HIDE DEF i, m
<1> QED
  BY <1>3, <1>4, <1>5, <1>6, <1>7, <1>8 DEF Sanos, Solo

LEMMA SiguienteHace ==
    ASSUME C!Supuestos, C!TypeOK, NEW r \in Reaperturas, C!Siguiente(r)
    PROVE  /\ Sanos(r) /\ cLeido' = cLeido /\ cPc[r] = "siguiente"
           /\ cPc'[r] = "libre" \/ (cPc'[r] = "buscar" /\ ~C!SiguienteCerrado(C!Anio(r)))
<1>1. r \in C!Actores
  BY DEF C!Actores
<1>2. C!Va(r, "libre") \/ (C!Va(r, "buscar") /\ ~C!SiguienteCerrado(C!Anio(r)))
  <2>1. CASE C!SiguienteCerrado(C!Anio(r))
    BY <2>1 DEF C!Siguiente, C!Va
  <2>2. CASE ~C!SiguienteCerrado(C!Anio(r))
    BY <2>2 DEF C!Siguiente, C!Va
  <2> QED
    BY <2>1, <2>2
<1>3. \A s \in PasosDeC : C!Va(r, s) =>
        cPc' \in [C!Actores -> PasosDeC] /\ cPc'[r] = s /\ \A b \in C!Actores : b # r => cPc'[b] = cPc[b]
  BY <1>1, VaHace
<1>4. {"libre", "buscar"} \subseteq PasosDeC
  BY DEF PasosDeC
<1>5. cLeido' = cLeido /\ cLeido \in [C!Actores -> Memorias] /\ cPc[r] = "siguiente"
  BY DEF C!Siguiente, C!TypeOK, Memorias
<1> QED
  BY <1>2, <1>3, <1>4, <1>5 DEF Sanos, Solo

\* The entry that r is about to reverse.
T(r) == cLeido[r].tipo

LEMMA ContraPaso ==
    ASSUME C!Supuestos, C!TypeOK, Reabren, NEW r \in Reaperturas, C!Contra(r)
    PROVE  /\ Sanos(r) /\ cPc[r] = "contra" /\ cLeido' = cLeido /\ asiento' \in AsientosDeC
           /\ Salvo(T(r), C!Anio(r))
           /\ \/ cPc'[r] = "libre" /\ asiento' = asiento /\ ~C!Vivo(T(r), C!Anio(r))
              \/ /\ cPc'[r] = "libre" /\ C!Vivo(T(r), C!Anio(r)) /\ asiento[T(r)][C!Anio(r)].contra
                 /\ asiento'[T(r)][C!Anio(r)].id = asiento[T(r)][C!Anio(r)].id
                 /\ ~asiento'[T(r)][C!Anio(r)].vivo /\ ~asiento'[T(r)][C!Anio(r)].contra
              \/ /\ cPc'[r] = "marcar" /\ C!Vivo(T(r), C!Anio(r)) /\ ~asiento[T(r)][C!Anio(r)].contra
                 /\ asiento'[T(r)][C!Anio(r)].id = asiento[T(r)][C!Anio(r)].id
                 /\ asiento'[T(r)][C!Anio(r)].vivo /\ asiento'[T(r)][C!Anio(r)].contra
                 /\ asiento'[T(r)][C!Anio(r)].valor = asiento[T(r)][C!Anio(r)].valor
<1>1. r \in C!Actores /\ C!Anio(r) \in C!Anios /\ T(r) \in C!Tipos /\ cLeido[r].id[T(r)] = asiento[T(r)][C!Anio(r)].id
  BY Lee DEF C!Actores, T, Reabren, Reabre, C!Contra, C!Tipos
<1>2. cPc[r] = "contra" /\ cLeido' = cLeido
  BY DEF C!Contra
<1>3. cLeido' \in [C!Actores -> Memorias] /\ Solo(r) /\ cPc' \in [C!Actores -> PasosDeC]
  <2>1. \E s \in PasosDeC : C!Va(r, s)
    BY DEF C!Contra, PasosDeC
  <2> QED
    BY <1>1, <1>2, <2>1, VaHace DEF C!TypeOK, Memorias, Solo
<1>4. CASE ~C!Vivo(T(r), C!Anio(r))
  <2>1. C!Va(r, "libre") /\ asiento' = asiento
    BY <1>4 DEF C!Contra, T
  <2>2. asiento' \in AsientosDeC /\ Salvo(T(r), C!Anio(r))
    BY <2>1 DEF C!TypeOK, AsientosDeC, Registros, Salvo
  <2> QED
    BY <1>1, <1>2, <1>3, <1>4, <2>1, <2>2, VaHace DEF Sanos, PasosDeC
<1>5. CASE C!Vivo(T(r), C!Anio(r)) /\ asiento[T(r)][C!Anio(r)].contra
  <2>1. C!Va(r, "libre") /\ asiento' = C!Marcado(T(r), C!Anio(r))
    BY <1>1, <1>5 DEF C!Contra, T
  <2> QED
    BY <1>1, <1>2, <1>3, <1>5, <2>1, VaHace, MarcadoHace DEF Sanos, PasosDeC
<1>6. CASE C!Vivo(T(r), C!Anio(r)) /\ ~asiento[T(r)][C!Anio(r)].contra
  <2>1. C!Va(r, "marcar") /\ asiento' = [asiento EXCEPT ![T(r)][C!Anio(r)].contra = TRUE]
    BY <1>1, <1>6 DEF C!Contra, T
  <2>2. cPc'[r] = "marcar"
    BY <1>1, <2>1, VaHace DEF PasosDeC
  <2>3. /\ asiento' \in AsientosDeC /\ Salvo(T(r), C!Anio(r))
        /\ asiento'[T(r)][C!Anio(r)].id = asiento[T(r)][C!Anio(r)].id
        /\ asiento'[T(r)][C!Anio(r)].vivo = asiento[T(r)][C!Anio(r)].vivo
        /\ asiento'[T(r)][C!Anio(r)].contra
        /\ asiento'[T(r)][C!Anio(r)].valor = asiento[T(r)][C!Anio(r)].valor
    BY <1>1, <2>1, ContraHace
  <2> QED
    BY <1>2, <1>3, <1>6, <2>2, <2>3 DEF Sanos, C!Vivo
<1> QED
  BY <1>4, <1>5, <1>6

LEMMA MarcarHace ==
    ASSUME C!Supuestos, C!TypeOK, Reabren, NEW r \in Reaperturas, C!Marcar(r)
    PROVE  /\ Sanos(r) /\ cPc[r] = "marcar" /\ asiento' \in AsientosDeC /\ Salvo(T(r), C!Anio(r))
           /\ cLeido'[r].tipo = "cierre" /\ cLeido'[r].anio = C!Anio(r) /\ cLeido'[r].id = cLeido[r].id
           /\ cPc'[r] = IF T(r) = "traslado" THEN "contra" ELSE "libre"
           /\ asiento'[T(r)][C!Anio(r)].id = asiento[T(r)][C!Anio(r)].id
           /\ ~asiento'[T(r)][C!Anio(r)].vivo /\ ~asiento'[T(r)][C!Anio(r)].contra
<1>1. r \in C!Actores /\ C!Anio(r) \in C!Anios /\ T(r) \in C!Tipos /\ cLeido[r].id[T(r)] = asiento[T(r)][C!Anio(r)].id
  BY Lee DEF C!Actores, T, Reabren, Reabre, C!Marcar, C!Tipos
<1>2. cPc[r] = "marcar" /\ asiento' = C!Marcado(T(r), C!Anio(r))
      /\ C!Va(r, IF T(r) = "traslado" THEN "contra" ELSE "libre")
  BY <1>1 DEF C!Marcar, T
<1> DEFINE l == [cLeido[r] EXCEPT !.tipo = "cierre"]
           s == IF T(r) = "traslado" THEN "contra" ELSE "libre"
<1>3. l \in Memorias /\ l.anio = C!Anio(r) /\ l.tipo = "cierre" /\ l.id = cLeido[r].id
  BY <1>1, Lee DEF Memorias, C!Tipos, C!Anio
<1>4. cLeido' = [cLeido EXCEPT ![r] = l]
  BY <1>1 DEF C!Marcar, C!TypeOK
<1> HIDE DEF l
<1>5. /\ cLeido' \in [C!Actores -> Memorias] /\ cLeido'[r] = l
      /\ \A b \in C!Actores : b # r => cLeido'[b] = cLeido[b]
  BY <1>1, <1>3, <1>4, PoneMemoria
<1>6. cPc' \in [C!Actores -> PasosDeC] /\ cPc'[r] = s /\ \A b \in C!Actores : b # r => cPc'[b] = cPc[b]
  <2>1. s \in PasosDeC /\ C!Va(r, s)
    BY <1>2 DEF PasosDeC
  <2> HIDE DEF s
  <2> QED
    BY <1>1, <2>1, VaHace
<1> QED
  BY <1>1, <1>2, <1>3, <1>5, <1>6, MarcadoHace DEF Sanos, Solo

LEMMA CorteHace ==
    ASSUME C!Supuestos, C!TypeOK, NEW a \in C!Actores, C!Corte(a)
    PROVE  Sanos(a) /\ cPc'[a] = "libre" /\ cLeido' = cLeido
BY VaHace DEF C!Corte, Sanos, Solo, C!TypeOK, Memorias, PasosDeC

-----------------------------------------------------------------------------
(* Each step keeps the invariant *)

LEMMA TiposPaso ==
    ASSUME C!Supuestos, ~Cruces, IInv, [C!Next]_(C!vars)
    PROVE  C!TypeOK'
<1>1. ASSUME NEW y \in C!Anios, C!Mover(y) PROVE C!TypeOK'
  BY <1>1 DEF IInv, C!TypeOK, Tarde, C!Mover, C!Supuestos
<1>2. ASSUME NEW c \in Cerradores, NEW y \in C!Anios, C!Cerrar(c, y) PROVE C!TypeOK'
  BY <1>2, CerrarHace DEF IInv, C!TypeOK, Sanos, Memorias, PasosDeC, C!Cerrar
<1>3. ASSUME NEW c \in Cerradores, C!Pendientes(c) \/ C!MirarTraslado(c) PROVE C!TypeOK'
  BY <1>3, PendientesHace
  DEF IInv, C!TypeOK, Sanos, Memorias, PasosDeC, C!Pendientes, C!MirarTraslado
<1>4. ASSUME NEW c \in Cerradores, C!Armar(c) PROVE C!TypeOK'
  BY <1>4, ArmarHace DEF IInv, C!TypeOK, Sanos, Memorias, PasosDeC, C!Armar
<1>5. ASSUME NEW c \in Cerradores, C!Postear(c) PROVE C!TypeOK'
  BY <1>5, PostearHace
  DEF IInv, C!TypeOK, Sanos, AsientosDeC, Registros, Memorias, PasosDeC, C!Postear
<1>6. ASSUME NEW c \in Cerradores, C!Trasladar(c) PROVE C!TypeOK'
  BY <1>6, TrasladarHace
  DEF IInv, C!TypeOK, Sanos, AsientosDeC, Registros, Memorias, PasosDeC, C!Trasladar
<1>7. ASSUME NEW r \in Reaperturas, NEW y \in C!Anios, C!Reabrir(r, y) PROVE C!TypeOK'
  BY <1>7, ReabrirHace DEF IInv, C!TypeOK, Sanos, Memorias, PasosDeC, C!Reabrir
<1>8. ASSUME NEW r \in Reaperturas, C!Siguiente(r) PROVE C!TypeOK'
  BY <1>8, SiguienteHace DEF IInv, C!TypeOK, Sanos, Memorias, PasosDeC, C!Siguiente
<1>9. ASSUME NEW r \in Reaperturas, C!Buscar(r) PROVE C!TypeOK'
  BY <1>9, BuscarHace DEF IInv, C!TypeOK, Sanos, Memorias, PasosDeC, C!Buscar
<1>10. ASSUME NEW r \in Reaperturas, C!Contra(r) PROVE C!TypeOK'
  BY <1>10, ContraPaso
  DEF IInv, C!TypeOK, Sanos, AsientosDeC, Registros, Memorias, PasosDeC, C!Contra
<1>11. ASSUME NEW r \in Reaperturas, C!Marcar(r) PROVE C!TypeOK'
  BY <1>11, MarcarHace
  DEF IInv, C!TypeOK, Sanos, AsientosDeC, Registros, Memorias, PasosDeC, C!Marcar
<1>12. ASSUME NEW a \in C!Actores, C!Corte(a) PROVE C!TypeOK'
  BY <1>12, CorteHace DEF IInv, C!TypeOK, Sanos, Memorias, PasosDeC, C!Corte, C!Supuestos
<1>13. ASSUME UNCHANGED C!vars PROVE C!TypeOK'
  BY <1>13 DEF IInv, C!TypeOK, C!vars
<1> QED
  BY <1>1, <1>2, <1>3, <1>4, <1>5, <1>6, <1>7, <1>8, <1>9, <1>10, <1>11, <1>12, <1>13
  DEF C!Next

LEMMA OficioPaso ==
    ASSUME C!Supuestos, ~Cruces, IInv, [C!Next]_(C!vars)
    PROVE  Oficio'
<1>1. ASSUME NEW y \in C!Anios, C!Mover(y) PROVE Oficio'
  BY <1>1 DEF IInv, Oficio, C!Mover
<1>2. ASSUME NEW c \in Cerradores, NEW y \in C!Anios, C!Cerrar(c, y) PROVE Oficio'
  BY <1>2, CerrarHace DEF IInv, Oficio, Sanos, Solo, C!Actores, C!Supuestos
<1>3. ASSUME NEW c \in Cerradores, C!Pendientes(c) \/ C!MirarTraslado(c) PROVE Oficio'
  BY <1>3, PendientesHace DEF IInv, Oficio, Sanos, Solo, C!Actores, C!Supuestos
<1>4. ASSUME NEW c \in Cerradores, C!Armar(c) PROVE Oficio'
  BY <1>4, ArmarHace DEF IInv, Oficio, Sanos, Solo, C!Actores, C!Supuestos
<1>5. ASSUME NEW c \in Cerradores, C!Postear(c) PROVE Oficio'
  BY <1>5, PostearHace DEF IInv, Oficio, Sanos, Solo, C!Actores, C!Supuestos
<1>6. ASSUME NEW c \in Cerradores, C!Trasladar(c) PROVE Oficio'
  BY <1>6, TrasladarHace DEF IInv, Oficio, Sanos, Solo, C!Actores, C!Supuestos
<1>7. ASSUME NEW r \in Reaperturas, NEW y \in C!Anios, C!Reabrir(r, y) PROVE Oficio'
  BY <1>7, ReabrirHace DEF IInv, Oficio, Sanos, Solo, C!Actores, C!Supuestos
<1>8. ASSUME NEW r \in Reaperturas, C!Siguiente(r) PROVE Oficio'
  BY <1>8, SiguienteHace DEF IInv, Oficio, Sanos, Solo, C!Actores, C!Supuestos
<1>9. ASSUME NEW r \in Reaperturas, C!Buscar(r) PROVE Oficio'
  BY <1>9, BuscarHace DEF IInv, Oficio, Sanos, Solo, C!Actores, C!Supuestos
<1>10. ASSUME NEW r \in Reaperturas, C!Contra(r) PROVE Oficio'
  BY <1>10, ContraPaso DEF IInv, Oficio, Sanos, Solo, C!Actores, C!Supuestos
<1>11. ASSUME NEW r \in Reaperturas, C!Marcar(r) PROVE Oficio'
  BY <1>11, MarcarHace DEF IInv, Oficio, Sanos, Solo, C!Actores, C!Supuestos
<1>12. ASSUME NEW a \in C!Actores, C!Corte(a) PROVE Oficio'
  BY <1>12, CorteHace DEF IInv, Oficio, Sanos, Solo, C!Actores, C!Supuestos
<1>13. ASSUME UNCHANGED C!vars PROVE Oficio'
  BY <1>13 DEF IInv, Oficio, C!vars
<1> QED
  BY <1>1, <1>2, <1>3, <1>4, <1>5, <1>6, <1>7, <1>8, <1>9, <1>10, <1>11, <1>12, <1>13
  DEF C!Next

LEMMA ExclusionPaso ==
    ASSUME C!Supuestos, ~Cruces, IInv, [C!Next]_(C!vars)
    PROVE  Exclusion'
<1>1. ASSUME NEW y \in C!Anios, C!Mover(y) PROVE Exclusion'
  BY <1>1 DEF IInv, Exclusion, C!Mover
<1>2. ASSUME NEW c \in Cerradores, NEW y \in C!Anios, C!Cerrar(c, y) PROVE Exclusion'
  BY <1>2, CerrarHace
  DEF IInv, Exclusion, Sanos, Solo, C!Actores, C!Supuestos, C!Trabajan, C!Cerrar
<1>3. ASSUME NEW c \in Cerradores, C!Pendientes(c) \/ C!MirarTraslado(c) PROVE Exclusion'
  BY <1>3, PendientesHace DEF IInv, Exclusion, Sanos, Solo, C!Actores, C!Supuestos
<1>4. ASSUME NEW c \in Cerradores, C!Armar(c) PROVE Exclusion'
  BY <1>4, ArmarHace DEF IInv, Exclusion, Sanos, Solo, C!Actores, C!Supuestos
<1>5. ASSUME NEW c \in Cerradores, C!Postear(c) PROVE Exclusion'
  BY <1>5, PostearHace DEF IInv, Exclusion, Sanos, Solo, C!Actores, C!Supuestos
<1>6. ASSUME NEW c \in Cerradores, C!Trasladar(c) PROVE Exclusion'
  BY <1>6, TrasladarHace DEF IInv, Exclusion, Sanos, Solo, C!Actores, C!Supuestos
<1>7. ASSUME NEW r \in Reaperturas, NEW y \in C!Anios, C!Reabrir(r, y) PROVE Exclusion'
  BY <1>7, ReabrirHace
  DEF IInv, Exclusion, Sanos, Solo, C!Actores, C!Supuestos, C!Trabajan, C!Reabrir
<1>8. ASSUME NEW r \in Reaperturas, C!Siguiente(r) PROVE Exclusion'
  BY <1>8, SiguienteHace DEF IInv, Exclusion, Sanos, Solo, C!Actores, C!Supuestos
<1>9. ASSUME NEW r \in Reaperturas, C!Buscar(r) PROVE Exclusion'
  BY <1>9, BuscarHace DEF IInv, Exclusion, Sanos, Solo, C!Actores, C!Supuestos
<1>10. ASSUME NEW r \in Reaperturas, C!Contra(r) PROVE Exclusion'
  BY <1>10, ContraPaso DEF IInv, Exclusion, Sanos, Solo, C!Actores, C!Supuestos
<1>11. ASSUME NEW r \in Reaperturas, C!Marcar(r) PROVE Exclusion'
  BY <1>11, MarcarHace DEF IInv, Exclusion, Sanos, Solo, C!Actores, C!Supuestos
<1>12. ASSUME NEW a \in C!Actores, C!Corte(a) PROVE Exclusion'
  BY <1>12, CorteHace DEF IInv, Exclusion, Sanos, Solo, C!Actores, C!Supuestos
<1>13. ASSUME UNCHANGED C!vars PROVE Exclusion'
  BY <1>13 DEF IInv, Exclusion, C!vars
<1> QED
  BY <1>1, <1>2, <1>3, <1>4, <1>5, <1>6, <1>7, <1>8, <1>9, <1>10, <1>11, <1>12, <1>13
  DEF C!Next

-----------------------------------------------------------------------------
(* What the invariant says of a step *)

\* A step of a reversal takes the effect of one entry and leaves the rest.
LEMMA ReversaHace ==
    ASSUME C!Supuestos, C!TypeOK, Reabren, NEW r \in Reaperturas, C!Contra(r) \/ C!Marcar(r)
    PROVE  /\ Sanos(r) /\ r \in C!Actores /\ T(r) \in C!Tipos /\ C!Anio(r) \in C!Anios
           /\ cPc[r] \in {"contra", "marcar"} /\ Reabre(r) /\ Salvo(T(r), C!Anio(r))
           /\ \A t \in C!Tipos, z \in C!Anios :
                /\ asiento'[t][z].id = asiento[t][z].id
                /\ C!Vivo(t, z)' => C!Vivo(t, z)
                /\ Muerto(t, z) => Muerto(t, z)'
                /\ t = T(r) /\ z = C!Anio(r) => C!Efecto(t, z)' = 0 /\ Muerto(t, z)'
                /\ t # T(r) \/ z # C!Anio(r) => asiento'[t][z] = asiento[t][z]
           /\ movido' = movido /\ tarde' = tarde /\ cCortes' = cCortes
<1>1. r \in C!Actores /\ C!Anio(r) \in C!Anios /\ T(r) \in C!Tipos
  BY Lee DEF C!Actores, T
<1>2. /\ Sanos(r) /\ cPc[r] \in {"contra", "marcar"} /\ Salvo(T(r), C!Anio(r))
      /\ asiento'[T(r)][C!Anio(r)].id = asiento[T(r)][C!Anio(r)].id
      /\ ~asiento'[T(r)][C!Anio(r)].vivo \/ asiento'[T(r)][C!Anio(r)].contra
      /\ asiento'[T(r)][C!Anio(r)].vivo => asiento[T(r)][C!Anio(r)].vivo
  <2>1. CASE C!Contra(r)
    BY <2>1, ContraPaso DEF C!Vivo
  <2>2. CASE C!Marcar(r)
    BY <2>2, MarcarHace
  <2> QED
    BY <2>1, <2>2
<1>3. movido' = movido /\ tarde' = tarde /\ cCortes' = cCortes
  BY DEF C!Contra, C!Marcar
<1>4. Reabre(r)
  BY <1>2 DEF Reabren
<1>5. ASSUME NEW t \in C!Tipos, NEW z \in C!Anios, t = T(r), z = C!Anio(r)
      PROVE  /\ asiento'[t][z].id = asiento[t][z].id
             /\ C!Vivo(t, z)' => C!Vivo(t, z)
             /\ C!Efecto(t, z)' = 0 /\ Muerto(t, z)'
  BY <1>2, <1>5 DEF C!Vivo, C!Efecto, Muerto
<1>6. ASSUME NEW t \in C!Tipos, NEW z \in C!Anios, t # T(r) \/ z # C!Anio(r)
      PROVE  asiento'[t][z] = asiento[t][z]
  BY <1>2, <1>6 DEF Salvo
<1>7. ASSUME NEW t \in C!Tipos, NEW z \in C!Anios, t # T(r) \/ z # C!Anio(r)
      PROVE  /\ asiento'[t][z].id = asiento[t][z].id
             /\ C!Vivo(t, z)' => C!Vivo(t, z)
             /\ Muerto(t, z) => Muerto(t, z)'
  BY <1>6, <1>7 DEF C!Vivo, Muerto
<1>8. ASSUME NEW t \in C!Tipos, NEW z \in C!Anios
      PROVE  /\ asiento'[t][z].id = asiento[t][z].id
             /\ C!Vivo(t, z)' => C!Vivo(t, z)
             /\ Muerto(t, z) => Muerto(t, z)'
  BY <1>5, <1>7
<1> QED
  BY <1>1, <1>2, <1>3, <1>4, <1>5, <1>6, <1>8

\* Nobody reopens while somebody closes, and the other way round.
LEMMA Solos ==
    ASSUME Oficio, Exclusion
    PROVE  /\ \A c \in Cerradores : cPc[c] # "libre" => \A r \in Reaperturas : cPc[r] = "libre"
           /\ \A r \in Reaperturas : cPc[r] # "libre" => \A c \in Cerradores : cPc[c] = "libre"
BY DEF Exclusion

LEMMA TardePaso ==
    ASSUME C!Supuestos, ~Cruces, IInv, [C!Next]_(C!vars)
    PROVE  Tarde'
<1>1. ASSUME NEW y \in C!Anios, C!Mover(y) PROVE Tarde'
  <2>1. /\ asiento' = asiento /\ movido' = [movido EXCEPT ![y] = @ + 1]
        /\ tarde' \in {tarde, [tarde EXCEPT ![y] = @ + 1]} /\ Tarde /\ C!TypeOK
    BY <1>1 DEF C!Mover, IInv
  <2> SUFFICES ASSUME NEW x \in C!Anios
               PROVE  (tarde[x] <= movido[x] /\ C!Efecto("cierre", x) <= movido[x])'
    BY DEF Tarde
  <2>2. C!Efecto("cierre", x) \in Nat /\ C!Efecto("cierre", x)' = C!Efecto("cierre", x)
    BY <2>1, EfectoNatural DEF C!Efecto, C!Vivo, C!Tipos
  <2> QED
    BY <2>1, <2>2 DEF Tarde, C!TypeOK
<1>2. ASSUME NEW c \in Cerradores, NEW y \in C!Anios, C!Cerrar(c, y) PROVE Tarde'
  BY <1>2 DEF IInv, Tarde, C!Efecto, C!Vivo, C!Cerrar
<1>3. ASSUME NEW c \in Cerradores, C!Pendientes(c) \/ C!MirarTraslado(c) PROVE Tarde'
  BY <1>3 DEF IInv, Tarde, C!Efecto, C!Vivo, C!Pendientes, C!MirarTraslado
<1>4. ASSUME NEW c \in Cerradores, C!Armar(c) PROVE Tarde'
  BY <1>4 DEF IInv, Tarde, C!Efecto, C!Vivo, C!Armar
<1>5. ASSUME NEW c \in Cerradores, C!Postear(c) PROVE Tarde'
  <2>1. C!TypeOK /\ Tarde /\ Cierra(c) /\ c \in C!Actores /\ C!Anio(c) \in C!Anios
    BY Lee DEF IInv, Cierran, C!Actores
  <2>2. /\ cPc[c] = "postear" /\ Salvo("cierre", C!Anio(c))
        /\ C!Vivo("cierre", C!Anio(c)) => asiento' = asiento
        /\ ~C!Vivo("cierre", C!Anio(c)) => asiento'["cierre"][C!Anio(c)].valor = cLeido[c].valor
        /\ cLeido[c].valor <= movido[C!Anio(c)]
    BY <1>5, <2>1, PostearHace DEF Cierra
  <2>3. movido' = movido /\ tarde' = tarde
    BY <1>5 DEF C!Postear
  <2> SUFFICES ASSUME NEW y \in C!Anios
               PROVE  (tarde[y] <= movido[y] /\ C!Efecto("cierre", y) <= movido[y])'
    BY DEF Tarde
  <2>4. CASE y = C!Anio(c) /\ ~C!Vivo("cierre", y)
    BY <2>1, <2>2, <2>3, <2>4 DEF Tarde, C!Efecto, C!TypeOK
  <2>5. CASE y # C!Anio(c) \/ C!Vivo("cierre", y)
    BY <2>1, <2>2, <2>3, <2>5 DEF Tarde, C!Efecto, C!Vivo, Salvo, C!Tipos
  <2> QED
    BY <2>4, <2>5
<1>6. ASSUME NEW c \in Cerradores, C!Trasladar(c) PROVE Tarde'
  <2>1. Salvo("traslado", C!Anio(c)) /\ Tarde
    BY <1>6, TrasladarHace DEF IInv
  <2>2. movido' = movido /\ tarde' = tarde
    BY <1>6 DEF C!Trasladar
  <2> QED
    BY <2>1, <2>2 DEF Tarde, C!Efecto, C!Vivo, Salvo, C!Tipos
<1>7. ASSUME NEW r \in Reaperturas, NEW y \in C!Anios, C!Reabrir(r, y) PROVE Tarde'
  BY <1>7 DEF IInv, Tarde, C!Efecto, C!Vivo, C!Reabrir
<1>8. ASSUME NEW r \in Reaperturas, C!Siguiente(r) PROVE Tarde'
  BY <1>8 DEF IInv, Tarde, C!Efecto, C!Vivo, C!Siguiente
<1>9. ASSUME NEW r \in Reaperturas, C!Buscar(r) PROVE Tarde'
  BY <1>9 DEF IInv, Tarde, C!Efecto, C!Vivo, C!Buscar
<1>10. ASSUME NEW r \in Reaperturas, C!Contra(r) PROVE Tarde'
  <2>1. /\ \A z \in C!Anios : z = C!Anio(r) /\ T(r) = "cierre" => C!Efecto("cierre", z)' = 0
        /\ \A z \in C!Anios : z # C!Anio(r) \/ T(r) # "cierre" => asiento'["cierre"][z] = asiento["cierre"][z]
        /\ movido' = movido /\ tarde' = tarde /\ Tarde /\ C!TypeOK
    BY <1>10, ReversaHace DEF IInv, C!Tipos
  <2> SUFFICES ASSUME NEW y \in C!Anios
               PROVE  (tarde[y] <= movido[y] /\ C!Efecto("cierre", y) <= movido[y])'
    BY DEF Tarde
  <2>2. CASE y = C!Anio(r) /\ T(r) = "cierre"
    BY <2>1, <2>2 DEF Tarde, C!TypeOK
  <2>3. CASE y # C!Anio(r) \/ T(r) # "cierre"
    BY <2>1, <2>3 DEF Tarde, C!Efecto, C!Vivo
  <2> QED
    BY <2>2, <2>3
<1>11. ASSUME NEW r \in Reaperturas, C!Marcar(r) PROVE Tarde'
  <2>1. /\ \A z \in C!Anios : z = C!Anio(r) /\ T(r) = "cierre" => C!Efecto("cierre", z)' = 0
        /\ \A z \in C!Anios : z # C!Anio(r) \/ T(r) # "cierre" => asiento'["cierre"][z] = asiento["cierre"][z]
        /\ movido' = movido /\ tarde' = tarde /\ Tarde /\ C!TypeOK
    BY <1>11, ReversaHace DEF IInv, C!Tipos
  <2> SUFFICES ASSUME NEW y \in C!Anios
               PROVE  (tarde[y] <= movido[y] /\ C!Efecto("cierre", y) <= movido[y])'
    BY DEF Tarde
  <2>2. CASE y = C!Anio(r) /\ T(r) = "cierre"
    BY <2>1, <2>2 DEF Tarde, C!TypeOK
  <2>3. CASE y # C!Anio(r) \/ T(r) # "cierre"
    BY <2>1, <2>3 DEF Tarde, C!Efecto, C!Vivo
  <2> QED
    BY <2>2, <2>3
<1>12. ASSUME NEW a \in C!Actores, C!Corte(a) PROVE Tarde'
  BY <1>12 DEF IInv, Tarde, C!Efecto, C!Vivo, C!Corte
<1>13. ASSUME UNCHANGED C!vars PROVE Tarde'
  BY <1>13 DEF IInv, Tarde, C!Efecto, C!Vivo, C!vars
<1> QED
  BY <1>1, <1>2, <1>3, <1>4, <1>5, <1>6, <1>7, <1>8, <1>9, <1>10, <1>11, <1>12, <1>13
  DEF C!Next

LEMMA AtrasPaso ==
    ASSUME C!Supuestos, ~Cruces, IInv, [C!Next]_(C!vars)
    PROVE  Atras'
<1>1. ASSUME NEW y \in C!Anios, C!Mover(y) PROVE Atras'
  <2>1. /\ asiento' = asiento /\ movido' = [movido EXCEPT ![y] = @ + 1]
        /\ tarde' = IF \E z \in C!Anios : z > y /\ C!Vivo("cierre", z)
                    THEN [tarde EXCEPT ![y] = @ + 1] ELSE tarde'
        /\ tarde' \in {tarde, [tarde EXCEPT ![y] = @ + 1]}
    BY <1>1 DEF C!Mover
  <2> SUFFICES ASSUME NEW x \in C!Anios, x + 1 \in C!Anios, C!Vivo("cierre", x + 1)'
               PROVE  (Queda(x) <= tarde[x])'
    BY DEF Atras
  <2>2. C!Vivo("cierre", x + 1) /\ Queda(x) <= tarde[x] /\ C!TypeOK
    BY <2>1 DEF IInv, Atras, C!Vivo
  <2>3. C!Efecto("cierre", x) \in Nat /\ C!Efecto("cierre", x)' = C!Efecto("cierre", x)
    BY <2>1, <2>2, EfectoNatural DEF C!Efecto, C!Vivo, C!Tipos
  <2>4. CASE x = y
    <3>1. x + 1 > y
      BY <2>4 DEF C!Anios
    <3>2. tarde' = [tarde EXCEPT ![y] = @ + 1]
      BY <2>1, <2>2, <3>1
    <3> QED
      BY <2>1, <2>2, <2>3, <2>4, <3>2 DEF Queda, C!TypeOK
  <2>5. CASE x # y
    BY <2>1, <2>2, <2>3, <2>5 DEF Queda, C!TypeOK
  <2> QED
    BY <2>4, <2>5
<1>2. ASSUME NEW c \in Cerradores, NEW y \in C!Anios, C!Cerrar(c, y) PROVE Atras'
  BY <1>2 DEF IInv, Atras, Queda, C!Efecto, C!Vivo, C!Cerrar
<1>3. ASSUME NEW c \in Cerradores, C!Pendientes(c) \/ C!MirarTraslado(c) PROVE Atras'
  BY <1>3 DEF IInv, Atras, Queda, C!Efecto, C!Vivo, C!Pendientes, C!MirarTraslado
<1>4. ASSUME NEW c \in Cerradores, C!Armar(c) PROVE Atras'
  BY <1>4 DEF IInv, Atras, Queda, C!Efecto, C!Vivo, C!Armar
<1>5. ASSUME NEW c \in Cerradores, C!Postear(c) PROVE Atras'
  <2>1. C!TypeOK /\ Tarde /\ Atras /\ Cierra(c) /\ c \in C!Actores /\ C!Anio(c) \in C!Anios
    BY Lee DEF IInv, Cierran, C!Actores
  <2>2. /\ cPc[c] = "postear" /\ Salvo("cierre", C!Anio(c))
        /\ C!Vivo("cierre", C!Anio(c)) => asiento' = asiento
        /\ ~C!Vivo("cierre", C!Anio(c)) => asiento'["cierre"][C!Anio(c)].valor = cLeido[c].valor
        /\ cLeido[c].valor \in Nat
        /\ \A z \in C!Anios : z < C!Anio(c) => Queda(z) <= tarde[z]
    BY <1>5, <2>1, PostearHace, Lee DEF Cierra
  <2>3. movido' = movido /\ tarde' = tarde
    BY <1>5 DEF C!Postear
  <2> SUFFICES ASSUME NEW x \in C!Anios, x + 1 \in C!Anios, C!Vivo("cierre", x + 1)'
               PROVE  (Queda(x) <= tarde[x])'
    BY DEF Atras
  <2>4. CASE C!Vivo("cierre", C!Anio(c))
    BY <2>1, <2>2, <2>3, <2>4 DEF Atras, Queda, C!Efecto, C!Vivo
  <2>5. CASE ~C!Vivo("cierre", C!Anio(c))
    <3>1. Queda(x) <= tarde[x]
      <4>1. CASE x + 1 = C!Anio(c)
        BY <2>2, <4>1 DEF C!Anios
      <4>2. CASE x + 1 # C!Anio(c)
        BY <2>1, <2>2, <4>2 DEF Atras, C!Vivo, Salvo, C!Tipos
      <4> QED
        BY <4>1, <4>2
    <3>2. CASE x = C!Anio(c)
      <4>1. C!Efecto("cierre", x) = 0 /\ C!Efecto("cierre", x)' \in {0, cLeido[c].valor}
        BY <2>2, <2>5, <3>2 DEF C!Efecto
      <4> QED
        BY <2>1, <2>2, <2>3, <3>1, <4>1 DEF Queda, C!TypeOK
    <3>3. CASE x # C!Anio(c)
      BY <2>2, <2>3, <3>1, <3>3 DEF Queda, C!Efecto, C!Vivo, Salvo, C!Tipos
    <3> QED
      BY <3>2, <3>3
  <2> QED
    BY <2>4, <2>5
<1>6. ASSUME NEW c \in Cerradores, C!Trasladar(c) PROVE Atras'
  <2>1. Salvo("traslado", C!Anio(c)) /\ Atras
    BY <1>6, TrasladarHace DEF IInv
  <2>2. movido' = movido /\ tarde' = tarde
    BY <1>6 DEF C!Trasladar
  <2> QED
    BY <2>1, <2>2 DEF Atras, Queda, C!Efecto, C!Vivo, Salvo, C!Tipos
<1>7. ASSUME NEW r \in Reaperturas, NEW y \in C!Anios, C!Reabrir(r, y) PROVE Atras'
  BY <1>7 DEF IInv, Atras, Queda, C!Efecto, C!Vivo, C!Reabrir
<1>8. ASSUME NEW r \in Reaperturas, C!Siguiente(r) PROVE Atras'
  BY <1>8 DEF IInv, Atras, Queda, C!Efecto, C!Vivo, C!Siguiente
<1>9. ASSUME NEW r \in Reaperturas, C!Buscar(r) PROVE Atras'
  BY <1>9 DEF IInv, Atras, Queda, C!Efecto, C!Vivo, C!Buscar
<1>10. ASSUME NEW r \in Reaperturas, C!Contra(r) PROVE Atras'
  <2>1. /\ \A z \in C!Anios : C!Vivo("cierre", z)' => C!Vivo("cierre", z)
        /\ \A z \in C!Anios : z # C!Anio(r) \/ T(r) # "cierre" => asiento'["cierre"][z] = asiento["cierre"][z]
        /\ movido' = movido /\ tarde' = tarde /\ Atras /\ ~C!SiguienteCerrado(C!Anio(r))
    BY <1>10, ReversaHace DEF IInv, C!Tipos, Reabre
  <2> SUFFICES ASSUME NEW x \in C!Anios, x + 1 \in C!Anios, C!Vivo("cierre", x + 1)'
               PROVE  (Queda(x) <= tarde[x])'
    BY DEF Atras
  <2>2. C!Vivo("cierre", x + 1) /\ Queda(x) <= tarde[x] /\ x # C!Anio(r)
    BY <2>1 DEF Atras, C!SiguienteCerrado
  <2> QED
    BY <2>1, <2>2 DEF Queda, C!Efecto, C!Vivo
<1>11. ASSUME NEW r \in Reaperturas, C!Marcar(r) PROVE Atras'
  <2>1. /\ \A z \in C!Anios : C!Vivo("cierre", z)' => C!Vivo("cierre", z)
        /\ \A z \in C!Anios : z # C!Anio(r) \/ T(r) # "cierre" => asiento'["cierre"][z] = asiento["cierre"][z]
        /\ movido' = movido /\ tarde' = tarde /\ Atras /\ ~C!SiguienteCerrado(C!Anio(r))
    BY <1>11, ReversaHace DEF IInv, C!Tipos, Reabre
  <2> SUFFICES ASSUME NEW x \in C!Anios, x + 1 \in C!Anios, C!Vivo("cierre", x + 1)'
               PROVE  (Queda(x) <= tarde[x])'
    BY DEF Atras
  <2>2. C!Vivo("cierre", x + 1) /\ Queda(x) <= tarde[x] /\ x # C!Anio(r)
    BY <2>1 DEF Atras, C!SiguienteCerrado
  <2> QED
    BY <2>1, <2>2 DEF Queda, C!Efecto, C!Vivo
<1>12. ASSUME NEW a \in C!Actores, C!Corte(a) PROVE Atras'
  BY <1>12 DEF IInv, Atras, Queda, C!Efecto, C!Vivo, C!Corte
<1>13. ASSUME UNCHANGED C!vars PROVE Atras'
  BY <1>13 DEF IInv, Atras, Queda, C!Efecto, C!Vivo, C!vars
<1> QED
  BY <1>1, <1>2, <1>3, <1>4, <1>5, <1>6, <1>7, <1>8, <1>9, <1>10, <1>11, <1>12, <1>13
  DEF C!Next

LEMMA LlevaPaso ==
    ASSUME C!Supuestos, ~Cruces, IInv, [C!Next]_(C!vars)
    PROVE  Lleva'
<1>1. ASSUME NEW y \in C!Anios, C!Mover(y) PROVE Lleva'
  BY <1>1 DEF IInv, Lleva, Muerto, C!Vivo, C!Mover
<1>2. ASSUME NEW c \in Cerradores, NEW y \in C!Anios, C!Cerrar(c, y) PROVE Lleva'
  BY <1>2 DEF IInv, Lleva, Muerto, C!Vivo, C!Cerrar
<1>3. ASSUME NEW c \in Cerradores, C!Pendientes(c) \/ C!MirarTraslado(c) PROVE Lleva'
  BY <1>3 DEF IInv, Lleva, Muerto, C!Vivo, C!Pendientes, C!MirarTraslado
<1>4. ASSUME NEW c \in Cerradores, C!Armar(c) PROVE Lleva'
  BY <1>4 DEF IInv, Lleva, Muerto, C!Vivo, C!Armar
<1>5. ASSUME NEW c \in Cerradores, C!Postear(c) PROVE Lleva'
  <2>1. C!TypeOK /\ Lleva /\ c \in C!Actores /\ C!Anio(c) \in C!Anios
    BY Lee DEF IInv, C!Actores
  <2>2. Salvo("cierre", C!Anio(c)) /\ (C!Vivo("cierre", C!Anio(c)) => asiento' = asiento)
    BY <1>5, <2>1, PostearHace
  <2> SUFFICES ASSUME NEW y \in C!Anios, ~Muerto("traslado", y)'
               PROVE  (C!Vivo("cierre", y) /\ asiento["cierre"][y].valor = asiento["traslado"][y].valor)'
    BY DEF Lleva
  <2>3. asiento'["traslado"][y] = asiento["traslado"][y]
        /\ (C!Vivo("cierre", y) => asiento'["cierre"][y] = asiento["cierre"][y])
    BY <2>2 DEF Salvo, C!Tipos
  <2> QED
    BY <2>1, <2>3 DEF Lleva, Muerto, C!Vivo
<1>6. ASSUME NEW c \in Cerradores, C!Trasladar(c) PROVE Lleva'
  <2>1. C!TypeOK /\ Lleva /\ Cierra(c) /\ c \in C!Actores /\ C!Anio(c) \in C!Anios
    BY Lee DEF IInv, Cierran, C!Actores
  <2>2. /\ cPc[c] = "trasladar" /\ Salvo("traslado", C!Anio(c))
        /\ C!Vivo("traslado", C!Anio(c)) => asiento' = asiento
        /\ ~C!Vivo("traslado", C!Anio(c)) => asiento'["traslado"][C!Anio(c)].valor = cLeido[c].valor
    BY <1>6, <2>1, TrasladarHace
  <2>3. C!Vivo("cierre", C!Anio(c)) /\ cLeido[c].valor = asiento["cierre"][C!Anio(c)].valor
    BY <2>1, <2>2 DEF Cierra
  <2> SUFFICES ASSUME NEW y \in C!Anios, ~Muerto("traslado", y)'
               PROVE  (C!Vivo("cierre", y) /\ asiento["cierre"][y].valor = asiento["traslado"][y].valor)'
    BY DEF Lleva
  <2>4. asiento'["cierre"][y] = asiento["cierre"][y]
    BY <2>2 DEF Salvo, C!Tipos
  <2>5. CASE y = C!Anio(c) /\ ~C!Vivo("traslado", y)
    BY <2>2, <2>3, <2>4, <2>5 DEF C!Vivo
  <2>6. CASE y # C!Anio(c) \/ C!Vivo("traslado", y)
    <3>1. asiento'["traslado"][y] = asiento["traslado"][y]
      BY <2>2, <2>6 DEF Salvo, C!Tipos
    <3> QED
      BY <2>1, <2>4, <3>1 DEF Lleva, Muerto, C!Vivo
  <2> QED
    BY <2>5, <2>6
<1>7. ASSUME NEW r \in Reaperturas, NEW y \in C!Anios, C!Reabrir(r, y) PROVE Lleva'
  BY <1>7 DEF IInv, Lleva, Muerto, C!Vivo, C!Reabrir
<1>8. ASSUME NEW r \in Reaperturas, C!Siguiente(r) PROVE Lleva'
  BY <1>8 DEF IInv, Lleva, Muerto, C!Vivo, C!Siguiente
<1>9. ASSUME NEW r \in Reaperturas, C!Buscar(r) PROVE Lleva'
  BY <1>9 DEF IInv, Lleva, Muerto, C!Vivo, C!Buscar
<1>10. ASSUME NEW r \in Reaperturas, C!Contra(r) PROVE Lleva'
  <2>1. /\ T(r) \in C!Tipos /\ Reabre(r) /\ cPc[r] \in {"contra", "marcar"} /\ Lleva
        /\ \A t \in C!Tipos, z \in C!Anios :
             /\ Muerto(t, z) => Muerto(t, z)'
             /\ t = T(r) /\ z = C!Anio(r) => Muerto(t, z)'
             /\ t # T(r) \/ z # C!Anio(r) => asiento'[t][z] = asiento[t][z]
    BY <1>10, ReversaHace DEF IInv
  <2> SUFFICES ASSUME NEW y \in C!Anios, ~Muerto("traslado", y)'
               PROVE  (C!Vivo("cierre", y) /\ asiento["cierre"][y].valor = asiento["traslado"][y].valor)'
    BY DEF Lleva
  <2>2. y # C!Anio(r)
    <3>1. CASE T(r) = "traslado"
      BY <2>1, <3>1 DEF C!Tipos
    <3>2. CASE T(r) = "cierre"
      BY <2>1, <3>2 DEF C!Tipos, Reabre, T
    <3> QED
      BY <2>1, <3>1, <3>2 DEF C!Tipos
  <2>3. asiento'["cierre"][y] = asiento["cierre"][y] /\ asiento'["traslado"][y] = asiento["traslado"][y]
    BY <2>1, <2>2 DEF C!Tipos
  <2> QED
    BY <2>1, <2>3 DEF Lleva, Muerto, C!Vivo
<1>11. ASSUME NEW r \in Reaperturas, C!Marcar(r) PROVE Lleva'
  <2>1. /\ T(r) \in C!Tipos /\ Reabre(r) /\ cPc[r] \in {"contra", "marcar"} /\ Lleva
        /\ \A t \in C!Tipos, z \in C!Anios :
             /\ Muerto(t, z) => Muerto(t, z)'
             /\ t = T(r) /\ z = C!Anio(r) => Muerto(t, z)'
             /\ t # T(r) \/ z # C!Anio(r) => asiento'[t][z] = asiento[t][z]
    BY <1>11, ReversaHace DEF IInv
  <2> SUFFICES ASSUME NEW y \in C!Anios, ~Muerto("traslado", y)'
               PROVE  (C!Vivo("cierre", y) /\ asiento["cierre"][y].valor = asiento["traslado"][y].valor)'
    BY DEF Lleva
  <2>2. y # C!Anio(r)
    <3>1. CASE T(r) = "traslado"
      BY <2>1, <3>1 DEF C!Tipos
    <3>2. CASE T(r) = "cierre"
      BY <2>1, <3>2 DEF C!Tipos, Reabre, T
    <3> QED
      BY <2>1, <3>1, <3>2 DEF C!Tipos
  <2>3. asiento'["cierre"][y] = asiento["cierre"][y] /\ asiento'["traslado"][y] = asiento["traslado"][y]
    BY <2>1, <2>2 DEF C!Tipos
  <2> QED
    BY <2>1, <2>3 DEF Lleva, Muerto, C!Vivo
<1>12. ASSUME NEW a \in C!Actores, C!Corte(a) PROVE Lleva'
  BY <1>12 DEF IInv, Lleva, Muerto, C!Vivo, C!Corte
<1>13. ASSUME UNCHANGED C!vars PROVE Lleva'
  BY <1>13 DEF IInv, Lleva, Muerto, C!Vivo, C!vars
<1> QED
  BY <1>1, <1>2, <1>3, <1>4, <1>5, <1>6, <1>7, <1>8, <1>9, <1>10, <1>11, <1>12, <1>13
  DEF C!Next

LEMMA CierraIgual ==
    ASSUME NEW d \in Cerradores, Cierra(d),
           cPc'[d] = "libre" \/ (cPc'[d] = cPc[d] /\ cLeido'[d] = cLeido[d]
                                /\ movido' = movido /\ tarde' = tarde /\ asiento' = asiento)
    PROVE  Cierra(d)'
BY DEF Cierra, Queda, C!Efecto, C!Vivo, C!Anio

LEMMA ReabreIgual ==
    ASSUME NEW q \in Reaperturas, cPc[q] # "libre" => Reabre(q), asiento' = asiento,
           cPc'[q] = "libre" \/ (cPc'[q] = cPc[q] /\ cLeido'[q] = cLeido[q])
    PROVE  cPc'[q] # "libre" => Reabre(q)'
BY DEF Reabre, Muerto, C!Vivo, C!Anio, C!SiguienteCerrado

LEMMA CierranPaso ==
    ASSUME C!Supuestos, ~Cruces, IInv, [C!Next]_(C!vars)
    PROVE  Cierran'
<1>1. ASSUME NEW y \in C!Anios, C!Mover(y) PROVE Cierran'
  <2>1. /\ asiento' = asiento /\ movido' = [movido EXCEPT ![y] = @ + 1]
        /\ cPc' = cPc /\ cLeido' = cLeido
        /\ ~ \E d \in Cerradores : cPc[d] = "armar" /\ C!Anio(d) > y
        /\ (\E d \in Cerradores : cPc[d] = "postear" /\ C!Anio(d) > y) =>
               tarde' = [tarde EXCEPT ![y] = @ + 1]
        /\ tarde' \in {tarde, [tarde EXCEPT ![y] = @ + 1]} /\ Cierran /\ C!TypeOK
    BY <1>1 DEF C!Mover, IInv
  <2> SUFFICES ASSUME NEW d \in Cerradores PROVE Cierra(d)'
    BY DEF Cierran
  <2>2. Cierra(d) /\ d \in C!Actores /\ C!Anio(d) \in C!Anios /\ cLeido[d].valor \in Nat /\ C!Anio(d)' = C!Anio(d)
    BY <2>1, Lee DEF Cierran, C!Actores, C!Anio
  <2>3. \A z \in C!Anios : C!Efecto("cierre", z) \in Nat /\ C!Efecto("cierre", z)' = C!Efecto("cierre", z)
    BY <2>1, EfectoNatural DEF C!Efecto, C!Vivo, C!Tipos
  <2>4. cPc'[d] = "armar" => \A z \in C!Anios : z < C!Anio(d) => (Queda(z) = 0)'
    <3> SUFFICES ASSUME cPc[d] = "armar", NEW z \in C!Anios, z < C!Anio(d) PROVE (Queda(z) = 0)'
      BY <2>1
    <3>1. z # y
      BY <2>1, <2>2 DEF C!Anios
    <3> QED
      BY <2>1, <2>2, <2>3, <3>1 DEF Cierra, Queda, C!TypeOK
  <2>5. cPc'[d] = "postear" =>
          /\ cLeido[d].valor <= movido'[C!Anio(d)]
          /\ \A z \in C!Anios : z < C!Anio(d) => (Queda(z) <= tarde[z])'
    <3> SUFFICES ASSUME cPc[d] = "postear"
                 PROVE  /\ cLeido[d].valor <= movido'[C!Anio(d)]
                        /\ \A z \in C!Anios : z < C!Anio(d) => (Queda(z) <= tarde[z])'
      BY <2>1
    <3>1. cLeido[d].valor <= movido'[C!Anio(d)]
      BY <2>1, <2>2 DEF Cierra, C!TypeOK
    <3>2. ASSUME NEW z \in C!Anios, z < C!Anio(d) PROVE (Queda(z) <= tarde[z])'
      <4>1. Queda(z) <= tarde[z]
        BY <2>2, <3>2 DEF Cierra
      <4>2. CASE z = y
        <5>1. tarde' = [tarde EXCEPT ![y] = @ + 1]
          BY <2>1, <2>2, <3>2, <4>2 DEF C!Anios
        <5> QED
          BY <2>1, <2>3, <4>1, <4>2, <5>1 DEF Queda, C!TypeOK
      <4>3. CASE z # y
        BY <2>1, <2>3, <4>1, <4>3 DEF Queda, C!TypeOK
      <4> QED
        BY <4>2, <4>3
    <3> QED
      BY <3>1, <3>2
  <2>6. cPc'[d] \in {"mirarTraslado", "trasladar"} =>
          (C!Vivo("cierre", C!Anio(d)) /\ cLeido[d].valor = asiento["cierre"][C!Anio(d)].valor)'
    BY <2>1, <2>2 DEF Cierra, C!Vivo, C!Anio
  <2> QED
    BY <2>1, <2>2, <2>4, <2>5, <2>6 DEF Cierra
<1>2. ASSUME NEW c \in Cerradores, NEW y \in C!Anios, C!Cerrar(c, y) PROVE Cierran'
  <2>1. \A d \in Cerradores : Cierra(d)
    BY DEF IInv, Cierran
  <2>2. movido' = movido /\ tarde' = tarde /\ asiento' = asiento
    BY <1>2 DEF C!Cerrar
  <2>3. \A d \in Cerradores : d # c => cPc'[d] = cPc[d] /\ cLeido'[d] = cLeido[d]
    BY <1>2, CerrarHace DEF IInv, Sanos, Solo, C!Actores
  <2>4. /\ cLeido'[c].anio = y /\ cPc'[c] \in {"mirarTraslado", "pendientes"}
        /\ cPc'[c] = "mirarTraslado" =>
             C!Vivo("cierre", y) /\ cLeido'[c].valor = asiento["cierre"][y].valor
    BY <1>2, CerrarHace DEF IInv
  <2>5. Cierra(c)'
    BY <2>2, <2>4 DEF Cierra, C!Vivo, C!Anio
  <2> QED
    BY <2>1, <2>2, <2>3, <2>5, CierraIgual DEF Cierran
<1>3. ASSUME NEW c \in Cerradores, C!Pendientes(c) \/ C!MirarTraslado(c) PROVE Cierran'
  <2>1. \A d \in Cerradores : Cierra(d)
    BY DEF IInv, Cierran
  <2>2. movido' = movido /\ tarde' = tarde /\ asiento' = asiento
    BY <1>3 DEF C!Pendientes, C!MirarTraslado
  <2>3. \A d \in Cerradores : d # c => cPc'[d] = cPc[d] /\ cLeido'[d] = cLeido[d]
    BY <1>3, PendientesHace DEF IInv, Sanos, Solo, C!Actores
  <2>4. /\ C!TypeOK /\ Tarde /\ c \in C!Actores /\ C!Anio(c) \in C!Anios /\ cLeido' = cLeido /\ C!Anio(c)' = C!Anio(c)
        /\ \/ cPc'[c] = "libre"
           \/ cPc'[c] = "armar" /\ ~C!HayPendientes(C!Anio(c))
           \/ cPc[c] = "mirarTraslado" /\ cPc'[c] = "trasladar"
    BY <1>3, PendientesHace, Lee DEF IInv, C!Actores, C!Anio
  <2>5. CASE cPc'[c] = "armar" /\ ~C!HayPendientes(C!Anio(c))
    <3>1. \A z \in C!Anios : z < C!Anio(c) => Queda(z) = 0
      BY <2>4, <2>5, SaldoHace DEF C!HayPendientes
    <3>2. \A z \in C!Anios : Queda(z)' = Queda(z)
      BY <2>2 DEF Queda, C!Efecto, C!Vivo
    <3>3. Cierra(c)'
      BY <2>4, <2>5, <3>1, <3>2 DEF Cierra
    <3> QED
      BY <2>1, <2>2, <2>3, <3>3, CierraIgual DEF Cierran
  <2>6. CASE cPc[c] = "mirarTraslado" /\ cPc'[c] = "trasladar"
    <3>1. Cierra(c)'
      BY <2>1, <2>2, <2>4, <2>6 DEF Cierra, C!Vivo
    <3> QED
      BY <2>1, <2>2, <2>3, <3>1, CierraIgual DEF Cierran
  <2>7. CASE cPc'[c] = "libre"
    BY <2>1, <2>2, <2>3, <2>7, CierraIgual DEF Cierran
  <2> QED
    BY <2>4, <2>5, <2>6, <2>7
<1>4. ASSUME NEW c \in Cerradores, C!Armar(c) PROVE Cierran'
  <2>1. \A d \in Cerradores : Cierra(d)
    BY DEF IInv, Cierran
  <2>2. movido' = movido /\ tarde' = tarde /\ asiento' = asiento
    BY <1>4 DEF C!Armar
  <2>3. \A d \in Cerradores : d # c => cPc'[d] = cPc[d] /\ cLeido'[d] = cLeido[d]
    BY <1>4, ArmarHace DEF IInv, Sanos, Solo, C!Actores
  <2>4. /\ C!TypeOK /\ Tarde /\ c \in C!Actores /\ C!Anio(c) \in C!Anios
        /\ cPc[c] = "armar" /\ cLeido'[c].anio = C!Anio(c) /\ cLeido'[c].valor = C!Saldo(C!Anio(c))
        /\ cPc'[c] \in {"libre", "postear"}
    BY <1>4, ArmarHace, Lee DEF IInv, C!Actores
  <2>5. \A z \in C!Anios : z < C!Anio(c) => Queda(z) = 0
    BY <2>1, <2>4 DEF Cierra
  <2>6. C!Saldo(C!Anio(c)) = Queda(C!Anio(c))
    BY <2>4, <2>5, SaldoHace
  <2>7. \A z \in C!Anios : Queda(z)' = Queda(z) /\ tarde[z] \in Nat /\ Queda(z) <= movido[z]
    BY <2>2, <2>4, EfectoNatural DEF Queda, C!Efecto, C!Vivo, C!Tipos
  <2>8. Cierra(c)'
    <3>1. C!Anio(c)' = C!Anio(c)
      BY <2>4 DEF C!Anio
    <3>2. cLeido'[c].valor <= movido'[C!Anio(c)]
      BY <2>2, <2>4, <2>6, <2>7
    <3>3. \A z \in C!Anios : z < C!Anio(c) => Queda(z)' <= tarde'[z]
      BY <2>2, <2>5, <2>7
    <3> QED
      BY <2>4, <3>1, <3>2, <3>3 DEF Cierra
  <2> QED
    BY <2>1, <2>2, <2>3, <2>8, CierraIgual DEF Cierran
<1>5. ASSUME NEW c \in Cerradores, C!Postear(c) PROVE Cierran'
  <2>1. C!TypeOK /\ Tarde /\ (\A d \in Cerradores : Cierra(d)) /\ c \in C!Actores /\ C!Anio(c) \in C!Anios
    BY Lee DEF IInv, Cierran, C!Actores
  <2>2. /\ cPc[c] = "postear" /\ cPc'[c] = "mirarTraslado" /\ Salvo("cierre", C!Anio(c)) /\ Sanos(c)
        /\ cLeido'[c].anio = C!Anio(c) /\ cLeido'[c].valor = asiento'["cierre"][C!Anio(c)].valor
        /\ C!Vivo("cierre", C!Anio(c)) => asiento' = asiento
        /\ ~C!Vivo("cierre", C!Anio(c)) =>
             /\ asiento'["cierre"][C!Anio(c)].vivo
             /\ asiento'["cierre"][C!Anio(c)].valor = cLeido[c].valor
    BY <1>5, <2>1, PostearHace
  <2>3. movido' = movido /\ tarde' = tarde
    BY <1>5 DEF C!Postear
  <2>4. cLeido[c].valor \in Nat /\ cLeido[c].valor <= movido[C!Anio(c)]
    BY <2>1, <2>2, Lee DEF Cierra
  <2> SUFFICES ASSUME NEW d \in Cerradores PROVE Cierra(d)'
    BY DEF Cierran
  <2>5. CASE d = c
    BY <2>2, <2>5 DEF Cierra, C!Vivo, C!Anio
  <2>6. CASE d # c
    <3>1. cPc'[d] = cPc[d] /\ cLeido'[d] = cLeido[d] /\ Cierra(d) /\ d \in C!Actores
      BY <2>1, <2>2, <2>6 DEF Sanos, Solo, C!Actores
    <3>2. CASE C!Vivo("cierre", C!Anio(c))
      BY <2>2, <2>3, <3>1, <3>2, CierraIgual
    <3>3. CASE ~C!Vivo("cierre", C!Anio(c))
      <4>1. \A z \in C!Anios : z # C!Anio(c) =>
              asiento'["cierre"][z] = asiento["cierre"][z] /\ Queda(z)' = Queda(z)
        BY <2>2, <2>3 DEF Salvo, C!Tipos, Queda, C!Efecto, C!Vivo
      <4>2. /\ Queda(C!Anio(c)) = movido[C!Anio(c)] /\ movido[C!Anio(c)] \in Nat /\ tarde[C!Anio(c)] \in Nat
            /\ \A z \in C!Anios : z = C!Anio(c) =>
                 Queda(z)' \in {movido[C!Anio(c)], movido[C!Anio(c)] - cLeido[c].valor}
        BY <2>1, <2>2, <2>3, <3>3 DEF Queda, C!Efecto, C!Vivo, C!TypeOK
      <4>3. \A z \in C!Anios : (Queda(z) = 0 => Queda(z)' = 0) /\ (Queda(z) <= tarde[z] => Queda(z)' <= tarde'[z])
        BY <2>1, <2>3, <2>4, <4>1, <4>2
      <4>4. C!Anio(d)' = C!Anio(d) /\ C!Anio(d) \in C!Anios
        BY <2>1, <3>1, Lee DEF C!Anio
      <4>5. cPc[d] \in {"mirarTraslado", "trasladar"} =>
              (C!Vivo("cierre", C!Anio(d)) /\ cLeido[d].valor = asiento["cierre"][C!Anio(d)].valor)'
        BY <3>1, <3>3, <4>1, <4>4 DEF Cierra, C!Vivo, C!Anio
      <4> QED
        BY <2>3, <3>1, <4>3, <4>4, <4>5 DEF Cierra
    <3> QED
      BY <3>2, <3>3
  <2> QED
    BY <2>5, <2>6
<1>6. ASSUME NEW c \in Cerradores, C!Trasladar(c) PROVE Cierran'
  <2>1. C!TypeOK /\ (\A d \in Cerradores : Cierra(d))
    BY DEF IInv, Cierran
  <2>2. Salvo("traslado", C!Anio(c)) /\ Sanos(c) /\ cPc'[c] = "libre"
    BY <1>6, <2>1, TrasladarHace
  <2>3. movido' = movido /\ tarde' = tarde /\ cLeido' = cLeido
    BY <1>6 DEF C!Trasladar
  <2>4. \A z \in C!Anios : asiento'["cierre"][z] = asiento["cierre"][z] /\ Queda(z)' = Queda(z)
    BY <2>2, <2>3 DEF Salvo, C!Tipos, Queda, C!Efecto, C!Vivo
  <2> SUFFICES ASSUME NEW d \in Cerradores PROVE Cierra(d)'
    BY DEF Cierran
  <2>5. cPc'[d] = "libre" \/ cPc'[d] = cPc[d]
    BY <2>2 DEF Sanos, Solo, C!Actores
  <2>6. Cierra(d) /\ C!Anio(d) \in C!Anios /\ C!Anio(d)' = C!Anio(d)
    BY <2>1, <2>3, Lee DEF C!Actores, C!Anio
  <2> QED
    BY <2>3, <2>4, <2>5, <2>6 DEF Cierra, C!Vivo
<1>7. ASSUME NEW r \in Reaperturas, NEW y \in C!Anios, C!Reabrir(r, y) PROVE Cierran'
  <2>1. \A d \in Cerradores : Cierra(d)
    BY DEF IInv, Cierran
  <2>2. movido' = movido /\ tarde' = tarde /\ asiento' = asiento
    BY <1>7 DEF C!Reabrir
  <2>3. \A d \in Cerradores : cPc'[d] = "libre" \/ (cPc'[d] = cPc[d] /\ cLeido'[d] = cLeido[d])
    BY <1>7, ReabrirHace DEF IInv, Sanos, Solo, C!Actores, C!Supuestos
  <2> QED
    BY <2>1, <2>2, <2>3, CierraIgual DEF Cierran
<1>8. ASSUME NEW r \in Reaperturas, C!Siguiente(r) PROVE Cierran'
  <2>1. \A d \in Cerradores : Cierra(d)
    BY DEF IInv, Cierran
  <2>2. movido' = movido /\ tarde' = tarde /\ asiento' = asiento
    BY <1>8 DEF C!Siguiente
  <2>3. \A d \in Cerradores : cPc'[d] = "libre" \/ (cPc'[d] = cPc[d] /\ cLeido'[d] = cLeido[d])
    BY <1>8, SiguienteHace DEF IInv, Sanos, Solo, C!Actores, C!Supuestos
  <2> QED
    BY <2>1, <2>2, <2>3, CierraIgual DEF Cierran
<1>9. ASSUME NEW r \in Reaperturas, C!Buscar(r) PROVE Cierran'
  <2>1. \A d \in Cerradores : Cierra(d)
    BY DEF IInv, Cierran
  <2>2. movido' = movido /\ tarde' = tarde /\ asiento' = asiento
    BY <1>9 DEF C!Buscar
  <2>3. \A d \in Cerradores : cPc'[d] = "libre" \/ (cPc'[d] = cPc[d] /\ cLeido'[d] = cLeido[d])
    BY <1>9, BuscarHace DEF IInv, Sanos, Solo, C!Actores, C!Supuestos
  <2> QED
    BY <2>1, <2>2, <2>3, CierraIgual DEF Cierran
<1>10. ASSUME NEW r \in Reaperturas, C!Contra(r) PROVE Cierran'
  <2>1. \A d \in Cerradores : cPc'[d] = "libre"
    BY <1>10, ReversaHace, Solos DEF IInv, Sanos, Solo, C!Actores, C!Supuestos
  <2> QED
    BY <2>1 DEF Cierran, Cierra
<1>11. ASSUME NEW r \in Reaperturas, C!Marcar(r) PROVE Cierran'
  <2>1. \A d \in Cerradores : cPc'[d] = "libre"
    BY <1>11, ReversaHace, Solos DEF IInv, Sanos, Solo, C!Actores, C!Supuestos
  <2> QED
    BY <2>1 DEF Cierran, Cierra
<1>12. ASSUME NEW a \in C!Actores, C!Corte(a) PROVE Cierran'
  <2>1. \A d \in Cerradores : Cierra(d)
    BY DEF IInv, Cierran
  <2>2. movido' = movido /\ tarde' = tarde /\ asiento' = asiento
    BY <1>12 DEF C!Corte
  <2>3. \A d \in Cerradores : cPc'[d] = "libre" \/ (cPc'[d] = cPc[d] /\ cLeido'[d] = cLeido[d])
    BY <1>12, CorteHace DEF IInv, Sanos, Solo, C!Actores, C!Supuestos
  <2> QED
    BY <2>1, <2>2, <2>3, CierraIgual DEF Cierran
<1>13. ASSUME UNCHANGED C!vars PROVE Cierran'
  <2>1. \A d \in Cerradores : Cierra(d)
    BY DEF IInv, Cierran
  <2>2. UNCHANGED <<movido, tarde, asiento, cPc, cLeido>>
    BY <1>13 DEF C!vars
  <2> QED
    BY <2>1, <2>2, CierraIgual DEF Cierran
<1> QED
  BY <1>1, <1>2, <1>3, <1>4, <1>5, <1>6, <1>7, <1>8, <1>9, <1>10, <1>11, <1>12, <1>13
  DEF C!Next

LEMMA ReabrenPaso ==
    ASSUME C!Supuestos, ~Cruces, IInv, [C!Next]_(C!vars)
    PROVE  Reabren'
<1>1. ASSUME NEW y \in C!Anios, C!Mover(y) PROVE Reabren'
  <2>1. UNCHANGED <<asiento, cPc, cLeido>>
    BY <1>1 DEF C!Mover
  <2> QED
    BY <2>1, ReabreIgual DEF IInv, Reabren
<1>2. ASSUME NEW c \in Cerradores, NEW y \in C!Anios, C!Cerrar(c, y) PROVE Reabren'
  <2>1. \A q \in Reaperturas : cPc[q] = "libre"
    BY <1>2 DEF C!Cerrar, C!Trabajan
  <2>2. \A q \in Reaperturas : cPc'[q] = cPc[q]
    BY <1>2, CerrarHace DEF IInv, Sanos, Solo, C!Actores, C!Supuestos
  <2> QED
    BY <2>1, <2>2 DEF Reabren
<1>3. ASSUME NEW c \in Cerradores, C!Pendientes(c) \/ C!MirarTraslado(c) PROVE Reabren'
  <2>1. \A q \in Reaperturas : cPc[q] = "libre"
    BY <1>3, Solos DEF IInv, C!Pendientes, C!MirarTraslado
  <2>2. \A q \in Reaperturas : cPc'[q] = cPc[q]
    BY <1>3, PendientesHace DEF IInv, Sanos, Solo, C!Actores, C!Supuestos
  <2> QED
    BY <2>1, <2>2 DEF Reabren
<1>4. ASSUME NEW c \in Cerradores, C!Armar(c) PROVE Reabren'
  <2>1. \A q \in Reaperturas : cPc[q] = "libre"
    BY <1>4, Solos DEF IInv, C!Armar
  <2>2. \A q \in Reaperturas : cPc'[q] = cPc[q]
    BY <1>4, ArmarHace DEF IInv, Sanos, Solo, C!Actores, C!Supuestos
  <2> QED
    BY <2>1, <2>2 DEF Reabren
<1>5. ASSUME NEW c \in Cerradores, C!Postear(c) PROVE Reabren'
  <2>1. \A q \in Reaperturas : cPc[q] = "libre"
    BY <1>5, Solos DEF IInv, C!Postear
  <2>2. \A q \in Reaperturas : cPc'[q] = cPc[q]
    BY <1>5, PostearHace DEF IInv, Sanos, Solo, C!Actores, C!Supuestos
  <2> QED
    BY <2>1, <2>2 DEF Reabren
<1>6. ASSUME NEW c \in Cerradores, C!Trasladar(c) PROVE Reabren'
  <2>1. \A q \in Reaperturas : cPc[q] = "libre"
    BY <1>6, Solos DEF IInv, C!Trasladar
  <2>2. \A q \in Reaperturas : cPc'[q] = cPc[q]
    BY <1>6, TrasladarHace DEF IInv, Sanos, Solo, C!Actores, C!Supuestos
  <2> QED
    BY <2>1, <2>2 DEF Reabren
<1>7. ASSUME NEW r \in Reaperturas, NEW y \in C!Anios, C!Reabrir(r, y) PROVE Reabren'
  <2>1. \A q \in Reaperturas : cPc[q] # "libre" => Reabre(q)
    BY DEF IInv, Reabren
  <2>2. asiento' = asiento
    BY <1>7 DEF C!Reabrir
  <2>3. \A q \in Reaperturas : q # r => cPc'[q] = cPc[q] /\ cLeido'[q] = cLeido[q]
    BY <1>7, ReabrirHace DEF IInv, Sanos, Solo, C!Actores
  <2>4. /\ cPc'[r] = "siguiente" /\ cLeido'[r].anio = y
        /\ cLeido'[r].tipo = "cierre" /\ cLeido'[r].id["cierre"] = asiento["cierre"][y].id
    BY <1>7, ReabrirHace DEF IInv
  <2>5. Reabre(r)'
    BY <2>2, <2>4 DEF Reabre, C!Anio
  <2> QED
    BY <2>1, <2>2, <2>3, <2>5, ReabreIgual DEF Reabren
<1>8. ASSUME NEW r \in Reaperturas, C!Siguiente(r) PROVE Reabren'
  <2>1. \A q \in Reaperturas : cPc[q] # "libre" => Reabre(q)
    BY DEF IInv, Reabren
  <2>2. asiento' = asiento
    BY <1>8 DEF C!Siguiente
  <2>3. \A q \in Reaperturas : q # r => cPc'[q] = cPc[q] /\ cLeido'[q] = cLeido[q]
    BY <1>8, SiguienteHace DEF IInv, Sanos, Solo, C!Actores
  <2>4. /\ cPc[r] = "siguiente" /\ cLeido' = cLeido
        /\ cPc'[r] = "libre" \/ (cPc'[r] = "buscar" /\ ~C!SiguienteCerrado(C!Anio(r)))
    BY <1>8, SiguienteHace DEF IInv
  <2>5. cPc'[r] # "libre" => Reabre(r)'
    <3>1. Reabre(r)
      BY <2>1, <2>4
    <3>2. C!Anio(r)' = C!Anio(r)
      BY <2>4 DEF C!Anio
    <3>3. ~C!SiguienteCerrado(C!Anio(r)) => ~C!SiguienteCerrado(C!Anio(r))'
      BY <2>2, <3>2 DEF C!SiguienteCerrado, C!Vivo
    <3> QED
      BY <2>2, <2>4, <3>1, <3>2, <3>3 DEF Reabre
  <2> QED
    BY <2>1, <2>2, <2>3, <2>5, ReabreIgual DEF Reabren
<1>9. ASSUME NEW r \in Reaperturas, C!Buscar(r) PROVE Reabren'
  <2>1. \A q \in Reaperturas : cPc[q] # "libre" => Reabre(q)
    BY DEF IInv, Reabren
  <2>2. asiento' = asiento
    BY <1>9 DEF C!Buscar
  <2>3. \A q \in Reaperturas : q # r => cPc'[q] = cPc[q] /\ cLeido'[q] = cLeido[q]
    BY <1>9, BuscarHace DEF IInv, Sanos, Solo, C!Actores
  <2>4. /\ cPc[r] = "buscar" /\ cPc'[r] = "contra" /\ cLeido'[r].anio = C!Anio(r)
        /\ cLeido'[r].id["cierre"] = cLeido[r].id["cierre"]
        /\ ~C!Vivo("traslado", C!Anio(r)) => cLeido'[r] = cLeido[r]
        /\ C!Vivo("traslado", C!Anio(r)) =>
             /\ cLeido'[r].tipo = "traslado"
             /\ cLeido'[r].id["traslado"] = asiento["traslado"][C!Anio(r)].id
    BY <1>9, BuscarHace DEF IInv
  <2>5. Reabre(r)'
    <3>1. Reabre(r)
      BY <2>1, <2>4
    <3>2. C!Anio(r)' = C!Anio(r)
      BY <2>4 DEF C!Anio
    <3>3. ~C!SiguienteCerrado(C!Anio(r))'
      BY <2>2, <2>4, <3>1, <3>2 DEF Reabre, C!SiguienteCerrado, C!Vivo
    <3>4. cLeido'[r].tipo = "cierre" => Muerto("traslado", C!Anio(r))'
      BY <2>2, <2>4, <3>2 DEF Muerto, C!Vivo
    <3>5. cLeido'[r].id["cierre"] = asiento'["cierre"][C!Anio(r)'].id
      BY <2>2, <2>4, <3>1, <3>2 DEF Reabre
    <3>6. cLeido'[r].tipo = "traslado" => cLeido'[r].id["traslado"] = asiento'["traslado"][C!Anio(r)'].id
      BY <2>2, <2>4, <3>1, <3>2 DEF Reabre
    <3> QED
      BY <2>4, <3>3, <3>4, <3>5, <3>6 DEF Reabre
  <2> QED
    BY <2>1, <2>2, <2>3, <2>5, ReabreIgual DEF Reabren
<1>10. ASSUME NEW r \in Reaperturas, C!Contra(r) PROVE Reabren'
  <2>1. /\ Sanos(r) /\ r \in C!Actores /\ T(r) \in C!Tipos /\ C!Anio(r) \in C!Anios /\ C!TypeOK /\ Reabre(r)
        /\ cPc[r] \in {"contra", "marcar"}
        /\ \A t \in C!Tipos, z \in C!Anios :
             /\ asiento'[t][z].id = asiento[t][z].id
             /\ C!Vivo(t, z)' => C!Vivo(t, z)
             /\ Muerto(t, z) => Muerto(t, z)'
             /\ t = T(r) /\ z = C!Anio(r) => Muerto(t, z)'
    BY <1>10, ReversaHace DEF IInv
  <2> SUFFICES ASSUME NEW q \in Reaperturas, cPc'[q] # "libre" PROVE Reabre(q)'
    BY DEF Reabren
  <2>2. q \in C!Actores /\ C!Anio(q) \in C!Anios /\ T(q) \in C!Tipos
    BY <2>1, Lee DEF C!Actores, T
  <2>3. \A y \in C!Anios : ~C!SiguienteCerrado(y) => ~C!SiguienteCerrado(y)'
    BY <2>1 DEF C!SiguienteCerrado, C!Tipos
  <2>4. CASE q # r
    <3>1. cPc'[q] = cPc[q] /\ cLeido'[q] = cLeido[q] /\ Reabre(q)
      BY <2>1, <2>2, <2>4 DEF Sanos, Solo, IInv, Reabren
    <3>2. \A y \in C!Anios : y = C!Anio(q) =>
            /\ C!Anio(q)' = y
            /\ cLeido'[q].id["cierre"] = asiento'["cierre"][y].id
            /\ cLeido'[q].tipo = "traslado" =>
                 cPc'[q] \in {"contra", "marcar"} /\ cLeido'[q].id["traslado"] = asiento'["traslado"][y].id
            /\ cPc'[q] \in {"buscar", "contra", "marcar"} => ~C!SiguienteCerrado(y)'
            /\ cPc'[q] \in {"contra", "marcar"} /\ cLeido'[q].tipo = "cierre" => Muerto("traslado", y)'
      BY <2>1, <2>3, <3>1 DEF Reabre, C!Tipos, C!Anio
    <3>3. \A y \in C!Anios, t \in C!Tipos : y = C!Anio(q) /\ t = T(q) /\ cPc'[q] = "marcar" =>
            T(q)' = t /\ Muerto(t, y)'
      BY <2>1, <3>1 DEF Reabre, T
    <3> QED
      BY <2>2, <3>2, <3>3 DEF Reabre, T
  <2>5. CASE q = r
    <3>1. cPc'[r] = "marcar" /\ cPc[r] = "contra" /\ cLeido' = cLeido
      BY <1>10, <2>5, ContraPaso DEF IInv
    <3>2. \A y \in C!Anios : y = C!Anio(r) =>
            /\ C!Anio(r)' = y
            /\ cLeido'[r].id["cierre"] = asiento'["cierre"][y].id
            /\ cLeido'[r].tipo = "traslado" => cLeido'[r].id["traslado"] = asiento'["traslado"][y].id
            /\ ~C!SiguienteCerrado(y)'
            /\ cLeido'[r].tipo = "cierre" => Muerto("traslado", y)'
      BY <2>1, <2>3, <3>1 DEF Reabre, C!Tipos, C!Anio
    <3>3. \A y \in C!Anios, t \in C!Tipos : y = C!Anio(r) /\ t = T(r) => T(r)' = t /\ Muerto(t, y)'
      BY <2>1, <3>1 DEF T
    <3> QED
      BY <2>1, <2>5, <3>1, <3>2, <3>3 DEF Reabre, T
  <2> QED
    BY <2>4, <2>5
<1>11. ASSUME NEW r \in Reaperturas, C!Marcar(r) PROVE Reabren'
  <2>1. /\ Sanos(r) /\ r \in C!Actores /\ T(r) \in C!Tipos /\ C!Anio(r) \in C!Anios /\ C!TypeOK /\ Reabre(r)
        /\ cPc[r] \in {"contra", "marcar"}
        /\ \A t \in C!Tipos, z \in C!Anios :
             /\ asiento'[t][z].id = asiento[t][z].id
             /\ C!Vivo(t, z)' => C!Vivo(t, z)
             /\ Muerto(t, z) => Muerto(t, z)'
             /\ t = T(r) /\ z = C!Anio(r) => Muerto(t, z)'
    BY <1>11, ReversaHace DEF IInv
  <2> SUFFICES ASSUME NEW q \in Reaperturas, cPc'[q] # "libre" PROVE Reabre(q)'
    BY DEF Reabren
  <2>2. q \in C!Actores /\ C!Anio(q) \in C!Anios /\ T(q) \in C!Tipos
    BY <2>1, Lee DEF C!Actores, T
  <2>3. \A y \in C!Anios : ~C!SiguienteCerrado(y) => ~C!SiguienteCerrado(y)'
    BY <2>1 DEF C!SiguienteCerrado, C!Tipos
  <2>4. CASE q # r
    <3>1. cPc'[q] = cPc[q] /\ cLeido'[q] = cLeido[q] /\ Reabre(q)
      BY <2>1, <2>2, <2>4 DEF Sanos, Solo, IInv, Reabren
    <3>2. \A y \in C!Anios : y = C!Anio(q) =>
            /\ C!Anio(q)' = y
            /\ cLeido'[q].id["cierre"] = asiento'["cierre"][y].id
            /\ cLeido'[q].tipo = "traslado" =>
                 cPc'[q] \in {"contra", "marcar"} /\ cLeido'[q].id["traslado"] = asiento'["traslado"][y].id
            /\ cPc'[q] \in {"buscar", "contra", "marcar"} => ~C!SiguienteCerrado(y)'
            /\ cPc'[q] \in {"contra", "marcar"} /\ cLeido'[q].tipo = "cierre" => Muerto("traslado", y)'
      BY <2>1, <2>3, <3>1 DEF Reabre, C!Tipos, C!Anio
    <3>3. \A y \in C!Anios, t \in C!Tipos : y = C!Anio(q) /\ t = T(q) /\ cPc'[q] = "marcar" =>
            T(q)' = t /\ Muerto(t, y)'
      BY <2>1, <3>1 DEF Reabre, T
    <3> QED
      BY <2>2, <3>2, <3>3 DEF Reabre, T
  <2>5. CASE q = r
    <3>1. /\ T(r) = "traslado" /\ cPc'[r] = "contra" /\ cPc[r] = "marcar"
          /\ cLeido'[r].tipo = "cierre" /\ cLeido'[r].anio = C!Anio(r) /\ cLeido'[r].id = cLeido[r].id
      BY <1>11, <2>5, MarcarHace DEF IInv
    <3>2. \A y \in C!Anios : y = C!Anio(r) =>
            /\ C!Anio(r)' = y
            /\ cLeido'[r].id["cierre"] = asiento'["cierre"][y].id
            /\ ~C!SiguienteCerrado(y)' /\ Muerto("traslado", y)'
      BY <2>1, <2>3, <3>1 DEF Reabre, C!Tipos, C!Anio
    <3> QED
      BY <2>1, <2>5, <3>1, <3>2 DEF Reabre
  <2> QED
    BY <2>4, <2>5
<1>12. ASSUME NEW a \in C!Actores, C!Corte(a) PROVE Reabren'
  <2>1. \A q \in Reaperturas : cPc[q] # "libre" => Reabre(q)
    BY DEF IInv, Reabren
  <2>2. asiento' = asiento
    BY <1>12 DEF C!Corte
  <2>3. \A q \in Reaperturas : cPc'[q] = "libre" \/ (cPc'[q] = cPc[q] /\ cLeido'[q] = cLeido[q])
    BY <1>12, CorteHace DEF IInv, Sanos, Solo, C!Actores
  <2> QED
    BY <2>1, <2>2, <2>3, ReabreIgual DEF Reabren
<1>13. ASSUME UNCHANGED C!vars PROVE Reabren'
  <2>1. UNCHANGED <<asiento, cPc, cLeido>>
    BY <1>13 DEF C!vars
  <2> QED
    BY <2>1, ReabreIgual DEF IInv, Reabren
<1> QED
  BY <1>1, <1>2, <1>3, <1>4, <1>5, <1>6, <1>7, <1>8, <1>9, <1>10, <1>11, <1>12, <1>13
  DEF C!Next

\* Who is about to mark an entry.
Marca(a, t, y) == a \in Reaperturas /\ cPc[a] = "marcar" /\ cLeido[a].tipo = t /\ C!Anio(a) = y

LEMMA ParejaSigue ==
    ASSUME Pareja, cCortes = 0, NEW a \in C!Actores, Solo(a),
           \A y \in C!Anios, t \in C!Tipos : asiento'[t][y].contra =>
               (asiento[t][y].contra /\ ~Marca(a, t, y)) \/ Marca(a, t, y)',
           \A y \in C!Anios :
               \/ C!Efecto("traslado", y)' = C!Efecto("cierre", y)'
               \/ Empareja(a, y)'
               \/ /\ ~Empareja(a, y)
                  /\ C!Efecto("traslado", y)' = C!Efecto("traslado", y)
                  /\ C!Efecto("cierre", y)' = C!Efecto("cierre", y)
    PROVE  Pareja'
<1>1. ASSUME NEW y \in C!Anios, NEW t \in C!Tipos, asiento'[t][y].contra
      PROVE  \E r \in Reaperturas : cPc'[r] = "marcar" /\ cLeido'[r].tipo = t /\ C!Anio(r)' = y
  <2>1. CASE Marca(a, t, y)'
    BY <2>1 DEF Marca
  <2>2. CASE asiento[t][y].contra /\ ~Marca(a, t, y)
    <3>1. PICK r \in Reaperturas : cPc[r] = "marcar" /\ cLeido[r].tipo = t /\ C!Anio(r) = y
      BY <2>2 DEF Pareja
    <3>2. r # a /\ r \in C!Actores
      BY <2>2, <3>1 DEF Marca, C!Actores
    <3> QED
      BY <3>1, <3>2 DEF Solo, C!Anio
  <2> QED
    BY <1>1, <2>1, <2>2
<1>2. ASSUME NEW y \in C!Anios
      PROVE  C!Efecto("traslado", y)' = C!Efecto("cierre", y)' \/ \E b \in C!Actores : Empareja(b, y)'
  <2>1. SUFFICES ASSUME ~Empareja(a, y), C!Efecto("traslado", y) # C!Efecto("cierre", y),
                        C!Efecto("traslado", y)' = C!Efecto("traslado", y),
                        C!Efecto("cierre", y)' = C!Efecto("cierre", y)
                 PROVE  \E b \in C!Actores : Empareja(b, y)'
    OBVIOUS
  <2>2. PICK b \in C!Actores : Empareja(b, y)
    BY <2>1 DEF Pareja
  <2>3. b # a
    BY <2>1, <2>2
  <2>4. Empareja(b, y)'
    BY <2>2, <2>3 DEF Solo, Empareja, C!Anio
  <2> QED
    BY <2>4
<1> QED
  BY <1>1, <1>2 DEF Pareja

\* While somebody closes, a transfer there is says what its closing says.
LEMMA Parejos ==
    ASSUME IInv, cCortes = 0, NEW c \in Cerradores, cPc[c] # "libre"
    PROVE  /\ \A t \in C!Tipos, y \in C!Anios : ~asiento[t][y].contra
           /\ \A y \in C!Anios : C!Vivo("traslado", y) => C!Efecto("traslado", y) = C!Efecto("cierre", y)
<1>1. \A r \in Reaperturas : cPc[r] = "libre"
  BY Solos DEF IInv
<1>2. \A t \in C!Tipos, y \in C!Anios : ~asiento[t][y].contra
  BY <1>1 DEF IInv, Pareja
<1> QED
  BY <1>2 DEF IInv, Lleva, Muerto, C!Efecto, C!Vivo, C!Tipos

LEMMA ParejaPaso ==
    ASSUME C!Supuestos, ~Cruces, IInv, [C!Next]_(C!vars)
    PROVE  Pareja'
<1>1. ASSUME NEW y \in C!Anios, C!Mover(y) PROVE Pareja'
  <2>1. UNCHANGED <<asiento, cPc, cLeido, cCortes>>
    BY <1>1 DEF C!Mover
  <2> QED
    BY <2>1 DEF IInv, Pareja, C!Efecto, C!Vivo, Empareja, C!Anio
<1>2. ASSUME NEW c \in Cerradores, NEW y \in C!Anios, C!Cerrar(c, y) PROVE Pareja'
  <2> SUFFICES ASSUME cCortes = 0 PROVE Pareja'
    BY <1>2 DEF Pareja, C!Cerrar
  <2>1. Solo(c) /\ c \in C!Actores /\ cPc[c] = "libre" /\ Pareja
    BY <1>2, CerrarHace DEF IInv, Sanos, C!Actores
  <2>2. asiento' = asiento
    BY <1>2 DEF C!Cerrar
  <2>3. \A t \in C!Tipos, x \in C!Anios : ~Marca(c, t, x) /\ ~Empareja(c, x)
    BY <2>1 DEF Marca, Empareja
  <2>4. \A t \in C!Tipos, x \in C!Anios : C!Efecto(t, x)' = C!Efecto(t, x)
    BY <2>2 DEF C!Efecto, C!Vivo
  <2> QED
    BY <2>1, <2>2, <2>3, <2>4, ParejaSigue DEF C!Tipos
<1>3. ASSUME NEW c \in Cerradores, C!Pendientes(c) \/ C!MirarTraslado(c) PROVE Pareja'
  <2> SUFFICES ASSUME cCortes = 0 PROVE Pareja'
    BY <1>3 DEF Pareja, C!Pendientes, C!MirarTraslado
  <2>1. /\ Solo(c) /\ c \in C!Actores /\ cLeido' = cLeido /\ Pareja /\ c \notin Reaperturas
        /\ cPc[c] # "libre" /\ C!Anio(c) \in C!Anios
        /\ \/ cPc[c] = "pendientes"
           \/ cPc[c] = "mirarTraslado" /\ C!Vivo("traslado", C!Anio(c))
           \/ cPc[c] = "mirarTraslado" /\ cPc'[c] = "trasladar"
    BY <1>3, PendientesHace, Lee DEF IInv, Sanos, C!Actores, C!Supuestos
  <2>2. asiento' = asiento
    BY <1>3 DEF C!Pendientes, C!MirarTraslado
  <2>3. \A t \in C!Tipos, x \in C!Anios : C!Efecto(t, x)' = C!Efecto(t, x) /\ ~Marca(c, t, x)
    BY <2>1, <2>2 DEF C!Efecto, C!Vivo, Marca
  <2>4. \A x \in C!Anios : C!Vivo("traslado", x) => C!Efecto("traslado", x) = C!Efecto("cierre", x)
    BY <2>1, Parejos
  <2>5. \A x \in C!Anios : ~Empareja(c, x) \/ Empareja(c, x)' \/ C!Vivo("traslado", x)
    BY <2>1 DEF Empareja, C!Anio
  <2> QED
    BY <2>1, <2>2, <2>3, <2>4, <2>5, ParejaSigue DEF C!Tipos
<1>4. ASSUME NEW c \in Cerradores, C!Armar(c) PROVE Pareja'
  <2> SUFFICES ASSUME cCortes = 0 PROVE Pareja'
    BY <1>4 DEF Pareja, C!Armar
  <2>1. Solo(c) /\ c \in C!Actores /\ cPc[c] = "armar" /\ Pareja
    BY <1>4, ArmarHace DEF IInv, Sanos, C!Actores
  <2>2. asiento' = asiento
    BY <1>4 DEF C!Armar
  <2>3. \A t \in C!Tipos, x \in C!Anios : ~Marca(c, t, x) /\ ~Empareja(c, x)
    BY <2>1 DEF Marca, Empareja
  <2>4. \A t \in C!Tipos, x \in C!Anios : C!Efecto(t, x)' = C!Efecto(t, x)
    BY <2>2 DEF C!Efecto, C!Vivo
  <2> QED
    BY <2>1, <2>2, <2>3, <2>4, ParejaSigue DEF C!Tipos
<1>5. ASSUME NEW c \in Cerradores, C!Postear(c) PROVE Pareja'
  <2> SUFFICES ASSUME cCortes = 0 PROVE Pareja'
    BY <1>5 DEF Pareja, C!Postear
  <2>1. c \in C!Actores /\ C!Anio(c) \in C!Anios /\ C!TypeOK /\ Pareja /\ c \notin Reaperturas
    BY Lee DEF IInv, C!Actores, C!Supuestos
  <2>2. /\ Solo(c) /\ cPc[c] = "postear" /\ cPc'[c] = "mirarTraslado" /\ cLeido'[c].anio = C!Anio(c)
        /\ Salvo("cierre", C!Anio(c))
        /\ asiento' = asiento \/ ~asiento'["cierre"][C!Anio(c)].contra
    BY <1>5, <2>1, PostearHace DEF Sanos
  <2>3. \A t \in C!Tipos, x \in C!Anios : ~asiento'[t][x].contra
    <3>1. \A t \in C!Tipos, x \in C!Anios : ~asiento[t][x].contra
      BY <2>2, Parejos
    <3> QED
      BY <2>2, <3>1 DEF Salvo
  <2>4. \A x \in C!Anios : x = C!Anio(c) => Empareja(c, x)'
    BY <2>2 DEF Empareja, C!Anio
  <2>5. \A x \in C!Anios : x # C!Anio(c) =>
          /\ ~Empareja(c, x)
          /\ C!Efecto("traslado", x)' = C!Efecto("traslado", x)
          /\ C!Efecto("cierre", x)' = C!Efecto("cierre", x)
    BY <2>2 DEF Salvo, C!Efecto, C!Vivo, C!Tipos, Empareja
  <2> QED
    BY <2>1, <2>2, <2>3, <2>4, <2>5, ParejaSigue
<1>6. ASSUME NEW c \in Cerradores, C!Trasladar(c) PROVE Pareja'
  <2> SUFFICES ASSUME cCortes = 0 PROVE Pareja'
    BY <1>6 DEF Pareja, C!Trasladar
  <2>1. c \in C!Actores /\ C!Anio(c) \in C!Anios /\ C!TypeOK /\ Pareja /\ c \notin Reaperturas /\ Cierra(c)
    BY Lee DEF IInv, C!Actores, C!Supuestos, Cierran
  <2>2. /\ Solo(c) /\ cPc[c] = "trasladar" /\ Salvo("traslado", C!Anio(c))
        /\ C!Vivo("traslado", C!Anio(c)) => asiento' = asiento
        /\ ~C!Vivo("traslado", C!Anio(c)) =>
             /\ asiento'["traslado"][C!Anio(c)].vivo /\ ~asiento'["traslado"][C!Anio(c)].contra
             /\ asiento'["traslado"][C!Anio(c)].valor = cLeido[c].valor
    BY <1>6, <2>1, TrasladarHace DEF Sanos
  <2>3. /\ \A t \in C!Tipos, x \in C!Anios : ~asiento[t][x].contra
        /\ \A x \in C!Anios : C!Vivo("traslado", x) => C!Efecto("traslado", x) = C!Efecto("cierre", x)
    BY <2>2, Parejos
  <2>4. \A t \in C!Tipos, x \in C!Anios : ~asiento'[t][x].contra
    BY <2>2, <2>3 DEF Salvo
  <2>5. \A x \in C!Anios : asiento'["cierre"][x] = asiento["cierre"][x]
    BY <2>2 DEF Salvo, C!Tipos
  <2>6. \A x \in C!Anios : x = C!Anio(c) => C!Efecto("traslado", x)' = C!Efecto("cierre", x)'
    <3>1. CASE C!Vivo("traslado", C!Anio(c))
      BY <2>2, <2>3, <3>1 DEF C!Efecto, C!Vivo
    <3>2. CASE ~C!Vivo("traslado", C!Anio(c))
      BY <2>1, <2>2, <2>4, <2>5, <3>2 DEF C!Efecto, C!Vivo, Cierra, C!Tipos
    <3> QED
      BY <3>1, <3>2
  <2>7. \A x \in C!Anios : x # C!Anio(c) =>
          /\ ~Empareja(c, x)
          /\ C!Efecto("traslado", x)' = C!Efecto("traslado", x)
          /\ C!Efecto("cierre", x)' = C!Efecto("cierre", x)
    BY <2>2 DEF Salvo, C!Efecto, C!Vivo, C!Tipos, Empareja
  <2> QED
    BY <2>1, <2>2, <2>4, <2>6, <2>7, ParejaSigue
<1>7. ASSUME NEW r \in Reaperturas, NEW y \in C!Anios, C!Reabrir(r, y) PROVE Pareja'
  <2> SUFFICES ASSUME cCortes = 0 PROVE Pareja'
    BY <1>7 DEF Pareja, C!Reabrir
  <2>1. Solo(r) /\ r \in C!Actores /\ cPc[r] = "libre" /\ Pareja
    BY <1>7, ReabrirHace DEF IInv, Sanos, C!Actores
  <2>2. asiento' = asiento
    BY <1>7 DEF C!Reabrir
  <2>3. \A t \in C!Tipos, x \in C!Anios : ~Marca(r, t, x) /\ ~Empareja(r, x)
    BY <2>1 DEF Marca, Empareja
  <2>4. \A t \in C!Tipos, x \in C!Anios : C!Efecto(t, x)' = C!Efecto(t, x)
    BY <2>2 DEF C!Efecto, C!Vivo
  <2> QED
    BY <2>1, <2>2, <2>3, <2>4, ParejaSigue DEF C!Tipos
<1>8. ASSUME NEW r \in Reaperturas, C!Siguiente(r) PROVE Pareja'
  <2> SUFFICES ASSUME cCortes = 0 PROVE Pareja'
    BY <1>8 DEF Pareja, C!Siguiente
  <2>1. Solo(r) /\ r \in C!Actores /\ cPc[r] = "siguiente" /\ Pareja
    BY <1>8, SiguienteHace DEF IInv, Sanos, C!Actores
  <2>2. asiento' = asiento
    BY <1>8 DEF C!Siguiente
  <2>3. \A t \in C!Tipos, x \in C!Anios : ~Marca(r, t, x) /\ ~Empareja(r, x)
    BY <2>1 DEF Marca, Empareja
  <2>4. \A t \in C!Tipos, x \in C!Anios : C!Efecto(t, x)' = C!Efecto(t, x)
    BY <2>2 DEF C!Efecto, C!Vivo
  <2> QED
    BY <2>1, <2>2, <2>3, <2>4, ParejaSigue DEF C!Tipos
<1>9. ASSUME NEW r \in Reaperturas, C!Buscar(r) PROVE Pareja'
  <2> SUFFICES ASSUME cCortes = 0 PROVE Pareja'
    BY <1>9 DEF Pareja, C!Buscar
  <2>1. Solo(r) /\ r \in C!Actores /\ cPc[r] = "buscar" /\ Pareja
    BY <1>9, BuscarHace DEF IInv, Sanos, C!Actores
  <2>2. asiento' = asiento
    BY <1>9 DEF C!Buscar
  <2>3. \A t \in C!Tipos, x \in C!Anios : ~Marca(r, t, x) /\ ~Empareja(r, x)
    BY <2>1 DEF Marca, Empareja
  <2>4. \A t \in C!Tipos, x \in C!Anios : C!Efecto(t, x)' = C!Efecto(t, x)
    BY <2>2 DEF C!Efecto, C!Vivo
  <2> QED
    BY <2>1, <2>2, <2>3, <2>4, ParejaSigue DEF C!Tipos
<1>10. ASSUME NEW r \in Reaperturas, C!Contra(r) PROVE Pareja'
  <2> SUFFICES ASSUME cCortes = 0 PROVE Pareja'
    BY <1>10 DEF Pareja, C!Contra
  <2>1. /\ Solo(r) /\ r \in C!Actores /\ T(r) \in C!Tipos /\ C!Anio(r) \in C!Anios /\ Reabre(r) /\ Pareja
        /\ \A t \in C!Tipos, z \in C!Anios :
             /\ t = T(r) /\ z = C!Anio(r) => C!Efecto(t, z)' = 0
             /\ t # T(r) \/ z # C!Anio(r) => asiento'[t][z] = asiento[t][z]
    BY <1>10, ReversaHace DEF IInv, Sanos
  <2>2. /\ cPc[r] = "contra" /\ cLeido' = cLeido
        /\ \/ cPc'[r] = "libre" /\ asiento' = asiento /\ ~C!Vivo(T(r), C!Anio(r))
           \/ /\ cPc'[r] = "libre" /\ asiento[T(r)][C!Anio(r)].contra
              /\ ~asiento'[T(r)][C!Anio(r)].contra
           \/ cPc'[r] = "marcar"
    BY <1>10, ContraPaso DEF IInv
  <2>3. \A t \in C!Tipos, x \in C!Anios : asiento'[t][x].contra =>
          (asiento[t][x].contra /\ ~Marca(r, t, x)) \/ Marca(r, t, x)'
    BY <2>1, <2>2 DEF Marca, T, C!Anio
  <2>4. ASSUME NEW x \in C!Anios, x # C!Anio(r)
        PROVE  /\ ~Empareja(r, x)
               /\ C!Efecto("traslado", x)' = C!Efecto("traslado", x)
               /\ C!Efecto("cierre", x)' = C!Efecto("cierre", x)
    BY <2>1, <2>4 DEF Empareja, C!Efecto, C!Vivo, C!Tipos
  <2>5. ASSUME NEW x \in C!Anios, x = C!Anio(r), T(r) = "cierre"
        PROVE  C!Efecto("traslado", x)' = C!Efecto("cierre", x)'
    <3>1. asiento'["traslado"][x] = asiento["traslado"][x] /\ Muerto("traslado", x)
      BY <2>1, <2>2, <2>5 DEF Reabre, T, C!Tipos
    <3> QED
      BY <2>1, <2>5, <3>1 DEF Muerto, C!Efecto, C!Vivo
  <2>6. ASSUME NEW x \in C!Anios, x = C!Anio(r), T(r) = "traslado"
        PROVE  \/ Empareja(r, x)'
               \/ /\ ~Empareja(r, x)
                  /\ C!Efecto("traslado", x)' = C!Efecto("traslado", x)
                  /\ C!Efecto("cierre", x)' = C!Efecto("cierre", x)
    <3>1. ~Empareja(r, x)
      BY <2>2, <2>6 DEF Empareja, T, C!Supuestos
    <3>2. C!Efecto("cierre", x)' = C!Efecto("cierre", x)
      BY <2>1, <2>6 DEF C!Efecto, C!Vivo, C!Tipos
    <3>3. CASE cPc'[r] = "marcar"
      BY <2>2, <2>6, <3>3 DEF Empareja, T, C!Anio
    <3>4. CASE cPc'[r] # "marcar"
      <4>1. C!Efecto("traslado", x)' = 0 /\ C!Efecto("traslado", x) = 0
        BY <2>1, <2>2, <2>6, <3>4 DEF C!Efecto, C!Vivo, C!Tipos
      <4> QED
        BY <3>1, <3>2, <4>1
    <3> QED
      BY <3>3, <3>4
  <2>7. T(r) = "cierre" \/ T(r) = "traslado"
    BY <2>1 DEF C!Tipos
  <2> QED
    BY <2>1, <2>3, <2>4, <2>5, <2>6, <2>7, ParejaSigue
<1>11. ASSUME NEW r \in Reaperturas, C!Marcar(r) PROVE Pareja'
  <2> SUFFICES ASSUME cCortes = 0 PROVE Pareja'
    BY <1>11 DEF Pareja, C!Marcar
  <2>1. /\ Solo(r) /\ r \in C!Actores /\ T(r) \in C!Tipos /\ C!Anio(r) \in C!Anios /\ Reabre(r) /\ Pareja
        /\ \A t \in C!Tipos, z \in C!Anios :
             /\ t = T(r) /\ z = C!Anio(r) => C!Efecto(t, z)' = 0
             /\ t # T(r) \/ z # C!Anio(r) => asiento'[t][z] = asiento[t][z]
    BY <1>11, ReversaHace DEF IInv, Sanos
  <2>2. /\ cPc[r] = "marcar" /\ cLeido'[r].tipo = "cierre" /\ cLeido'[r].anio = C!Anio(r)
        /\ T(r) = "traslado" => cPc'[r] = "contra"
        /\ ~asiento'[T(r)][C!Anio(r)].contra
    BY <1>11, MarcarHace DEF IInv
  <2>3. \A t \in C!Tipos, x \in C!Anios : asiento'[t][x].contra => asiento[t][x].contra /\ ~Marca(r, t, x)
    BY <2>1, <2>2 DEF Marca, T
  <2>4. ASSUME NEW x \in C!Anios, x # C!Anio(r)
        PROVE  /\ ~Empareja(r, x)
               /\ C!Efecto("traslado", x)' = C!Efecto("traslado", x)
               /\ C!Efecto("cierre", x)' = C!Efecto("cierre", x)
    BY <2>1, <2>4 DEF Empareja, C!Efecto, C!Vivo, C!Tipos
  <2>5. ASSUME NEW x \in C!Anios, x = C!Anio(r), T(r) = "cierre"
        PROVE  C!Efecto("traslado", x)' = C!Efecto("cierre", x)'
    <3>1. asiento'["traslado"][x] = asiento["traslado"][x] /\ Muerto("traslado", x)
      BY <2>1, <2>2, <2>5 DEF Reabre, T, C!Tipos
    <3> QED
      BY <2>1, <2>5, <3>1 DEF Muerto, C!Efecto, C!Vivo
  <2>6. ASSUME NEW x \in C!Anios, x = C!Anio(r), T(r) = "traslado" PROVE Empareja(r, x)'
    BY <2>2, <2>6 DEF Empareja, C!Anio
  <2>7. T(r) = "cierre" \/ T(r) = "traslado"
    BY <2>1 DEF C!Tipos
  <2> QED
    BY <2>1, <2>3, <2>4, <2>5, <2>6, <2>7, ParejaSigue
<1>12. ASSUME NEW a \in C!Actores, C!Corte(a) PROVE Pareja'
  BY <1>12 DEF IInv, C!TypeOK, Pareja, C!Corte, C!Supuestos
<1>13. ASSUME UNCHANGED C!vars PROVE Pareja'
  <2>1. UNCHANGED <<asiento, cPc, cLeido, cCortes>>
    BY <1>13 DEF C!vars
  <2> QED
    BY <2>1 DEF IInv, Pareja, C!Efecto, C!Vivo, Empareja, C!Anio
<1> QED
  BY <1>1, <1>2, <1>3, <1>4, <1>5, <1>6, <1>7, <1>8, <1>9, <1>10, <1>11, <1>12, <1>13
  DEF C!Next

-----------------------------------------------------------------------------
(* The theorem *)

LEMMA Inicial ==
    ASSUME C!Supuestos, C!Init
    PROVE  IInv
<1>1. C!TypeOK
  BY DEF C!Init, C!Supuestos, C!TypeOK, C!Anios, C!Tipos
<1>2. \A t \in C!Tipos, y \in C!Anios :
        ~asiento[t][y].vivo /\ ~asiento[t][y].contra /\ movido[y] = 0 /\ tarde[y] = 0
  BY DEF C!Init
<1>3. \A t \in C!Tipos, y \in C!Anios : C!Efecto(t, y) = 0 /\ ~C!Vivo(t, y)
  BY <1>2 DEF C!Efecto, C!Vivo
<1>4. \A a \in C!Actores : cPc[a] = "libre"
  BY DEF C!Init
<1>5. Oficio /\ Exclusion /\ Cierran /\ Reabren
  BY <1>4 DEF Oficio, Exclusion, Cierran, Cierra, Reabren, C!Actores
<1>6. Tarde /\ Atras /\ Lleva /\ Pareja
  BY <1>2, <1>3 DEF Tarde, Atras, Lleva, Muerto, Pareja, C!Tipos
<1> QED
  BY <1>1, <1>5, <1>6 DEF IInv

LEMMA IInvSiempre ==
    ASSUME C!Supuestos, ~Cruces
    PROVE  C!Spec => []IInv
<1>1. C!Init => IInv
  BY Inicial
<1>2. IInv /\ [C!Next]_(C!vars) => IInv'
  BY TiposPaso, OficioPaso, ExclusionPaso, TardePaso, CierranPaso, ReabrenPaso, AtrasPaso,
     LlevaPaso, ParejaPaso DEF IInv
<1> QED
  BY <1>1, <1>2, PTL DEF C!Spec

\* Type correctness of the annual closing.
THEOREM AnioTipos ==
    ASSUME C!Supuestos, ~Cruces
    PROVE  C!Spec => []C!TypeOK
<1>1. IInv => C!TypeOK
  BY DEF IInv
<1> QED
  BY <1>1, IInvSiempre, PTL

\* However many closings and reopenings of any years are asked for, repeated and cut, a
\* closing takes the result of its own year and of no other but for what arrived late, and
\* 3705 says of each year what its closing says, provided no reopening, and no entry of an
\* earlier year, crosses a closing (~Cruces).
THEOREM AnioSiempreCuadra ==
    ASSUME C!Supuestos, ~Cruces
    PROVE  C!Spec => [](C!CadaAnioLoSuyo /\ C!TrasladoSegunCierre)
<1>1. IInv => C!CadaAnioLoSuyo
  <2> SUFFICES ASSUME IInv, NEW y \in C!Anios
               PROVE  /\ C!Efecto("cierre", y) <= movido[y]
                      /\ y > 1 /\ C!Vivo("cierre", y) =>
                             movido[y - 1] - C!Efecto("cierre", y - 1) <= tarde[y - 1]
    BY DEF C!CadaAnioLoSuyo
  <2>1. y > 1 => y - 1 \in C!Anios /\ (y - 1) + 1 = y
    BY DEF C!Anios, C!Supuestos
  <2> QED
    BY <2>1 DEF IInv, Tarde, Atras, Queda
<1>2. IInv => C!TrasladoSegunCierre
  <2> SUFFICES ASSUME IInv, NEW y \in C!Anios
               PROVE  /\ C!Efecto("traslado", y) # 0 =>
                             C!Vivo("cierre", y) /\ asiento["cierre"][y].valor = asiento["traslado"][y].valor
                      /\ ~C!Trabajan(C!Actores) /\ cCortes = 0 =>
                             C!Efecto("traslado", y) = C!Efecto("cierre", y)
    BY DEF C!TrasladoSegunCierre
  <2>1. C!Efecto("traslado", y) # 0 => ~Muerto("traslado", y)
    BY DEF C!Efecto, Muerto
  <2>2. ~C!Trabajan(C!Actores) => \A a \in C!Actores : ~Empareja(a, y)
    BY DEF C!Trabajan, Empareja
  <2> QED
    BY <2>1, <2>2 DEF IInv, Lleva, Pareja
<1> QED
  BY <1>1, <1>2, IInvSiempre, PTL

=============================================================================
