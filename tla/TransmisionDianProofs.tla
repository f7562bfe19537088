------------------------ MODULE TransmisionDianProofs ------------------------
(***************************************************************************)
(* For any users and crons, any failures, losses and killed processes: one *)
(* transmission at a time is past the lock, what was sent is recorded as   *)
(* sent and only the authority accepts or rejects; and, while nothing      *)
(* fails in a contingency already declared, the XML kept and delivered is  *)
(* the one that was validated.                                             *)
(* And, for any requests, series and renewals of Emision: a sale has one   *)
(* document, and the quota charged is what was issued and what is being.   *)
(***************************************************************************)
EXTENDS TransmisionDian, Sumas

\* From the mark to the verdict: the document is "sent".
Llamada == {"enviar", "consultar", "declarar", "reemplazar", "declarada", "restaurar", "guardar"}
ConSuXml == {"firmado", "marcar", "enviar", "consultar", "declarar", "reemplazar"}

\* Whoever is past the lock holds it.
Cerrojo == \A a \in Actores : pc[a] \notin {"libre", "tomar"} => bloqueo = a

\* What an actor has not read or been answered yet.
Reposo == \A a \in Actores :
    /\ pc[a] \in {"libre", "tomar", "firmar", "firmado"} => ~leido[a].cont
    /\ pc[a] \in {"libre", "tomar", "firmar", "firmado", "marcar"} =>
         leido[a].r = "red" /\ leido[a].envios = 0 /\ ~leido[a].declara

\* The status that the document has at each step of the one that holds the lock.
Estado == \A a \in Actores :
    /\ pc[a] = "tomar" => leido[a].estado # "accepted"
    /\ pc[a] \in {"firmar", "firmado"} =>
         doc.estado = leido[a].estado /\ doc.estado \in {"draft", "rejected"}
    /\ pc[a] = "marcar" =>
         doc.estado = leido[a].estado /\ doc.estado \in {"signed", "sent", "contingency"}
    /\ pc[a] \in Llamada => doc.estado = "sent"
    /\ pc[a] = "entregar" => doc.estado = "accepted"
    /\ pc[a] = "enviar" => leido[a].envios < INTENTOS

\* A document that was signed has an XML in the bucket, and whoever sends it read that one.
ConXml ==
    /\ doc.estado # "draft" => doc.xml /\ bucket.xml # 0
    /\ doc.contingencia => bucket.original # 0
    /\ doc.estado = "contingency" => doc.contingencia
    /\ \A a \in Actores :
         /\ pc[a] \in ConSuXml => leido[a].xml = bucket.xml /\ bucket.xml # 0
         /\ pc[a] \in {"reemplazar", "declarada"} =>
              firmas # 0 /\ bucket.original # 0 /\ bucket.original = leido[a].xml
         /\ leido[a].cont => doc.contingencia
         /\ pc[a] \in Llamada /\ leido[a].primera => leido[a].cont
         /\ pc[a] = "restaurar" => bucket.original # 0

Bien == TypeOK /\ Cerrojo /\ Reposo /\ Estado /\ ConXml

-----------------------------------------------------------------------------
Respuestas == {"red", "valida", "invalida", "ya", "pendiente"}

\* What a send leaves in the actor that makes it.
LEMMA RespondeDeja ==
    ASSUME TypeOK, NEW a \in Actores, NEW r \in Respuestas, Responde(a, r),
           pc[a] = "enviar", leido[a].envios < INTENTOS
    PROVE  /\ leido' \in [Actores -> Lecturas]
           /\ \A b \in Actores : b # a => leido'[b] = leido[b] /\ pc'[b] = pc[b]
           /\ leido'[a].r = r /\ leido'[a].envios = leido[a].envios + 1
           /\ leido'[a].xml = leido[a].xml /\ leido'[a].cont = leido[a].cont
           /\ leido'[a].primera = leido[a].primera /\ leido'[a].declara = leido[a].declara
           /\ leido'[a].estado = leido[a].estado
           /\ pc' \in [Actores -> Pasos \cup {"libre"}]
           /\ pc'[a] \in {"enviar", "declarar", "consultar", "guardar"}
           /\ pc'[a] = "enviar" => leido'[a].envios < INTENTOS
           /\ pc'[a] \in {"enviar", "declarar"} => r = "red" /\ leido[a].declara
           /\ pc'[a] = "consultar" <=> r = "ya"
           /\ leido'[a].respondio <=> r # "red"
<1> DEFINE n == [leido[a] EXCEPT !.r = r, !.envios = leido[a].envios + 1, !.respondio = r # "red"]
<1>1. leido[a] \in Lecturas /\ leido[a].envios + 1 \in 0..INTENTOS
  BY DEF TypeOK, Lecturas, INTENTOS
<1>2. n \in Lecturas
  BY <1>1 DEF Lecturas, Respuestas
<1>3. leido' = [leido EXCEPT ![a] = n]
  BY DEF Responde, TypeOK, Lecturas
<1>4. leido' \in [Actores -> Lecturas] /\ leido'[a] = n
      /\ \A b \in Actores : b # a => leido'[b] = leido[b]
  BY <1>2, <1>3 DEF TypeOK
<1>5. /\ n.r = r /\ n.envios = leido[a].envios + 1 /\ n.xml = leido[a].xml
      /\ n.cont = leido[a].cont /\ n.primera = leido[a].primera
      /\ n.declara = leido[a].declara /\ n.estado = leido[a].estado
      /\ n.respondio <=> r # "red"
  BY <1>1 DEF Lecturas
<1> HIDE DEF n
<1>6. /\ pc' \in [Actores -> Pasos \cup {"libre"}]
      /\ \A b \in Actores : b # a => pc'[b] = pc[b]
      /\ pc'[a] \in {"enviar", "declarar", "consultar", "guardar"}
      /\ pc'[a] = "enviar" => leido[a].envios + 1 < INTENTOS
      /\ pc'[a] \in {"enviar", "declarar"} => r = "red" /\ leido[a].declara
      /\ pc'[a] = "consultar" <=> r = "ya"
  <2>1. leido[a].declara \in BOOLEAN /\ leido[a].envios \in 0..2
    BY <1>1 DEF Lecturas, INTENTOS
  <2> QED
    BY <2>1 DEF Responde, Va, TypeOK, Pasos, Respuestas, INTENTOS
<1> QED
  BY <1>4, <1>5, <1>6


\* A send: what is answered, and what the authority did with the XML.
LEMMA EnviarDeja ==
    ASSUME TypeOK, NEW a \in Actores, Enviar(a)
    PROVE  \E r \in Respuestas :
             /\ Responde(a, r)
             /\ \/ r = "ya" /\ dian.aceptado # 0 /\ UNCHANGED <<dian, transito, perdidas>>
                \/ /\ r = "valida" /\ dian.aceptado = 0 /\ leido[a].xml \notin dian.rechazados
                   /\ Acepta(leido[a].xml) /\ UNCHANGED <<transito, perdidas>>
                \/ /\ r = "invalida" /\ dian.aceptado = 0
                   /\ Rechaza(leido[a].xml) /\ UNCHANGED <<transito, perdidas>>
                \/ r = "red" /\ Pierde /\ UNCHANGED <<dian, transito>>
                \/ /\ r \in {"red", "pendiente"} /\ Pierde /\ (leido[a].cont => "red" \in Fallas)
                   /\ transito' = transito \cup {leido[a].xml} /\ UNCHANGED dian
BY Zenon DEF Enviar, Respuestas

\* Marking leaves the actor as it was but for what it may declare and restore.
LEMMA PreparaDeja ==
    ASSUME TypeOK, NEW a \in Actores, leido' = Prepara(a)
    PROVE  /\ leido' \in [Actores -> Lecturas]
           /\ \A b \in Actores : b # a => leido'[b] = leido[b]
           /\ leido'[a].r = leido[a].r /\ leido'[a].envios = leido[a].envios
           /\ leido'[a].xml = leido[a].xml /\ leido'[a].cont = leido[a].cont
           /\ leido'[a].estado = leido[a].estado
           /\ leido'[a].declara <=> Produccion /\ ~doc.contingencia /\ ~doc.respondida
           /\ leido'[a].primera <=> leido[a].cont /\ ~doc.contRespondida
<1> DEFINE d == Produccion /\ ~doc.contingencia /\ ~doc.respondida
           p == leido[a].cont /\ ~doc.contRespondida
           n == [leido[a] EXCEPT !.declara = d, !.primera = p]
<1>1. leido[a] \in Lecturas /\ d \in BOOLEAN /\ p \in BOOLEAN
  BY DEF TypeOK
<1>2. n \in Lecturas
  BY <1>1 DEF Lecturas
<1>3. leido' = [leido EXCEPT ![a] = n]
  BY DEF Prepara, TypeOK, Lecturas
<1>5. /\ n.r = leido[a].r /\ n.envios = leido[a].envios /\ n.xml = leido[a].xml
      /\ n.cont = leido[a].cont /\ n.estado = leido[a].estado
      /\ n.declara = d /\ n.primera = p
  BY <1>1 DEF Lecturas
<1> HIDE DEF n, d, p
<1>4. leido' \in [Actores -> Lecturas] /\ leido'[a] = n
      /\ \A b \in Actores : b # a => leido'[b] = leido[b]
  BY <1>2, <1>3 DEF TypeOK
<1> QED
  BY <1>4, <1>5 DEF d, p


\* The parts of an actor's reading that its steps change one at a time.
Lee(a, e, x, c, r) ==
    leido' = [leido EXCEPT ![a] = [leido[a] EXCEPT !.estado = e, !.xml = x, !.cont = c, !.r = r]]

LEMMA LeeDeja ==
    ASSUME TypeOK, NEW a \in Actores, NEW e \in Estados, NEW x \in Xml, NEW c \in BOOLEAN,
           NEW r \in Respuestas, Lee(a, e, x, c, r)
    PROVE  /\ leido' \in [Actores -> Lecturas]
           /\ \A b \in Actores : b # a => leido'[b] = leido[b]
           /\ leido'[a].estado = e /\ leido'[a].xml = x /\ leido'[a].cont = c
           /\ leido'[a].r = r /\ leido'[a].envios = leido[a].envios
           /\ leido'[a].primera = leido[a].primera /\ leido'[a].declara = leido[a].declara
<1> DEFINE n == [leido[a] EXCEPT !.estado = e, !.xml = x, !.cont = c, !.r = r]
<1>1. leido[a] \in Lecturas
  BY DEF TypeOK
<1>2. n \in Lecturas
  BY <1>1 DEF Lecturas, Respuestas
<1>3. /\ n.estado = e /\ n.xml = x /\ n.cont = c /\ n.r = r /\ n.envios = leido[a].envios
      /\ n.primera = leido[a].primera /\ n.declara = leido[a].declara
  BY <1>1 DEF Lecturas
<1> HIDE DEF n
<1>4. leido' \in [Actores -> Lecturas] /\ leido'[a] = n
      /\ \A b \in Actores : b # a => leido'[b] = leido[b]
  BY <1>2 DEF TypeOK, n, Lee
<1> QED
  BY <1>3, <1>4

\* An actor that starts, or is done, keeps nothing of what it read but the status.
LEMMA OlvidaDeja ==
    ASSUME TypeOK, NEW a \in Actores, NEW e \in Estados, MaxFirmas \in Nat,
           leido' = [leido EXCEPT ![a] = [SinLeer EXCEPT !.estado = e]]
    PROVE  /\ leido' \in [Actores -> Lecturas]
           /\ \A b \in Actores : b # a => leido'[b] = leido[b]
           /\ leido'[a].estado = e /\ ~leido'[a].cont /\ leido'[a].r = "red"
           /\ leido'[a].envios = 0 /\ ~leido'[a].primera /\ ~leido'[a].declara
<1> DEFINE n == [SinLeer EXCEPT !.estado = e]
<1>1. 0 \in Xml /\ 0 \in 0..INTENTOS
  BY DEF Xml, INTENTOS
<1>2. n \in Lecturas
  BY <1>1 DEF Lecturas, SinLeer
<1>3. /\ n.estado = e /\ ~n.cont /\ n.r = "red" /\ n.envios = 0
      /\ ~n.primera /\ ~n.declara
  BY DEF SinLeer
<1> HIDE DEF n
<1>4. leido' \in [Actores -> Lecturas] /\ leido'[a] = n
      /\ \A b \in Actores : b # a => leido'[b] = leido[b]
  BY <1>2 DEF TypeOK, n
<1> QED
  BY <1>3, <1>4


LEMMA VaDeja ==
    ASSUME TypeOK, NEW a \in Actores, NEW p \in Pasos \cup {"libre"}, Va(a, p)
    PROVE  /\ pc' \in [Actores -> Pasos \cup {"libre"}] /\ pc'[a] = p
           /\ \A b \in Actores : b # a => pc'[b] = pc[b]
BY DEF TypeOK, Va

\* The other actors stay where they are.
Quietos(a) == \A b \in Actores : b # a => pc'[b] = pc[b] /\ leido'[b] = leido[b]

LEMMA EmpezarHace ==
    ASSUME Supuestos, TypeOK, NEW a \in Actores, pc[a] = "libre", Va(a, "tomar"),
           leido' = [leido EXCEPT ![a] = [SinLeer EXCEPT !.estado = doc.estado]],
           UNCHANGED <<doc, bloqueo, bucket, firmas, transito, dian, entregado, perdidas, cortes>>
    PROVE  /\ TypeOK' /\ Quietos(a) /\ pc'[a] = "tomar"
           /\ leido'[a].estado = doc.estado /\ ~leido'[a].cont /\ leido'[a].r = "red"
           /\ leido'[a].envios = 0 /\ ~leido'[a].declara
<1>1. doc.estado \in Estados /\ MaxFirmas \in Nat /\ "tomar" \in Pasos
  BY DEF TypeOK, Documentos, Supuestos, Pasos
<1>2. /\ leido' \in [Actores -> Lecturas]
      /\ \A b \in Actores : b # a => leido'[b] = leido[b]
      /\ leido'[a].estado = doc.estado /\ ~leido'[a].cont /\ leido'[a].r = "red"
      /\ leido'[a].envios = 0 /\ ~leido'[a].declara
  BY <1>1, OlvidaDeja
<1>3. /\ pc' \in [Actores -> Pasos \cup {"libre"}] /\ pc'[a] = "tomar"
      /\ \A b \in Actores : b # a => pc'[b] = pc[b]
  BY <1>1, VaDeja
<1> QED
  BY <1>2, <1>3 DEF TypeOK, Quietos

LEMMA TomarHace ==
    ASSUME Supuestos, TypeOK, NEW a \in Actores, Tomar(a)
    PROVE  /\ TypeOK' /\ Quietos(a)
           /\ UNCHANGED <<doc, bucket, firmas, transito, dian, entregado>>
           /\ \/ pc'[a] = "libre" /\ UNCHANGED <<bloqueo, leido>>
              \/ /\ doc.estado = leido[a].estado /\ Vencido /\ bloqueo' = a
                 /\ \/ /\ doc.estado \in {"draft", "rejected"} \/ (doc.estado = "signed" /\ ~doc.xml)
                       /\ pc'[a] = "firmar" /\ UNCHANGED leido
                    \/ /\ doc.estado \notin {"draft", "rejected"} /\ (doc.estado = "signed" => doc.xml)
                       /\ pc'[a] = "marcar" /\ leido'[a].xml = bucket.xml
                       /\ leido'[a].cont <=> doc.estado = "contingency"
                       /\ leido'[a].estado = leido[a].estado /\ leido'[a].r = leido[a].r
                       /\ leido'[a].envios = leido[a].envios
                       /\ leido'[a].declara = leido[a].declara
<1>0. {"libre", "firmar", "marcar"} \subseteq Pasos \cup {"libre"}
  BY DEF Pasos
<1>1. CASE ~(doc.estado = leido[a].estado /\ Vencido)
  BY <1>0, <1>1, VaDeja DEF Tomar, TypeOK, Quietos
<1>2. CASE /\ doc.estado = leido[a].estado /\ Vencido
           /\ doc.estado \in {"draft", "rejected"} \/ (doc.estado = "signed" /\ ~doc.xml)
  BY <1>0, <1>2, VaDeja DEF Tomar, TrasTomar, TypeOK, Quietos
<1>3. CASE /\ doc.estado = leido[a].estado /\ Vencido
           /\ ~(doc.estado \in {"draft", "rejected"} \/ (doc.estado = "signed" /\ ~doc.xml))
  <2> DEFINE c == doc.estado = "contingency"
  <2>1. /\ leido[a] \in Lecturas /\ bucket.xml \in Xml /\ leido[a].estado \in Estados
        /\ leido[a].r \in Respuestas /\ c \in BOOLEAN
    BY DEF TypeOK, Lecturas, Bodegas, Respuestas
  <2>2. leido' = [leido EXCEPT ![a].xml = bucket.xml, ![a].cont = c]
    BY <1>3 DEF Tomar, TrasTomar
  <2> HIDE DEF c
  <2>3. Lee(a, leido[a].estado, bucket.xml, c, leido[a].r)
    BY <2>1, <2>2 DEF TypeOK, Lecturas, Lee
  <2>4. /\ leido' \in [Actores -> Lecturas]
        /\ \A b \in Actores : b # a => leido'[b] = leido[b]
        /\ leido'[a].estado = leido[a].estado /\ leido'[a].xml = bucket.xml
        /\ leido'[a].cont = c /\ leido'[a].r = leido[a].r
        /\ leido'[a].envios = leido[a].envios /\ leido'[a].declara = leido[a].declara
    BY <2>1, <2>3, LeeDeja
  <2>5. Va(a, "marcar") /\ bloqueo' = a
        /\ UNCHANGED <<doc, bucket, firmas, transito, dian, entregado, perdidas, cortes>>
    BY <1>3 DEF Tomar, TrasTomar
  <2>6. /\ pc' \in [Actores -> Pasos \cup {"libre"}] /\ pc'[a] = "marcar"
        /\ \A b \in Actores : b # a => pc'[b] = pc[b]
    BY <1>0, <2>5, VaDeja
  <2>7. TypeOK' /\ Quietos(a)
    BY <2>4, <2>5, <2>6 DEF TypeOK, Quietos
  <2> QED
    BY <1>3, <2>4, <2>5, <2>6, <2>7 DEF c
<1> QED
  BY <1>1, <1>2, <1>3


\* The same for a step that changes one part only, and goes on to p.
LEMMA LeeYVa ==
    ASSUME TypeOK, NEW a \in Actores, NEW e \in Estados, NEW x \in Xml,
           NEW r \in Respuestas, Lee(a, e, x, leido[a].cont, r),
           NEW p \in Pasos \cup {"libre"}, Va(a, p)
    PROVE  /\ leido' \in [Actores -> Lecturas] /\ pc' \in [Actores -> Pasos \cup {"libre"}]
           /\ Quietos(a) /\ pc'[a] = p
           /\ leido'[a].estado = e /\ leido'[a].xml = x /\ leido'[a].cont = leido[a].cont
           /\ leido'[a].r = r /\ leido'[a].envios = leido[a].envios
           /\ leido'[a].primera = leido[a].primera /\ leido'[a].declara = leido[a].declara
<1>1. leido[a].cont \in BOOLEAN
  BY DEF TypeOK, Lecturas
<1>2. /\ leido' \in [Actores -> Lecturas]
      /\ \A b \in Actores : b # a => leido'[b] = leido[b]
      /\ leido'[a].estado = e /\ leido'[a].xml = x /\ leido'[a].cont = leido[a].cont
      /\ leido'[a].r = r /\ leido'[a].envios = leido[a].envios
      /\ leido'[a].primera = leido[a].primera /\ leido'[a].declara = leido[a].declara
  BY <1>1, LeeDeja
<1>3. /\ pc' \in [Actores -> Pasos \cup {"libre"}] /\ pc'[a] = p
      /\ \A b \in Actores : b # a => pc'[b] = pc[b]
  BY VaDeja
<1> QED
  BY <1>2, <1>3 DEF Quietos

\* A step that only moves its actor.
LEMMA VaSola ==
    ASSUME TypeOK, NEW a \in Actores, NEW p \in Pasos \cup {"libre"}, Va(a, p), UNCHANGED leido
    PROVE  /\ leido' \in [Actores -> Lecturas] /\ pc' \in [Actores -> Pasos \cup {"libre"}]
           /\ Quietos(a) /\ pc'[a] = p
BY VaDeja DEF TypeOK, Quietos

LEMMA FirmarHace ==
    ASSUME Supuestos, TypeOK, NEW a \in Actores, Firmar(a)
    PROVE  /\ TypeOK' /\ Quietos(a) /\ pc[a] = "firmar"
           /\ UNCHANGED <<doc, bloqueo, transito, dian, entregado>>
           /\ bucket'.original = bucket.original
           /\ \/ pc'[a] = "soltar" /\ UNCHANGED <<firmas, bucket, leido>>
              \/ /\ pc'[a] = "firmado" /\ firmas' # 0
                 /\ bucket'.xml = firmas' /\ leido'[a].xml = firmas'
                 /\ leido'[a].cont = leido[a].cont /\ leido'[a].estado = leido[a].estado
                 /\ leido'[a].r = leido[a].r /\ leido'[a].envios = leido[a].envios
                 /\ leido'[a].declara = leido[a].declara
<1>0. {"firmado", "soltar"} \subseteq Pasos \cup {"libre"}
  BY DEF Pasos
<1>1. CASE /\ firmas < MaxFirmas /\ firmas' = firmas + 1
           /\ bucket' = [bucket EXCEPT !.xml = firmas']
           /\ leido' = [leido EXCEPT ![a].xml = firmas']
           /\ Va(a, "firmado")
  <2>1. firmas' \in Xml /\ firmas' # 0
    BY <1>1 DEF TypeOK, Xml, Supuestos
  <2>2. leido[a] \in Lecturas /\ leido[a].estado \in Estados /\ leido[a].r \in Respuestas
    BY DEF TypeOK, Lecturas, Respuestas
  <2>3. Lee(a, leido[a].estado, firmas', leido[a].cont, leido[a].r)
    BY <1>1, <2>2 DEF TypeOK, Lecturas, Lee
  <2> DEFINE x == firmas'
  <2>4. x \in Xml /\ Lee(a, leido[a].estado, x, leido[a].cont, leido[a].r)
    BY <2>1, <2>3
  <2> HIDE DEF x
  <2>5. /\ leido' \in [Actores -> Lecturas] /\ pc' \in [Actores -> Pasos \cup {"libre"}]
        /\ Quietos(a) /\ pc'[a] = "firmado"
        /\ leido'[a].estado = leido[a].estado /\ leido'[a].xml = x
        /\ leido'[a].cont = leido[a].cont
        /\ leido'[a].r = leido[a].r /\ leido'[a].envios = leido[a].envios
        /\ leido'[a].declara = leido[a].declara
    BY <1>0, <1>1, <2>2, <2>4, LeeYVa
  <2>6. bucket' \in Bodegas /\ bucket'.xml = firmas' /\ bucket'.original = bucket.original
    BY <1>1, <2>1 DEF TypeOK, Bodegas
  <2>7. UNCHANGED <<doc, bloqueo, transito, dian, entregado, perdidas, cortes>> /\ pc[a] = "firmar"
    BY DEF Firmar
  <2>8. TypeOK'
    BY <2>1, <2>5, <2>6, <2>7 DEF TypeOK
  <2> QED
    BY <1>1, <2>1, <2>5, <2>6, <2>7, <2>8 DEF x
<1>2. CASE Va(a, "soltar") /\ UNCHANGED <<firmas, bucket, leido>>
  <2>1. /\ leido' \in [Actores -> Lecturas] /\ pc' \in [Actores -> Pasos \cup {"libre"}]
        /\ Quietos(a) /\ pc'[a] = "soltar"
    BY <1>0, <1>2, VaSola
  <2> QED
    BY <1>2, <2>1 DEF Firmar, TypeOK
<1> QED
  BY <1>1, <1>2 DEF Firmar

LEMMA FirmadoHace ==
    ASSUME Supuestos, TypeOK, NEW a \in Actores, Firmado(a)
    PROVE  /\ TypeOK' /\ Quietos(a) /\ pc[a] = "firmado"
           /\ UNCHANGED <<bloqueo, bucket, firmas, transito, dian, entregado>>
           /\ \/ pc'[a] = "soltar" /\ UNCHANGED <<doc, leido>>
              \/ /\ Tiene(a, leido[a].estado)
                 /\ doc'.estado = "signed" /\ doc'.xml /\ doc'.contingencia = doc.contingencia
                 /\ doc'.contRespondida = doc.contRespondida
                 /\ pc'[a] = "marcar" /\ leido'[a].estado = "signed"
                 /\ leido'[a].xml = leido[a].xml /\ leido'[a].cont = leido[a].cont
                 /\ leido'[a].r = leido[a].r /\ leido'[a].envios = leido[a].envios
                 /\ leido'[a].declara = leido[a].declara
<1>0. {"marcar", "soltar"} \subseteq Pasos \cup {"libre"}
  BY DEF Pasos
<1>1. CASE Tiene(a, leido[a].estado)
  <2>1. leido[a] \in Lecturas /\ "signed" \in Estados /\ leido[a].xml \in Xml
        /\ leido[a].r \in Respuestas
    BY DEF TypeOK, Lecturas, Respuestas, Estados
  <2>2. Lee(a, "signed", leido[a].xml, leido[a].cont, leido[a].r)
    BY <1>1, <2>1 DEF Firmado, TypeOK, Lecturas, Lee
  <2>3. Va(a, "marcar") /\ doc' = [doc EXCEPT !.estado = "signed", !.xml = TRUE]
    BY <1>1 DEF Firmado
  <2>4. /\ leido' \in [Actores -> Lecturas] /\ pc' \in [Actores -> Pasos \cup {"libre"}]
        /\ Quietos(a) /\ pc'[a] = "marcar"
        /\ leido'[a].estado = "signed" /\ leido'[a].xml = leido[a].xml
        /\ leido'[a].cont = leido[a].cont
        /\ leido'[a].r = leido[a].r /\ leido'[a].envios = leido[a].envios
        /\ leido'[a].declara = leido[a].declara
    BY <1>0, <2>1, <2>2, <2>3, LeeYVa
  <2>5. /\ doc' \in Documentos /\ doc'.estado = "signed" /\ doc'.xml
        /\ doc'.contingencia = doc.contingencia /\ doc'.contRespondida = doc.contRespondida
    BY <2>1, <2>3 DEF TypeOK, Documentos
  <2>6. UNCHANGED <<bloqueo, bucket, firmas, transito, dian, entregado, perdidas, cortes>>
        /\ pc[a] = "firmado"
    BY DEF Firmado
  <2>7. TypeOK'
    BY <2>4, <2>5, <2>6 DEF TypeOK
  <2> QED
    BY <1>1, <2>4, <2>5, <2>6, <2>7
<1>2. CASE ~Tiene(a, leido[a].estado)
  <2>1. Va(a, "soltar") /\ UNCHANGED leido
    BY <1>2 DEF Firmado
  <2>2. /\ leido' \in [Actores -> Lecturas] /\ pc' \in [Actores -> Pasos \cup {"libre"}]
        /\ Quietos(a) /\ pc'[a] = "soltar"
    BY <1>0, <2>1, VaSola
  <2> QED
    BY <1>2, <2>2 DEF Firmado, TypeOK
<1> QED
  BY <1>1, <1>2


LEMMA MarcarHace ==
    ASSUME Supuestos, TypeOK, NEW a \in Actores, Marcar(a)
    PROVE  /\ TypeOK' /\ Quietos(a) /\ pc[a] = "marcar"
           /\ UNCHANGED <<bloqueo, bucket, firmas, transito, dian, entregado>>
           /\ \/ pc'[a] = "soltar" /\ UNCHANGED <<doc, leido>>
                 /\ (~Tiene(a, leido[a].estado) \/ leido[a].estado = "signed")
              \/ /\ Tiene(a, leido[a].estado)
                 /\ doc'.estado = "sent" /\ doc'.xml = doc.xml
                 /\ doc'.contingencia = doc.contingencia
                 /\ doc'.contRespondida = doc.contRespondida
                 /\ pc'[a] = "enviar"
                 /\ leido'[a].xml = leido[a].xml /\ leido'[a].cont = leido[a].cont
                 /\ leido'[a].r = leido[a].r /\ leido'[a].envios = leido[a].envios
                 /\ leido'[a].declara => Produccion /\ ~doc.contingencia
                 /\ leido'[a].primera <=> leido[a].cont /\ ~doc.contRespondida
<1>0. {"enviar", "soltar"} \subseteq Pasos \cup {"libre"} /\ "sent" \in Estados
  BY DEF Pasos, Estados
<1>f. pc[a] = "marcar" /\ UNCHANGED <<bloqueo, bucket, firmas, transito, dian, entregado, perdidas, cortes>>
  BY DEF Marcar
<1>1. CASE /\ Tiene(a, leido[a].estado)
           /\ doc' = [doc EXCEPT !.estado = "sent"]
           /\ leido' = Prepara(a)
           /\ Va(a, "enviar")
  <2>1. /\ leido' \in [Actores -> Lecturas]
        /\ \A b \in Actores : b # a => leido'[b] = leido[b]
        /\ leido'[a].r = leido[a].r /\ leido'[a].envios = leido[a].envios
        /\ leido'[a].xml = leido[a].xml /\ leido'[a].cont = leido[a].cont
        /\ leido'[a].declara => Produccion /\ ~doc.contingencia
        /\ leido'[a].primera <=> leido[a].cont /\ ~doc.contRespondida
    BY <1>1, PreparaDeja
  <2>2. /\ pc' \in [Actores -> Pasos \cup {"libre"}] /\ pc'[a] = "enviar"
        /\ \A b \in Actores : b # a => pc'[b] = pc[b]
    BY <1>0, <1>1, VaDeja
  <2>3. /\ doc' \in Documentos /\ doc'.estado = "sent" /\ doc'.xml = doc.xml
        /\ doc'.contingencia = doc.contingencia /\ doc'.contRespondida = doc.contRespondida
    BY <1>0, <1>1 DEF TypeOK, Documentos
  <2>4. TypeOK' /\ Quietos(a)
    BY <1>f, <2>1, <2>2, <2>3 DEF TypeOK, Quietos
  <2> QED
    BY <1>1, <1>f, <2>1, <2>2, <2>3, <2>4
<1>2. CASE /\ ~Tiene(a, leido[a].estado) \/ leido[a].estado = "signed"
           /\ Va(a, "soltar") /\ UNCHANGED <<doc, leido>>
  <2>1. /\ leido' \in [Actores -> Lecturas] /\ pc' \in [Actores -> Pasos \cup {"libre"}]
        /\ Quietos(a) /\ pc'[a] = "soltar"
    BY <1>0, <1>2, VaSola
  <2> QED
    BY <1>2, <1>f, <2>1 DEF TypeOK
<1> QED
  BY <1>1, <1>2 DEF Marcar

\* The authority keeps its types when it validates an XML.
LEMMA DianDeja ==
    ASSUME TypeOK, NEW x \in 1..MaxFirmas
    PROVE  /\ Acepta(x) => dian' \in Veredictos /\ dian'.aceptado = x
                          /\ dian'.rechazados = dian.rechazados
           /\ Rechaza(x) => dian' \in Veredictos /\ dian'.aceptado = dian.aceptado
                           /\ dian'.rechazados = dian.rechazados \cup {x}
<1>1. dian \in Veredictos /\ x \in Xml
  BY DEF TypeOK, Xml
<1> QED
  BY <1>1 DEF Acepta, Rechaza, Veredictos

LEMMA EnviarHace ==
    ASSUME Supuestos, TypeOK, NEW a \in Actores, Enviar(a),
           leido[a].envios < INTENTOS, leido[a].xml # 0
    PROVE  /\ TypeOK' /\ Quietos(a) /\ pc[a] = "enviar"
           /\ UNCHANGED <<doc, bloqueo, bucket, firmas, entregado>>
           /\ leido'[a].xml = leido[a].xml /\ leido'[a].cont = leido[a].cont
           /\ leido'[a].primera = leido[a].primera /\ leido'[a].declara = leido[a].declara
           /\ pc'[a] \in {"enviar", "declarar", "consultar", "guardar"}
           /\ pc'[a] = "enviar" => leido'[a].envios < INTENTOS
           /\ pc'[a] \in {"enviar", "declarar"} => leido'[a].r = "red" /\ leido[a].declara
           /\ pc'[a] = "consultar" <=> leido'[a].r = "ya"
           /\ leido'[a].respondio <=> leido'[a].r # "red"
           /\ \/ leido'[a].r = "ya" /\ dian.aceptado # 0 /\ UNCHANGED <<dian, transito>>
              \/ /\ leido'[a].r = "valida" /\ dian.aceptado = 0
                 /\ dian'.aceptado = leido[a].xml /\ dian'.rechazados = dian.rechazados
                 /\ UNCHANGED transito
              \/ /\ leido'[a].r = "invalida" /\ dian.aceptado = 0 /\ dian'.aceptado = 0
                 /\ dian'.rechazados = dian.rechazados \cup {leido[a].xml} /\ UNCHANGED transito
              \/ leido'[a].r = "red" /\ UNCHANGED <<dian, transito>>
              \/ /\ leido'[a].r \in {"red", "pendiente"} /\ (leido[a].cont => "red" \in Fallas)
                 /\ transito' = transito \cup {leido[a].xml} /\ UNCHANGED dian
<1>x. leido[a].xml \in 1..MaxFirmas
  BY DEF TypeOK, Lecturas, Xml, Supuestos
<1>f. pc[a] = "enviar" /\ UNCHANGED <<doc, bloqueo, bucket, firmas, entregado, cortes>>
  BY DEF Enviar
<1>1. PICK r \in Respuestas :
             /\ Responde(a, r)
             /\ \/ r = "ya" /\ dian.aceptado # 0 /\ UNCHANGED <<dian, transito, perdidas>>
                \/ /\ r = "valida" /\ dian.aceptado = 0 /\ leido[a].xml \notin dian.rechazados
                   /\ Acepta(leido[a].xml) /\ UNCHANGED <<transito, perdidas>>
                \/ /\ r = "invalida" /\ dian.aceptado = 0
                   /\ Rechaza(leido[a].xml) /\ UNCHANGED <<transito, perdidas>>
                \/ r = "red" /\ Pierde /\ UNCHANGED <<dian, transito>>
                \/ /\ r \in {"red", "pendiente"} /\ Pierde /\ (leido[a].cont => "red" \in Fallas)
                   /\ transito' = transito \cup {leido[a].xml} /\ UNCHANGED dian
  BY EnviarDeja
<1>2. /\ leido' \in [Actores -> Lecturas]
      /\ \A b \in Actores : b # a => leido'[b] = leido[b] /\ pc'[b] = pc[b]
      /\ leido'[a].r = r
      /\ leido'[a].xml = leido[a].xml /\ leido'[a].cont = leido[a].cont
      /\ leido'[a].primera = leido[a].primera /\ leido'[a].declara = leido[a].declara
      /\ pc' \in [Actores -> Pasos \cup {"libre"}]
      /\ pc'[a] \in {"enviar", "declarar", "consultar", "guardar"}
      /\ pc'[a] = "enviar" => leido'[a].envios < INTENTOS
      /\ pc'[a] \in {"enviar", "declarar"} => r = "red" /\ leido[a].declara
      /\ pc'[a] = "consultar" <=> r = "ya"
      /\ leido'[a].respondio <=> r # "red"
  BY <1>1, <1>f, RespondeDeja
<1>3. /\ dian' \in Veredictos /\ transito' \subseteq 1..MaxFirmas
      /\ \/ r = "ya" /\ dian.aceptado # 0 /\ UNCHANGED <<dian, transito>>
         \/ /\ r = "valida" /\ dian.aceptado = 0
            /\ dian'.aceptado = leido[a].xml /\ dian'.rechazados = dian.rechazados
            /\ UNCHANGED transito
         \/ /\ r = "invalida" /\ dian.aceptado = 0 /\ dian'.aceptado = 0
            /\ dian'.rechazados = dian.rechazados \cup {leido[a].xml} /\ UNCHANGED transito
         \/ r = "red" /\ UNCHANGED <<dian, transito>>
         \/ /\ r \in {"red", "pendiente"} /\ (leido[a].cont => "red" \in Fallas)
            /\ transito' = transito \cup {leido[a].xml} /\ UNCHANGED dian
  BY <1>1, <1>x, DianDeja DEF TypeOK
<1>4. perdidas' \in 0..MaxPerdidas
  BY <1>1 DEF Pierde, TypeOK, Supuestos
<1>5. TypeOK'
  BY <1>2, <1>3, <1>4, <1>f DEF TypeOK
<1> QED
  BY <1>2, <1>3, <1>5, <1>f DEF Quietos


LEMMA ConsultarHace ==
    ASSUME Supuestos, TypeOK, NEW a \in Actores, Consultar(a)
    PROVE  /\ TypeOK' /\ Quietos(a) /\ pc[a] = "consultar"
           /\ UNCHANGED <<doc, bloqueo, bucket, firmas, transito, dian, entregado>>
           /\ pc'[a] = (IF leido[a].primera THEN "restaurar" ELSE "guardar")
           /\ leido'[a].xml = leido[a].xml /\ leido'[a].cont = leido[a].cont
           /\ leido'[a].primera = leido[a].primera /\ leido'[a].declara = leido[a].declara
           /\ \/ leido'[a].r = "valida"
              \/ leido'[a].r = "red" /\ (leido[a].cont => "red" \in Fallas)
<1> DEFINE p == IF leido[a].primera THEN "restaurar" ELSE "guardar"
<1>0. p \in Pasos \cup {"libre"} /\ {"valida", "red"} \subseteq Respuestas
  BY DEF Pasos, Respuestas
<1>1. PICK r \in {"valida", "red"} :
        /\ leido' = [leido EXCEPT ![a].r = r] /\ perdidas' \in {perdidas, perdidas + 1}
        /\ perdidas' # perdidas => perdidas < MaxPerdidas
        /\ r = "red" /\ leido[a].cont => "red" \in Fallas
  BY DEF Consultar, Pierde
<1>2. leido[a] \in Lecturas /\ leido[a].estado \in Estados /\ leido[a].xml \in Xml /\ r \in Respuestas
  BY <1>0 DEF TypeOK, Lecturas
<1>3. Lee(a, leido[a].estado, leido[a].xml, leido[a].cont, r)
  BY <1>1, <1>2 DEF TypeOK, Lecturas, Lee
<1>4. Va(a, p) /\ pc[a] = "consultar"
      /\ UNCHANGED <<doc, bloqueo, bucket, firmas, transito, dian, entregado, cortes>>
  BY DEF Consultar
<1> HIDE DEF p
<1>5. /\ leido' \in [Actores -> Lecturas] /\ pc' \in [Actores -> Pasos \cup {"libre"}]
      /\ Quietos(a) /\ pc'[a] = p
      /\ leido'[a].xml = leido[a].xml /\ leido'[a].cont = leido[a].cont /\ leido'[a].r = r
      /\ leido'[a].primera = leido[a].primera /\ leido'[a].declara = leido[a].declara
  BY <1>0, <1>2, <1>3, <1>4, LeeYVa
<1>6. perdidas' \in 0..MaxPerdidas
  BY <1>1 DEF TypeOK, Supuestos
<1>7. TypeOK'
  BY <1>4, <1>5, <1>6 DEF TypeOK
<1> QED
  BY <1>1, <1>4, <1>5, <1>7 DEF p

LEMMA DeclararHace ==
    ASSUME Supuestos, TypeOK, NEW a \in Actores, Declarar(a)
    PROVE  /\ TypeOK' /\ Quietos(a) /\ pc[a] = "declarar"
           /\ UNCHANGED <<doc, bloqueo, transito, dian, entregado, leido>>
           /\ bucket'.xml = bucket.xml
           /\ \/ pc'[a] = "guardar" /\ UNCHANGED <<firmas, bucket>>
              \/ pc'[a] = "reemplazar" /\ firmas' # 0 /\ bucket'.original = leido[a].xml
<1>0. {"reemplazar", "guardar"} \subseteq Pasos \cup {"libre"}
  BY DEF Pasos
<1>f. pc[a] = "declarar" /\ UNCHANGED <<doc, bloqueo, transito, dian, entregado, leido, perdidas, cortes>>
  BY DEF Declarar
<1>1. CASE /\ firmas < MaxFirmas /\ firmas' = firmas + 1
           /\ bucket' = [bucket EXCEPT !.original = leido[a].xml]
           /\ Va(a, "reemplazar")
  <2>1. firmas' \in Xml /\ firmas' # 0 /\ leido[a].xml \in Xml
    BY <1>1 DEF TypeOK, Xml, Supuestos, Lecturas
  <2>2. bucket' \in Bodegas /\ bucket'.xml = bucket.xml /\ bucket'.original = leido[a].xml
    BY <1>1, <2>1 DEF TypeOK, Bodegas
  <2>3. /\ leido' \in [Actores -> Lecturas] /\ pc' \in [Actores -> Pasos \cup {"libre"}]
        /\ Quietos(a) /\ pc'[a] = "reemplazar"
    BY <1>0, <1>1, <1>f, VaSola
  <2> QED
    BY <1>f, <2>1, <2>2, <2>3 DEF TypeOK
<1>2. CASE Va(a, "guardar") /\ UNCHANGED <<firmas, bucket>>
  <2>1. /\ leido' \in [Actores -> Lecturas] /\ pc' \in [Actores -> Pasos \cup {"libre"}]
        /\ Quietos(a) /\ pc'[a] = "guardar"
    BY <1>0, <1>2, <1>f, VaSola
  <2> QED
    BY <1>2, <1>f, <2>1 DEF TypeOK
<1> QED
  BY <1>1, <1>2 DEF Declarar

LEMMA ReemplazarHace ==
    ASSUME Supuestos, TypeOK, NEW a \in Actores, Reemplazar(a)
    PROVE  /\ TypeOK' /\ Quietos(a) /\ pc[a] = "reemplazar" /\ pc'[a] = "declarada"
           /\ UNCHANGED <<doc, bloqueo, firmas, transito, dian, entregado, leido>>
           /\ bucket'.xml = firmas /\ bucket'.original = bucket.original
<1>0. "declarada" \in Pasos \cup {"libre"}
  BY DEF Pasos
<1>1. /\ leido' \in [Actores -> Lecturas] /\ pc' \in [Actores -> Pasos \cup {"libre"}]
      /\ Quietos(a) /\ pc'[a] = "declarada"
  BY <1>0, VaSola DEF Reemplazar
<1>2. bucket' \in Bodegas /\ bucket'.xml = firmas /\ bucket'.original = bucket.original
  BY DEF Reemplazar, TypeOK, Bodegas
<1> QED
  BY <1>1, <1>2 DEF Reemplazar, TypeOK

LEMMA DeclaradaHace ==
    ASSUME Supuestos, TypeOK, NEW a \in Actores, Declarada(a)
    PROVE  /\ TypeOK' /\ Quietos(a) /\ pc[a] = "declarada"
           /\ UNCHANGED <<bloqueo, bucket, firmas, transito, dian, entregado, leido>>
           /\ \/ pc'[a] = "guardar" /\ UNCHANGED doc /\ ~Tiene(a, "sent")
              \/ /\ pc'[a] = "soltar" /\ Tiene(a, "sent")
                 /\ doc'.estado = "contingency" /\ doc'.contingencia /\ doc'.xml = doc.xml
                 /\ doc'.contRespondida = doc.contRespondida
<1>0. {"guardar", "soltar"} \subseteq Pasos \cup {"libre"} /\ "contingency" \in Estados
  BY DEF Pasos, Estados
<1>f. pc[a] = "declarada"
      /\ UNCHANGED <<bloqueo, bucket, firmas, transito, dian, entregado, leido, perdidas, cortes>>
  BY DEF Declarada
<1>1. CASE Tiene(a, "sent")
  <2>1. Va(a, "soltar") /\ doc' = [doc EXCEPT !.estado = "contingency", !.contingencia = TRUE]
    BY <1>1 DEF Declarada
  <2>2. /\ doc' \in Documentos /\ doc'.estado = "contingency" /\ doc'.contingencia
        /\ doc'.xml = doc.xml /\ doc'.contRespondida = doc.contRespondida
    BY <1>0, <2>1 DEF TypeOK, Documentos
  <2>3. /\ leido' \in [Actores -> Lecturas] /\ pc' \in [Actores -> Pasos \cup {"libre"}]
        /\ Quietos(a) /\ pc'[a] = "soltar"
    BY <1>0, <2>1, <1>f, VaSola
  <2> QED
    BY <1>f, <1>1, <2>2, <2>3 DEF TypeOK
<1>2. CASE ~Tiene(a, "sent")
  <2>1. Va(a, "guardar") /\ UNCHANGED doc
    BY <1>2 DEF Declarada
  <2>2. /\ leido' \in [Actores -> Lecturas] /\ pc' \in [Actores -> Pasos \cup {"libre"}]
        /\ Quietos(a) /\ pc'[a] = "guardar"
    BY <1>0, <2>1, <1>f, VaSola
  <2> QED
    BY <1>2, <1>f, <2>1, <2>2 DEF TypeOK
<1> QED
  BY <1>1, <1>2

LEMMA RestaurarHace ==
    ASSUME Supuestos, TypeOK, NEW a \in Actores, Restaurar(a)
    PROVE  /\ TypeOK' /\ Quietos(a) /\ pc[a] = "restaurar" /\ pc'[a] = "guardar"
           /\ UNCHANGED <<doc, bloqueo, firmas, transito, dian, entregado, leido>>
           /\ bucket'.original = bucket.original
           /\ \/ bucket'.xml = bucket.original
              \/ bucket' = bucket /\ "bucket" \in Fallas
<1>0. "guardar" \in Pasos \cup {"libre"}
  BY DEF Pasos
<1>1. /\ leido' \in [Actores -> Lecturas] /\ pc' \in [Actores -> Pasos \cup {"libre"}]
      /\ Quietos(a) /\ pc'[a] = "guardar"
  BY <1>0, VaSola DEF Restaurar
<1>2. /\ bucket' \in Bodegas /\ bucket'.original = bucket.original
      /\ \/ bucket'.xml = bucket.original
         \/ bucket' = bucket /\ "bucket" \in Fallas
  BY DEF Restaurar, TypeOK, Bodegas
<1> QED
  BY <1>1, <1>2 DEF Restaurar, TypeOK


LEMMA GuardarHace ==
    ASSUME Supuestos, TypeOK, NEW a \in Actores, Guardar(a)
    PROVE  /\ TypeOK' /\ Quietos(a) /\ pc[a] = "guardar"
           /\ UNCHANGED <<bloqueo, bucket, firmas, transito, dian, entregado, leido>>
           /\ \/ pc'[a] = "soltar" /\ UNCHANGED doc /\ ~Tiene(a, "sent")
              \/ /\ Tiene(a, "sent")
                 /\ doc'.estado = Destino(a) /\ doc'.xml = doc.xml
                 /\ doc'.contingencia = doc.contingencia
                 /\ ~(leido[a].cont /\ leido[a].respondio) =>
                      doc'.contRespondida = doc.contRespondida
                 /\ pc'[a] = (IF Destino(a) = "accepted" THEN "entregar" ELSE "soltar")
<1> DEFINE p == IF Destino(a) = "accepted" THEN "entregar" ELSE "soltar"
<1>0. p \in Pasos \cup {"libre"} /\ "soltar" \in Pasos \cup {"libre"} /\ Destino(a) \in Estados
  BY DEF Pasos, Estados, Destino
<1>f. pc[a] = "guardar"
      /\ UNCHANGED <<bloqueo, bucket, firmas, transito, dian, entregado, leido, perdidas, cortes>>
  BY DEF Guardar
<1>1. CASE Tiene(a, "sent")
  <2> DEFINE x == doc.respondida \/ leido[a].respondio
             y == doc.contRespondida \/ (leido[a].cont /\ leido[a].respondio)
             e == Destino(a)
  <2>1. /\ Va(a, p)
        /\ doc' = [doc EXCEPT !.estado = e, !.respondida = x, !.contRespondida = y]
    BY <1>1 DEF Guardar
  <2>2. x \in BOOLEAN /\ y \in BOOLEAN
    OBVIOUS
  <2> HIDE DEF x, y, e, p
  <2>3. e \in Estados
    BY <1>0 DEF e
  <2>4. /\ doc' \in Documentos /\ doc'.estado = e /\ doc'.contRespondida = y
        /\ doc'.xml = doc.xml /\ doc'.contingencia = doc.contingencia
    BY <2>1, <2>2, <2>3 DEF TypeOK, Documentos
  <2>5. /\ leido' \in [Actores -> Lecturas] /\ pc' \in [Actores -> Pasos \cup {"libre"}]
        /\ Quietos(a) /\ pc'[a] = p
    BY <1>0, <2>1, <1>f, VaSola
  <2>6. ~(leido[a].cont /\ leido[a].respondio) => doc'.contRespondida = doc.contRespondida
    <3>1. doc.contRespondida \in BOOLEAN
      BY DEF TypeOK, Documentos
    <3> QED
      BY <2>4, <3>1 DEF y
  <2>7. TypeOK'
    BY <1>f, <2>4, <2>5 DEF TypeOK
  <2> QED
    BY <1>f, <1>1, <2>4, <2>5, <2>6, <2>7 DEF e, p
<1>2. CASE ~Tiene(a, "sent")
  <2>1. Va(a, "soltar") /\ UNCHANGED doc
    BY <1>2 DEF Guardar
  <2>2. /\ leido' \in [Actores -> Lecturas] /\ pc' \in [Actores -> Pasos \cup {"libre"}]
        /\ Quietos(a) /\ pc'[a] = "soltar"
    BY <1>0, <2>1, <1>f, VaSola
  <2> QED
    BY <1>2, <1>f, <2>1, <2>2 DEF TypeOK
<1> QED
  BY <1>1, <1>2

LEMMA EntregarHace ==
    ASSUME Supuestos, TypeOK, NEW a \in Actores, Entregar(a)
    PROVE  /\ TypeOK' /\ Quietos(a) /\ pc[a] = "entregar" /\ pc'[a] = "soltar"
           /\ UNCHANGED <<doc, bloqueo, bucket, firmas, transito, dian, leido>>
           /\ entregado' = bucket.xml
<1>0. "soltar" \in Pasos \cup {"libre"} /\ bucket.xml \in Xml
  BY DEF Pasos, TypeOK, Bodegas
<1>1. /\ leido' \in [Actores -> Lecturas] /\ pc' \in [Actores -> Pasos \cup {"libre"}]
      /\ Quietos(a) /\ pc'[a] = "soltar"
  BY <1>0, VaSola DEF Entregar
<1> QED
  BY <1>0, <1>1 DEF Entregar, TypeOK

\* The end of a transmission and the loss of a process leave the same in the actor.
LEMMA TerminarHace ==
    ASSUME Supuestos, TypeOK, NEW a \in Actores, Va(a, "libre"),
           leido' = [leido EXCEPT ![a] = SinLeer],
           bloqueo' \in {bloqueo, Nadie}, cortes' \in 0..MaxCortes,
           UNCHANGED <<doc, bucket, firmas, transito, dian, entregado, perdidas>>
    PROVE  /\ TypeOK' /\ Quietos(a) /\ pc'[a] = "libre"
           /\ ~leido'[a].cont /\ leido'[a].r = "red" /\ leido'[a].envios = 0
           /\ ~leido'[a].declara
<1>1. "libre" \in Pasos \cup {"libre"} /\ "draft" \in Estados /\ MaxFirmas \in Nat
  BY DEF Estados, Supuestos
<1>2. SinLeer = [SinLeer EXCEPT !.estado = "draft"]
  BY DEF SinLeer
<1>3. leido' = [leido EXCEPT ![a] = [SinLeer EXCEPT !.estado = "draft"]]
  BY <1>2
<1>4. /\ leido' \in [Actores -> Lecturas]
      /\ \A b \in Actores : b # a => leido'[b] = leido[b]
      /\ ~leido'[a].cont /\ leido'[a].r = "red" /\ leido'[a].envios = 0
      /\ ~leido'[a].declara
  BY <1>1, <1>3, OlvidaDeja
<1>5. /\ pc' \in [Actores -> Pasos \cup {"libre"}] /\ pc'[a] = "libre"
      /\ \A b \in Actores : b # a => pc'[b] = pc[b]
  BY <1>1, VaDeja
<1> QED
  BY <1>4, <1>5 DEF TypeOK, Quietos

LEMMA LlegaHace ==
    ASSUME Supuestos, TypeOK, NEW x \in transito, Llega(x)
    PROVE  /\ TypeOK' /\ transito' = transito \ {x}
           /\ UNCHANGED <<doc, bloqueo, bucket, firmas, entregado, pc, leido>>
           /\ doc.contingencia => Fallas # {}
           /\ x # 0
           /\ \/ dian.aceptado # 0 /\ UNCHANGED dian
              \/ /\ dian.aceptado = 0 /\ x \notin dian.rechazados
                 /\ dian'.aceptado = x /\ dian'.rechazados = dian.rechazados
              \/ /\ dian.aceptado = 0 /\ dian'.aceptado = 0
                 /\ dian'.rechazados = dian.rechazados \cup {x}
<1>1. x \in 1..MaxFirmas /\ x # 0 /\ MaxFirmas \in Nat
  BY DEF TypeOK, Supuestos
<1>2. /\ dian' \in Veredictos
      /\ \/ dian.aceptado # 0 /\ UNCHANGED dian
         \/ /\ dian.aceptado = 0 /\ x \notin dian.rechazados
            /\ dian'.aceptado = x /\ dian'.rechazados = dian.rechazados
         \/ /\ dian.aceptado = 0 /\ dian'.aceptado = 0
            /\ dian'.rechazados = dian.rechazados \cup {x}
  BY <1>1, DianDeja DEF Llega, TypeOK
<1>3. /\ transito' = transito \ {x} /\ (doc.contingencia => Fallas # {})
      /\ UNCHANGED <<doc, bloqueo, bucket, firmas, entregado, pc, leido, perdidas, cortes>>
  BY DEF Llega
<1>4. TypeOK'
  BY <1>2, <1>3 DEF TypeOK
<1> QED
  BY <1>1, <1>2, <1>3, <1>4 DEF Llega


-----------------------------------------------------------------------------
(* The lock, the status and the XML of whoever holds it *)

LEMMA BienPaso ==
    ASSUME Supuestos, Bien, [Next]_vars
    PROVE  Bien'
<1> DEFINE Queda == TypeOK' /\ Cerrojo' /\ Reposo' /\ Estado' /\ ConXml'
<1>t. /\ TypeOK /\ Cerrojo /\ Reposo /\ Estado /\ ConXml
      /\ Usuarios \subseteq Actores /\ Barridos \subseteq Actores /\ Nadie \notin Actores
      /\ INTENTOS = 3 /\ (doc.estado = "signed" => doc.xml)
  BY DEF Bien, ConXml, Actores, Supuestos, INTENTOS
<1> USE <1>t DEF Cerrojo, Reposo, Estado, ConXml, Llamada, ConSuXml, Quietos
<1>1. ASSUME NEW u \in Usuarios, Transmitir(u) PROVE Queda
  <2>1. /\ TypeOK' /\ Quietos(u) /\ pc[u] = "libre" /\ pc'[u] = "tomar"
        /\ leido'[u].estado = doc.estado /\ ~leido'[u].cont /\ leido'[u].r = "red"
        /\ leido'[u].envios = 0 /\ ~leido'[u].declara
        /\ UNCHANGED <<doc, bloqueo, bucket, firmas>>
    BY <1>1, EmpezarHace DEF Transmitir
  <2>2. doc.estado # "accepted"
    BY <1>1 DEF Transmitir
  <2> QED
    BY <2>1, <2>2
<1>2. ASSUME NEW b \in Barridos, Barrer(b) PROVE Queda
  <2>1. /\ TypeOK' /\ Quietos(b) /\ pc[b] = "libre" /\ pc'[b] = "tomar"
        /\ leido'[b].estado = doc.estado /\ ~leido'[b].cont /\ leido'[b].r = "red"
        /\ leido'[b].envios = 0 /\ ~leido'[b].declara
        /\ UNCHANGED <<doc, bloqueo, bucket, firmas>>
    BY <1>2, EmpezarHace DEF Barrer
  <2>2. doc.estado # "accepted"
    BY <1>2 DEF Barrer
  <2> QED
    BY <2>1, <2>2
<1>3. ASSUME NEW a \in Actores, Tomar(a) PROVE Queda
  <2>1. Vencido => \A b \in Actores : pc[b] \in {"libre", "tomar"}
    BY DEF Vencido
  <2>2. /\ TypeOK' /\ pc[a] = "tomar"
    BY <1>3, TomarHace DEF Tomar
  <2>3. CASE pc'[a] = "libre" /\ UNCHANGED <<bloqueo, leido>>
    BY <1>3, <2>2, <2>3, TomarHace
  <2>4. CASE pc'[a] = "firmar" /\ UNCHANGED leido
    <3>1. /\ Quietos(a) /\ UNCHANGED <<doc, bucket, firmas>> /\ bloqueo' = a /\ Vencido
          /\ doc.estado = leido[a].estado /\ doc.estado \in {"draft", "rejected"}
      BY <1>3, <2>4, TomarHace
    <3> QED
      BY <2>1, <2>2, <2>4, <3>1
  <2>5. CASE pc'[a] = "marcar"
    <3>1. /\ Quietos(a) /\ UNCHANGED <<doc, bucket, firmas>> /\ bloqueo' = a /\ Vencido
          /\ doc.estado = leido[a].estado /\ doc.estado \notin {"draft", "rejected"}
          /\ leido'[a].xml = bucket.xml /\ leido'[a].estado = leido[a].estado
          /\ (leido'[a].cont <=> doc.estado = "contingency") /\ leido'[a].r = leido[a].r
          /\ leido'[a].envios = leido[a].envios /\ leido'[a].declara = leido[a].declara
      BY <1>3, <2>5, TomarHace
    <3>2. doc.estado \in {"signed", "sent", "contingency"} /\ doc.estado # "accepted"
      BY <2>2, <3>1 DEF TypeOK, Documentos, Estados
    <3> QED
      BY <2>1, <2>2, <2>5, <3>1, <3>2
  <2> QED
    BY <1>3, <2>3, <2>4, <2>5, TomarHace
<1>4. ASSUME NEW a \in Actores, Firmar(a) PROVE Queda
  BY <1>4, FirmarHace
<1>5. ASSUME NEW a \in Actores, Firmado(a) PROVE Queda
  BY <1>5, FirmadoHace
<1>6. ASSUME NEW a \in Actores, Marcar(a) PROVE Queda
  BY <1>6, MarcarHace
<1>7. ASSUME NEW a \in Actores, Enviar(a) PROVE Queda
  <2>1. pc[a] = "enviar" /\ leido[a].envios < INTENTOS /\ leido[a].xml # 0
    BY <1>7 DEF Enviar
  <2> QED
    BY <1>7, <2>1, EnviarHace
<1>8. ASSUME NEW a \in Actores, Consultar(a) PROVE Queda
  BY <1>8, ConsultarHace
<1>9. ASSUME NEW a \in Actores, Declarar(a) PROVE Queda
  BY <1>9, DeclararHace
<1>10. ASSUME NEW a \in Actores, Reemplazar(a) PROVE Queda
  BY <1>10, ReemplazarHace
<1>11. ASSUME NEW a \in Actores, Declarada(a) PROVE Queda
  BY <1>11, DeclaradaHace
<1>12. ASSUME NEW a \in Actores, Restaurar(a) PROVE Queda
  BY <1>12, RestaurarHace
<1>13. ASSUME NEW a \in Actores, Guardar(a) PROVE Queda
  <2>1. pc[a] = "guardar" /\ Tiene(a, "sent") /\ (leido[a].cont => doc.contingencia)
    BY <1>13 DEF Guardar, Tiene
  <2>2. /\ Destino(a) \in {"contingency", "accepted", "rejected", "sent"}
        /\ Destino(a) = "contingency" => leido[a].cont
    BY DEF Destino
  <2> QED
    BY <1>13, <2>1, <2>2, GuardarHace
<1>14. ASSUME NEW a \in Actores, Entregar(a) PROVE Queda
  BY <1>14, EntregarHace
<1>15. ASSUME NEW a \in Actores, Soltar(a) PROVE Queda
  <2>1. /\ Va(a, "libre") /\ leido' = [leido EXCEPT ![a] = SinLeer]
        /\ bloqueo' \in {bloqueo, Nadie} /\ (\A b \in Actores : b # a /\ bloqueo = b => bloqueo' = b)
        /\ cortes' \in 0..MaxCortes
        /\ UNCHANGED <<doc, bucket, firmas, transito, dian, entregado, perdidas>>
    BY ONLY <1>15, TypeOK DEF Soltar, TypeOK
  <2>2. /\ TypeOK' /\ Quietos(a) /\ pc'[a] = "libre"
        /\ ~leido'[a].cont /\ leido'[a].r = "red" /\ leido'[a].envios = 0
        /\ ~leido'[a].declara
    BY <2>1, TerminarHace
  <2> QED
    BY <2>1, <2>2
<1>16. ASSUME NEW a \in Actores, Corte(a) PROVE Queda
  <2>1. /\ Va(a, "libre") /\ leido' = [leido EXCEPT ![a] = SinLeer]
        /\ bloqueo' \in {bloqueo, Nadie} /\ (\A b \in Actores : b # a /\ bloqueo = b => bloqueo' = b)
        /\ cortes' \in 0..MaxCortes
        /\ UNCHANGED <<doc, bucket, firmas, transito, dian, entregado, perdidas>>
    BY ONLY <1>16, TypeOK, Supuestos DEF Corte, TypeOK, Supuestos
  <2>2. /\ TypeOK' /\ Quietos(a) /\ pc'[a] = "libre"
        /\ ~leido'[a].cont /\ leido'[a].r = "red" /\ leido'[a].envios = 0
        /\ ~leido'[a].declara
    BY <2>1, TerminarHace
  <2> QED
    BY <2>1, <2>2
<1>17. ASSUME NEW x \in transito, Llega(x) PROVE Queda
  BY <1>17, LlegaHace
<1>18. CASE UNCHANGED vars
  <2>1. TypeOK'
    BY <1>18 DEF vars, TypeOK
  <2>2. Cerrojo' /\ Reposo'
    BY <1>18 DEF vars
  <2>3. Estado'
    BY <1>18 DEF vars
  <2>4. ConXml'
    BY <1>18 DEF vars
  <2> HIDE DEF Cerrojo, Reposo, Estado, ConXml
  <2> QED
    BY <2>1, <2>2, <2>3, <2>4 DEF Bien
<1> QED
  BY <1>1, <1>2, <1>3, <1>4, <1>5, <1>6, <1>7, <1>8, <1>9, <1>10, <1>11, <1>12, <1>13,
     <1>14, <1>15, <1>16, <1>17, <1>18
     DEF Next, Sigue, Bien


LEMMA BienInicial ==
    ASSUME Supuestos, Init
    PROVE  Bien
<1>1. 0 \in Xml /\ "draft" \in Estados /\ 0 \in 0..INTENTOS
  BY DEF Supuestos, Xml, Estados, INTENTOS
<1>2. SinLeer \in Lecturas
  BY <1>1 DEF SinLeer, Lecturas
<1>3. doc \in Documentos /\ bucket \in Bodegas /\ dian \in Veredictos
  BY <1>1 DEF Init, Documentos, Bodegas, Veredictos
<1>4. TypeOK
  BY <1>1, <1>2, <1>3 DEF Init, TypeOK, Supuestos
<1>5. \A a \in Actores : pc[a] = "libre" /\ leido[a] = SinLeer
  BY DEF Init
<1>6. Cerrojo /\ Reposo /\ Estado /\ ConXml
  BY <1>5 DEF Init, SinLeer, Cerrojo, Reposo, Estado, ConXml, Llamada, ConSuXml
<1> QED
  BY <1>4, <1>6 DEF Bien

\* Two transmissions are never past the lock together, although locks expire and
\* processes are killed (tomarBloqueo).
THEOREM UnoTransmiteSiempre ==
    ASSUME Supuestos
    PROVE  Spec => [](TypeOK /\ UnoTransmite)
<1>1. Init => Bien
  BY BienInicial
<1>2. Bien /\ [Next]_vars => Bien'
  BY BienPaso
<1>3. Bien => TypeOK /\ UnoTransmite
  BY DEF Bien, Cerrojo, UnoTransmite
<1> QED
  BY <1>1, <1>2, <1>3, PTL DEF Spec

-----------------------------------------------------------------------------
(* What was sent, and what the authority said *)

Dicho ==
    /\ \A a \in Actores :
         /\ pc[a] = "consultar" \/ leido[a].r = "valida" => dian.aceptado # 0
         /\ leido[a].r = "invalida" => dian.rechazados # {}
    /\ VeredictoDeLaDian
    /\ EnviadoQuedaRegistrado

LEMMA DichoPaso ==
    ASSUME Supuestos, Bien, Dicho, [Next]_vars
    PROVE  Dicho'
<1>t. /\ TypeOK /\ Usuarios \subseteq Actores /\ Barridos \subseteq Actores
  BY DEF Bien, Actores
<1> USE <1>t DEF Dicho, VeredictoDeLaDian, EnviadoQuedaRegistrado, Quietos
<1>1. ASSUME NEW u \in Usuarios, Transmitir(u) PROVE Dicho'
  <2>1. /\ Quietos(u) /\ pc'[u] = "tomar" /\ leido'[u].r = "red"
        /\ UNCHANGED <<doc, transito, dian>>
    BY <1>1, EmpezarHace DEF Transmitir
  <2> QED
    BY <2>1
<1>2. ASSUME NEW b \in Barridos, Barrer(b) PROVE Dicho'
  <2>1. /\ Quietos(b) /\ pc'[b] = "tomar" /\ leido'[b].r = "red"
        /\ UNCHANGED <<doc, transito, dian>>
    BY <1>2, EmpezarHace DEF Barrer
  <2> QED
    BY <2>1
<1>3. ASSUME NEW a \in Actores, Tomar(a) PROVE Dicho'
  BY <1>3, TomarHace
<1>4. ASSUME NEW a \in Actores, Firmar(a) PROVE Dicho'
  BY <1>4, FirmarHace
<1>5. ASSUME NEW a \in Actores, Firmado(a) PROVE Dicho'
  <2>1. pc[a] = "firmado" /\ doc.estado \in {"draft", "rejected"}
    BY <1>5 DEF Firmado, Bien, Estado
  <2> QED
    BY <1>5, <2>1, FirmadoHace
<1>6. ASSUME NEW a \in Actores, Marcar(a) PROVE Dicho'
  BY <1>6, MarcarHace
<1>7. ASSUME NEW a \in Actores, Enviar(a) PROVE Dicho'
  <2>1. pc[a] = "enviar" /\ leido[a].envios < INTENTOS /\ leido[a].xml # 0 /\ doc.estado = "sent"
    BY <1>7 DEF Enviar, Bien, Estado, ConXml, ConSuXml, Llamada
  <2> QED
    BY <1>7, <2>1, EnviarHace
<1>8. ASSUME NEW a \in Actores, Consultar(a) PROVE Dicho'
  BY <1>8, ConsultarHace
<1>9. ASSUME NEW a \in Actores, Declarar(a) PROVE Dicho'
  BY <1>9, DeclararHace
<1>10. ASSUME NEW a \in Actores, Reemplazar(a) PROVE Dicho'
  BY <1>10, ReemplazarHace
<1>11. ASSUME NEW a \in Actores, Declarada(a) PROVE Dicho'
  BY <1>11, DeclaradaHace
<1>12. ASSUME NEW a \in Actores, Restaurar(a) PROVE Dicho'
  BY <1>12, RestaurarHace
<1>13. ASSUME NEW a \in Actores, Guardar(a) PROVE Dicho'
  <2>1. pc[a] = "guardar" /\ doc.estado = "sent" /\ leido[a].r \in Respuestas
    BY <1>13 DEF Guardar, Bien, Estado, Llamada, TypeOK, Lecturas, Respuestas
  <2>2. /\ Destino(a) \in {"contingency", "accepted", "rejected", "sent"}
        /\ Destino(a) = "accepted" => leido[a].r = "valida"
        /\ Destino(a) = "rejected" => leido[a].r = "invalida"
    BY DEF Destino
  <2> QED
    BY <1>13, <2>1, <2>2, GuardarHace
<1>14. ASSUME NEW a \in Actores, Entregar(a) PROVE Dicho'
  BY <1>14, EntregarHace
<1>15. ASSUME NEW a \in Actores, Soltar(a) PROVE Dicho'
  <2>1. /\ Va(a, "libre") /\ leido' = [leido EXCEPT ![a] = SinLeer]
        /\ bloqueo' \in {bloqueo, Nadie} /\ cortes' \in 0..MaxCortes
        /\ UNCHANGED <<doc, bucket, firmas, transito, dian, entregado, perdidas>>
    BY ONLY <1>15, TypeOK, Supuestos DEF Soltar, TypeOK, Supuestos
  <2>2. Quietos(a) /\ pc'[a] = "libre" /\ leido'[a].r = "red"
    BY <2>1, TerminarHace
  <2> QED
    BY <2>1, <2>2
<1>16. ASSUME NEW a \in Actores, Corte(a) PROVE Dicho'
  <2>1. /\ Va(a, "libre") /\ leido' = [leido EXCEPT ![a] = SinLeer]
        /\ bloqueo' \in {bloqueo, Nadie} /\ cortes' \in 0..MaxCortes
        /\ UNCHANGED <<doc, bucket, firmas, transito, dian, entregado, perdidas>>
    BY ONLY <1>16, TypeOK, Supuestos DEF Corte, TypeOK, Supuestos
  <2>2. Quietos(a) /\ pc'[a] = "libre" /\ leido'[a].r = "red"
    BY <2>1, TerminarHace
  <2> QED
    BY <2>1, <2>2
<1>17. ASSUME NEW x \in transito, Llega(x) PROVE Dicho'
  BY <1>17, LlegaHace
<1>18. CASE UNCHANGED vars
  BY <1>18 DEF vars
<1> QED
  BY <1>1, <1>2, <1>3, <1>4, <1>5, <1>6, <1>7, <1>8, <1>9, <1>10, <1>11, <1>12, <1>13,
     <1>14, <1>15, <1>16, <1>17, <1>18
     DEF Next, Sigue

\* Whatever is lost and whoever dies, only the authority accepts or rejects: no
\* lost answer, takeover or late request makes a verdict (estadoTrasRespuesta).
THEOREM VeredictoSiempreDeLaDian ==
    ASSUME Supuestos
    PROVE  Spec => []VeredictoDeLaDian
<1>1. Init => Bien /\ Dicho
  BY BienInicial DEF Init, Dicho, VeredictoDeLaDian, EnviadoQuedaRegistrado, SinLeer
<1>2. Bien /\ Dicho /\ [Next]_vars => (Bien /\ Dicho)'
  BY BienPaso, DichoPaso
<1>3. Dicho => VeredictoDeLaDian
  BY DEF Dicho
<1> QED
  BY <1>1, <1>2, <1>3, PTL DEF Spec

\* "A document is never transmitted without being recorded": once an XML left, the
\* document is not back where it would be signed again, unless it was rejected.
THEOREM EnviadoSiempreRegistrado ==
    ASSUME Supuestos
    PROVE  Spec => []EnviadoQuedaRegistrado
<1>1. Init => Bien /\ Dicho
  BY BienInicial DEF Init, Dicho, VeredictoDeLaDian, EnviadoQuedaRegistrado, SinLeer
<1>2. Bien /\ Dicho /\ [Next]_vars => (Bien /\ Dicho)'
  BY BienPaso, DichoPaso
<1>3. Dicho => EnviadoQuedaRegistrado
  BY DEF Dicho
<1> QED
  BY <1>1, <1>2, <1>3, PTL DEF Spec


-----------------------------------------------------------------------------
(* The contingency, and which XML the authority may have *)

\* Outside production there is no contingency; in it, nothing fails once declared.
SinFallas == Produccion => Fallas = {}

\* Only one that was declared is sent as a contingency, until it is answered.
Contingente ==
    /\ doc.contingencia => Produccion
    /\ doc.contRespondida => doc.contingencia
    /\ doc.estado = "contingency" => ~doc.contRespondida
    /\ \A a \in Actores :
         /\ leido[a].cont /\ pc[a] \in Llamada \cup {"marcar"} => ~doc.contRespondida
         /\ pc[a] = "marcar" /\ leido[a].cont => leido[a].estado = "contingency"
         /\ pc[a] = "marcar" /\ leido[a].estado = "contingency" => leido[a].cont
         /\ pc[a] \in Llamada => (leido[a].cont => leido[a].primera)
         /\ pc[a] \in Llamada /\ leido[a].declara => Produccion /\ ~doc.contingencia
         /\ leido[a].cont /\ pc[a] = "guardar" =>
              /\ leido[a].r \in {"red", "valida", "invalida"}
              /\ leido[a].r = "red" => ~leido[a].respondio
         /\ pc[a] = "restaurar" => leido[a].cont /\ leido[a].r = "valida"
         /\ pc[a] \in {"declarar", "reemplazar", "declarada"} =>
              leido[a].declara /\ leido[a].r = "red"

LEMMA ContingentePaso ==
    ASSUME Supuestos, SinFallas, Bien, Contingente, [Next]_vars
    PROVE  Contingente'
<1>t. /\ TypeOK /\ Cerrojo /\ Estado /\ Reposo /\ ConXml
      /\ Usuarios \subseteq Actores /\ Barridos \subseteq Actores
  BY DEF Bien, Actores
<1>d. \A a, b \in Actores :
        pc[a] \notin {"libre", "tomar"} /\ pc[b] \notin {"libre", "tomar"} => a = b
  BY <1>t DEF Cerrojo
<1> USE <1>t, <1>d, SinFallas DEF Contingente, SinFallas, Quietos, Llamada, Estado, Reposo, ConXml
<1>1. ASSUME NEW u \in Usuarios, Transmitir(u) PROVE Contingente'
  <2>1. /\ TypeOK' /\ Quietos(u) /\ pc[u] = "libre" /\ pc'[u] = "tomar" /\ ~leido'[u].cont
        /\ UNCHANGED <<doc, bucket, transito, dian, entregado>>
    BY <1>1, EmpezarHace DEF Transmitir
  <2> QED
    BY <2>1
<1>2. ASSUME NEW b \in Barridos, Barrer(b) PROVE Contingente'
  <2>1. /\ TypeOK' /\ Quietos(b) /\ pc[b] = "libre" /\ pc'[b] = "tomar" /\ ~leido'[b].cont
        /\ UNCHANGED <<doc, bucket, transito, dian, entregado>>
    BY <1>2, EmpezarHace DEF Barrer
  <2> QED
    BY <2>1
<1>3. ASSUME NEW a \in Actores, Tomar(a) PROVE Contingente'
  BY <1>3, TomarHace
<1>4. ASSUME NEW a \in Actores, Firmar(a) PROVE Contingente'
  BY <1>4, FirmarHace
<1>5. ASSUME NEW a \in Actores, Firmado(a) PROVE Contingente'
  BY <1>5, FirmadoHace
<1>6. ASSUME NEW a \in Actores, Marcar(a) PROVE Contingente'
  BY <1>6, MarcarHace
<1>7. ASSUME NEW a \in Actores, Enviar(a) PROVE Contingente'
  <2>1. pc[a] = "enviar" /\ leido[a].envios < INTENTOS /\ leido[a].xml # 0
    BY <1>7 DEF Enviar, Bien, Estado, ConXml, ConSuXml
  <2> QED
    BY <1>7, <2>1, EnviarHace
<1>8. ASSUME NEW a \in Actores, Consultar(a) PROVE Contingente'
  BY <1>8, ConsultarHace
<1>9. ASSUME NEW a \in Actores, Declarar(a) PROVE Contingente'
  BY <1>9, DeclararHace
<1>10. ASSUME NEW a \in Actores, Reemplazar(a) PROVE Contingente'
  BY <1>10, ReemplazarHace
<1>11. ASSUME NEW a \in Actores, Declarada(a) PROVE Contingente'
  BY <1>11, DeclaradaHace
<1>12. ASSUME NEW a \in Actores, Restaurar(a) PROVE Contingente'
  BY <1>12, RestaurarHace
<1>13. ASSUME NEW a \in Actores, Guardar(a) PROVE Contingente'
  <2>1. pc[a] = "guardar" /\ doc.estado = "sent" /\ leido[a].r \in Respuestas
    BY <1>13 DEF Guardar, Bien, Estado, Llamada, TypeOK, Lecturas, Respuestas
  <2>2. /\ Destino(a) \in {"contingency", "accepted", "rejected", "sent"}
        /\ Destino(a) = "contingency" => leido[a].cont /\ leido[a].r = "red"
        /\ Destino(a) = "accepted" => leido[a].r = "valida"
        /\ Destino(a) = "rejected" => leido[a].r = "invalida"
        /\ leido[a].r = "invalida" => Destino(a) = "rejected"
        /\ leido[a].cont /\ leido[a].r = "red" => Destino(a) = "contingency"
    BY DEF Destino
  <2> QED
    BY <1>13, <2>1, <2>2, GuardarHace
<1>14. ASSUME NEW a \in Actores, Entregar(a) PROVE Contingente'
  BY <1>14, EntregarHace
<1>15. ASSUME NEW a \in Actores, Soltar(a) PROVE Contingente'
  <2>1. /\ Va(a, "libre") /\ leido' = [leido EXCEPT ![a] = SinLeer]
        /\ bloqueo' \in {bloqueo, Nadie} /\ cortes' \in 0..MaxCortes
        /\ UNCHANGED <<doc, bucket, firmas, transito, dian, entregado, perdidas>>
    BY ONLY <1>15, TypeOK, Supuestos DEF Soltar, TypeOK, Supuestos
  <2>2. TypeOK' /\ Quietos(a) /\ pc'[a] = "libre" /\ ~leido'[a].cont
    BY <2>1, TerminarHace
  <2> QED
    BY <2>1, <2>2
<1>16. ASSUME NEW a \in Actores, Corte(a) PROVE Contingente'
  <2>1. /\ Va(a, "libre") /\ leido' = [leido EXCEPT ![a] = SinLeer]
        /\ bloqueo' \in {bloqueo, Nadie} /\ cortes' \in 0..MaxCortes
        /\ UNCHANGED <<doc, bucket, firmas, transito, dian, entregado, perdidas>>
    BY ONLY <1>16, TypeOK, Supuestos DEF Corte, TypeOK, Supuestos
  <2>2. TypeOK' /\ Quietos(a) /\ pc'[a] = "libre" /\ ~leido'[a].cont
    BY <2>1, TerminarHace
  <2> QED
    BY <2>1, <2>2
<1>17. ASSUME NEW x \in transito, Llega(x) PROVE Contingente'
  BY <1>17, LlegaHace
<1>18. CASE UNCHANGED vars
  BY <1>18 DEF vars
<1> QED
  BY <1>1, <1>2, <1>3, <1>4, <1>5, <1>6, <1>7, <1>8, <1>9, <1>10, <1>11, <1>12, <1>13,
     <1>14, <1>15, <1>16, <1>17, <1>18
     DEF Next, Sigue


\* The contingency is prepared or under way, and the original is still the one that
\* the authority may have.
EnCola(a) ==
    \/ pc[a] = "declarada"
    \/ leido[a].cont /\ pc[a] \in {"marcar", "enviar", "consultar", "restaurar"}
    \/ leido[a].cont /\ pc[a] = "guardar" /\ leido[a].r = "red"

EsOriginal == doc.estado = "contingency" \/ \E a \in Actores : EnCola(a)

\* The only XML that the authority can still accept, or accepted.
Vigente == IF EsOriginal THEN bucket.original ELSE bucket.xml

Negado(a) == pc[a] = "guardar" /\ leido[a].r = "invalida"

\* The authority has nothing that it may accept: what was sent was rejected.
Cerrado ==
    \/ doc.estado \in {"draft", "signed", "rejected"}
    \/ \E a \in Actores : Negado(a)

Validado ==
    /\ dian.aceptado \in {0, Vigente}
    /\ ~doc.contingencia => transito \subseteq dian.rechazados \cup {Vigente}
    /\ Cerrado => dian.aceptado = 0 /\ (~doc.contingencia => transito \subseteq dian.rechazados)
    /\ entregado \in {0, dian.aceptado}

\* While an actor holds the lock, it alone says where the document is.
LEMMA SoloQuienTiene ==
    ASSUME Bien, NEW a \in Actores, Quietos(a),
           \A b \in Actores : b # a => pc[b] \in {"libre", "tomar"}
    PROVE  /\ (EsOriginal <=> doc.estado = "contingency" \/ EnCola(a))
           /\ (Cerrado <=> doc.estado \in {"draft", "signed", "rejected"} \/ Negado(a))
           /\ (EsOriginal' <=> doc'.estado = "contingency" \/ EnCola(a)')
           /\ (Cerrado' <=> doc'.estado \in {"draft", "signed", "rejected"} \/ Negado(a)')
<1>1. \A b \in Actores : b # a => ~EnCola(b) /\ ~Negado(b) /\ ~EnCola(b)' /\ ~Negado(b)'
  BY DEF Quietos, EnCola, Negado, Bien, Reposo
<1> QED
  BY <1>1 DEF EsOriginal, Cerrado

LEMMA ValidadoPaso ==
    ASSUME Supuestos, SinFallas, Bien, Dicho, Contingente, Validado, [Next]_vars
    PROVE  Validado'
<1>t. /\ TypeOK /\ Estado /\ ConXml /\ Contingente /\ Dicho
      /\ Usuarios \subseteq Actores /\ Barridos \subseteq Actores
  BY DEF Bien, Actores
<1>d. \A a, b \in Actores :
        pc[a] \notin {"libre", "tomar"} /\ pc[b] \notin {"libre", "tomar"} => a = b
  BY DEF Bien, Cerrojo
<1> USE <1>t, <1>d, SinFallas DEF Contingente, SinFallas, Quietos, Llamada, ConSuXml,
        Estado, ConXml, Validado, Vigente, EsOriginal, EnCola, Cerrado, Negado
<1>1. ASSUME NEW u \in Usuarios, Transmitir(u) PROVE Validado'
  <2>1. /\ TypeOK' /\ Quietos(u) /\ pc[u] = "libre" /\ pc'[u] = "tomar" /\ ~leido'[u].cont
        /\ UNCHANGED <<doc, bucket, transito, dian, entregado>>
    BY <1>1, EmpezarHace DEF Transmitir
  <2> QED
    BY <2>1
<1>2. ASSUME NEW b \in Barridos, Barrer(b) PROVE Validado'
  <2>1. /\ TypeOK' /\ Quietos(b) /\ pc[b] = "libre" /\ pc'[b] = "tomar" /\ ~leido'[b].cont
        /\ UNCHANGED <<doc, bucket, transito, dian, entregado>>
    BY <1>2, EmpezarHace DEF Barrer
  <2> QED
    BY <2>1
<1>3. ASSUME NEW a \in Actores, Tomar(a) PROVE Validado'
  <2>1. CASE pc'[a] = "libre" /\ UNCHANGED <<bloqueo, leido>>
    <3>1. pc[a] = "tomar" /\ Quietos(a) /\ UNCHANGED <<doc, bucket, transito, dian, entregado>>
      BY <1>3, TomarHace DEF Tomar
    <3>2. (EsOriginal' <=> EsOriginal) /\ (Cerrado' <=> Cerrado)
      BY <2>1, <3>1
    <3> HIDE DEF EsOriginal, Cerrado
    <3> QED
      BY <3>1, <3>2
  <2>2. CASE ~(pc'[a] = "libre" /\ UNCHANGED <<bloqueo, leido>>)
    <3>1. /\ pc[a] = "tomar" /\ Quietos(a) /\ Vencido
          /\ UNCHANGED <<doc, bucket, transito, dian, entregado>>
          /\ \/ doc.estado # "contingency" /\ pc'[a] = "firmar"
             \/ pc'[a] = "marcar" /\ (leido'[a].cont => doc.estado = "contingency")
      BY <1>3, <2>2, TomarHace DEF Tomar
    <3>2. \A b \in Actores : b # a => pc[b] \in {"libre", "tomar"}
      BY <3>1 DEF Vencido, Bien, Cerrojo, Supuestos
    <3>3. /\ (EsOriginal <=> doc.estado = "contingency" \/ EnCola(a))
          /\ (Cerrado <=> doc.estado \in {"draft", "signed", "rejected"} \/ Negado(a))
          /\ (EsOriginal' <=> doc'.estado = "contingency" \/ EnCola(a)')
          /\ (Cerrado' <=> doc'.estado \in {"draft", "signed", "rejected"} \/ Negado(a)')
      BY <3>1, <3>2, SoloQuienTiene
    <3>4. ~EnCola(a) /\ ~Negado(a)
      BY <3>1
    <3> HIDE DEF EsOriginal, Cerrado
    <3> QED
      BY <3>1, <3>3, <3>4
  <2> QED
    BY <2>1, <2>2
<1>4. ASSUME NEW a \in Actores, Firmar(a) PROVE Validado'
  BY <1>4, FirmarHace
<1>5. ASSUME NEW a \in Actores, Firmado(a) PROVE Validado'
  BY <1>5, FirmadoHace
<1>6. ASSUME NEW a \in Actores, Marcar(a) PROVE Validado'
  BY <1>6, MarcarHace
<1>7. ASSUME NEW a \in Actores, Enviar(a) PROVE Validado'
  <2>1. pc[a] = "enviar" /\ leido[a].envios < INTENTOS /\ leido[a].xml # 0
    BY <1>7 DEF Enviar, Bien, Estado, ConXml, ConSuXml
  <2> QED
    BY <1>7, <2>1, EnviarHace
<1>8. ASSUME NEW a \in Actores, Consultar(a) PROVE Validado'
  BY <1>8, ConsultarHace
<1>9. ASSUME NEW a \in Actores, Declarar(a) PROVE Validado'
  <2>1. pc[a] \notin {"libre", "tomar"}
    BY <1>9, DeclararHace
  <2>2. \A b \in Actores : b # a => pc[b] \in {"libre", "tomar"}
    BY <2>1, <1>d
  <2>3. /\ (EsOriginal <=> doc.estado = "contingency" \/ EnCola(a))
        /\ (Cerrado <=> doc.estado \in {"draft", "signed", "rejected"} \/ Negado(a))
        /\ (EsOriginal' <=> doc'.estado = "contingency" \/ EnCola(a)')
        /\ (Cerrado' <=> doc'.estado \in {"draft", "signed", "rejected"} \/ Negado(a)')
    BY <1>9, <2>2, DeclararHace, SoloQuienTiene
  <2>4. /\ pc[a] = "declarar" /\ pc'[a] \in {"guardar", "reemplazar"} /\ ~leido[a].cont
        /\ bucket'.xml = bucket.xml /\ doc.estado = "sent"
        /\ UNCHANGED <<doc, transito, dian, entregado, leido>>
    BY <1>9, DeclararHace
  <2> HIDE DEF EsOriginal, Cerrado
  <2> QED
    BY <2>3, <2>4
<1>10. ASSUME NEW a \in Actores, Reemplazar(a) PROVE Validado'
  BY <1>10, ReemplazarHace
<1>11. ASSUME NEW a \in Actores, Declarada(a) PROVE Validado'
  <2>1. pc[a] \notin {"libre", "tomar"}
    BY <1>11, DeclaradaHace
  <2>2. \A b \in Actores : b # a => pc[b] \in {"libre", "tomar"}
    BY <2>1, <1>d
  <2>3. /\ (EsOriginal <=> doc.estado = "contingency" \/ EnCola(a))
        /\ (Cerrado <=> doc.estado \in {"draft", "signed", "rejected"} \/ Negado(a))
        /\ (EsOriginal' <=> doc'.estado = "contingency" \/ EnCola(a)')
        /\ (Cerrado' <=> doc'.estado \in {"draft", "signed", "rejected"} \/ Negado(a)')
    BY <1>11, <2>2, DeclaradaHace, SoloQuienTiene
  <2>4. /\ pc[a] = "declarada" /\ doc.estado = "sent" /\ Tiene(a, "sent")
        /\ ~Negado(a)'
        /\ UNCHANGED <<bucket, transito, dian, entregado, leido>>
        /\ doc'.estado = "contingency" /\ doc'.contingencia
    BY <1>11, DeclaradaHace DEF Declarada, Bien, Cerrojo, Tiene
  <2> HIDE DEF EsOriginal, Cerrado
  <2> QED
    BY <2>3, <2>4
<1>12. ASSUME NEW a \in Actores, Restaurar(a) PROVE Validado'
  <2>1. pc[a] \notin {"libre", "tomar"}
    BY <1>12, RestaurarHace
  <2>2. \A b \in Actores : b # a => pc[b] \in {"libre", "tomar"}
    BY <2>1, <1>d
  <2>3. /\ (EsOriginal <=> doc.estado = "contingency" \/ EnCola(a))
        /\ (Cerrado <=> doc.estado \in {"draft", "signed", "rejected"} \/ Negado(a))
        /\ (EsOriginal' <=> doc'.estado = "contingency" \/ EnCola(a)')
        /\ (Cerrado' <=> doc'.estado \in {"draft", "signed", "rejected"} \/ Negado(a)')
    BY <1>12, <2>2, RestaurarHace, SoloQuienTiene
  <2>5. pc[a] = "restaurar" /\ pc'[a] = "guardar"
        /\ UNCHANGED <<doc, transito, dian, entregado, leido>>
        /\ (bucket'.xml = bucket.original \/ "bucket" \in Fallas)
    BY ONLY <1>12, <1>t, Supuestos, RestaurarHace
  <2>6. /\ doc.estado = "sent" /\ leido[a].r = "valida" /\ leido[a].cont
        /\ doc.contingencia /\ Produccion /\ Fallas = {} /\ dian.aceptado # 0
    BY <2>5 DEF Dicho
  <2>4. /\ pc[a] = "restaurar" /\ doc.estado = "sent" /\ leido[a].r = "valida"
        /\ pc'[a] = "guardar" /\ leido[a].cont /\ dian.aceptado # 0
        /\ UNCHANGED <<doc, transito, dian, entregado, leido>> /\ bucket'.xml = bucket.original
    BY <2>5, <2>6
  <2> HIDE DEF EsOriginal, Cerrado
  <2> QED
    BY <2>3, <2>4
<1>13. ASSUME NEW a \in Actores, Guardar(a) PROVE Validado'
  <2>1. pc[a] \notin {"libre", "tomar"}
    BY <1>13, GuardarHace
  <2>2. \A b \in Actores : b # a => pc[b] \in {"libre", "tomar"}
    BY <2>1, <1>d
  <2>3. /\ (EsOriginal <=> doc.estado = "contingency" \/ EnCola(a))
        /\ (Cerrado <=> doc.estado \in {"draft", "signed", "rejected"} \/ Negado(a))
        /\ (EsOriginal' <=> doc'.estado = "contingency" \/ EnCola(a)')
        /\ (Cerrado' <=> doc'.estado \in {"draft", "signed", "rejected"} \/ Negado(a)')
    BY <1>13, <2>2, GuardarHace, SoloQuienTiene
  <2>4. pc[a] = "guardar" /\ doc.estado = "sent" /\ Tiene(a, "sent") /\ leido[a].r \in Respuestas
    BY <1>13 DEF Guardar, Bien, Cerrojo, Tiene, TypeOK, Lecturas, Respuestas
  <2>5. /\ Destino(a) \in {"contingency", "accepted", "rejected", "sent"}
        /\ Destino(a) = "contingency" => leido[a].cont /\ leido[a].r = "red"
        /\ Destino(a) = "accepted" => leido[a].r = "valida"
        /\ Destino(a) = "rejected" => leido[a].r = "invalida"
        /\ leido[a].cont /\ leido[a].r = "red" => Destino(a) = "contingency"
    BY DEF Destino
  <2>6. /\ doc'.estado = Destino(a) /\ pc'[a] \in {"entregar", "soltar"}
        /\ UNCHANGED <<bucket, transito, dian, entregado, leido>>
        /\ doc'.contingencia = doc.contingencia
    BY <1>13, <2>4, GuardarHace
  <2> HIDE DEF EsOriginal, Cerrado
  <2> QED
    BY <2>3, <2>4, <2>5, <2>6
<1>14. ASSUME NEW a \in Actores, Entregar(a) PROVE Validado'
  <2>1. pc[a] \notin {"libre", "tomar"}
    BY <1>14, EntregarHace
  <2>2. \A b \in Actores : b # a => pc[b] \in {"libre", "tomar"}
    BY <2>1, <1>d
  <2>3. /\ (EsOriginal <=> doc.estado = "contingency" \/ EnCola(a))
        /\ (Cerrado <=> doc.estado \in {"draft", "signed", "rejected"} \/ Negado(a))
        /\ (EsOriginal' <=> doc'.estado = "contingency" \/ EnCola(a)')
        /\ (Cerrado' <=> doc'.estado \in {"draft", "signed", "rejected"} \/ Negado(a)')
    BY <1>14, <2>2, EntregarHace, SoloQuienTiene
  <2>4. /\ pc[a] = "entregar" /\ doc.estado = "accepted" /\ dian.aceptado # 0
        /\ pc'[a] = "soltar" /\ entregado' = bucket.xml
        /\ UNCHANGED <<doc, bucket, transito, dian, leido>>
    BY <1>14, EntregarHace DEF VeredictoDeLaDian, Dicho
  <2> HIDE DEF EsOriginal, Cerrado
  <2> QED
    BY <2>3, <2>4
<1>15. ASSUME NEW a \in Actores, Soltar(a) PROVE Validado'
  <2>1. /\ Va(a, "libre") /\ leido' = [leido EXCEPT ![a] = SinLeer]
        /\ bloqueo' \in {bloqueo, Nadie} /\ cortes' \in 0..MaxCortes
        /\ UNCHANGED <<doc, bucket, firmas, transito, dian, entregado, perdidas>>
    BY ONLY <1>15, TypeOK, Supuestos DEF Soltar, TypeOK, Supuestos
  <2>2. Quietos(a) /\ pc'[a] = "libre" /\ ~leido'[a].cont
    BY <2>1, TerminarHace
  <2>3. ~EnCola(a)
    BY <1>15 DEF Soltar, EnContingencia
  <2>4. (EsOriginal' <=> EsOriginal) /\ (Cerrado' => Cerrado)
    BY <2>1, <2>2, <2>3
  <2> HIDE DEF EsOriginal, Cerrado
  <2> QED
    BY <2>1, <2>4
<1>16. ASSUME NEW a \in Actores, Corte(a) PROVE Validado'
  <2>1. /\ Va(a, "libre") /\ leido' = [leido EXCEPT ![a] = SinLeer]
        /\ bloqueo' \in {bloqueo, Nadie} /\ cortes' \in 0..MaxCortes
        /\ UNCHANGED <<doc, bucket, firmas, transito, dian, entregado, perdidas>>
    BY ONLY <1>16, TypeOK, Supuestos DEF Corte, TypeOK, Supuestos
  <2>2. Quietos(a) /\ pc'[a] = "libre" /\ ~leido'[a].cont
    BY <2>1, TerminarHace
  <2>3. ~EnCola(a)
    <3>1. EnCola(a) => EnContingencia(a)
      BY DEF EnContingencia
    <3>2. EnCola(a) => Produccion
      OBVIOUS
    <3>3. EnContingencia(a) => Fallas # {}
      BY ONLY <1>16 DEF Corte
    <3> QED
      BY <3>1, <3>2, <3>3
  <2>4. (EsOriginal' <=> EsOriginal) /\ (Cerrado' => Cerrado)
    BY <2>1, <2>2, <2>3
  <2> HIDE DEF EsOriginal, Cerrado
  <2> QED
    BY <2>1, <2>4
<1>17. ASSUME NEW x \in transito, Llega(x) PROVE Validado'
  BY <1>17, LlegaHace
<1>18. CASE UNCHANGED vars
  BY <1>18 DEF vars
<1> QED
  BY <1>1, <1>2, <1>3, <1>4, <1>5, <1>6, <1>7, <1>8, <1>9, <1>10, <1>11, <1>12, <1>13,
     <1>14, <1>15, <1>16, <1>17, <1>18
     DEF Next, Sigue

LEMMA TodoInicial ==
    ASSUME Supuestos, Init
    PROVE  Dicho /\ Contingente /\ Validado
<1>1. \A a \in Actores : pc[a] = "libre" /\ leido[a] = SinLeer
  BY DEF Init
<1>2. Dicho /\ Contingente
  BY <1>1
  DEF Init, SinLeer, Dicho, VeredictoDeLaDian, EnviadoQuedaRegistrado, Contingente, Llamada
<1>3. Validado
  BY DEF Init, Validado
<1> QED
  BY <1>2, <1>3

\* While nothing fails in a contingency already declared (and whatever is lost, late or
\* killed before it), the XML that is kept and delivered with an acceptance is the one
\* that the authority validated, also when it had the original and answers so to the
\* contingency's (restaurarOriginal, entregar).
THEOREM XmlSiempreElValidado ==
    ASSUME Supuestos, SinFallas
    PROVE  Spec => []XmlEsElValidado
<1> DEFINE IInv == Bien /\ Dicho /\ Contingente /\ Validado
<1>1. Init => IInv
  BY BienInicial, TodoInicial
<1>2. IInv /\ [Next]_vars => IInv'
  BY BienPaso, DichoPaso, ContingentePaso, ValidadoPaso
<1>3. IInv => XmlEsElValidado
  <2> SUFFICES ASSUME IInv, doc.estado = "accepted"
               PROVE  bucket.xml = dian.aceptado /\ entregado \in {0, dian.aceptado}
    BY DEF XmlEsElValidado
  <2>1. \A a \in Actores : pc[a] \notin Llamada /\ pc[a] # "marcar"
    BY DEF Bien, Estado
  <2>2. ~EsOriginal
    BY <2>1 DEF EsOriginal, EnCola, Llamada
  <2>3. dian.aceptado # 0
    BY DEF Dicho, VeredictoDeLaDian
  <2> QED
    BY <2>2, <2>3 DEF Validado, Vigente
<1> HIDE DEF IInv
<1> QED
  BY <1>1, <1>2, <1>3, PTL DEF Spec

-----------------------------------------------------------------------------
(* The issue of documents, Emision, is E! *)

CONSTANTS
    Peticiones, Tipo, VentaDe, Origen, Contingencia, Papel, SerieDe, Series, Prefijo,
    Rango, Renovaciones, RangoNuevo, Base, Creditos, Fallan, eCortan, MaxMes, MaxFallas,
    eMaxCortes

VARIABLES
    resol, seq, docs, cupo, mes, ePc, eLeido, fallas, eCortes

E == INSTANCE Emision WITH
    Cortan <- eCortan, MaxCortes <- eMaxCortes, pc <- ePc, leido <- eLeido,
    cortes <- eCortes

\* The instance's finite sets are the library's.
LEMMA MismasFinitas ==
    \A S : (E!IsFiniteSet(S) <=> IsFiniteSet(S)) /\ E!Cardinality(S) = Cardinality(S)
BY DEF E!IsFiniteSet, IsFiniteSet, E!Cardinality, Cardinality

Docs ==
    [tipo : {"no", "invoice", "pos", "nota"}, venta : {"no"} \cup {VentaDe[p] : p \in Peticiones},
     origen : {"no"} \cup {Origen[p] : p \in Peticiones},
     prefijo : {"no"} \cup {Prefijo[s] : s \in Series}, num : Nat, cont : BOOLEAN]
Cupos == [usados : Nat, creditos : Int, mes : Nat]
Choca == {"no", "agotada", "consecutivo", "venta", "exclusion", "otro"} \cup E!Finales
Leidos ==
    [desde : Nat, hasta : Nat, cobro : {"no", "monthly", "credit"}, num : Nat,
     choque : Choca,
     intento : 1..E!MAX_INTENTOS, mayor : Nat, doc : Docs]

TiposPc == ePc \in [E!Actores -> {"libre", "sede", "contador"} \cup E!Pasos \cup E!Finales]
TiposLeido == eLeido \in [E!Actores -> Leidos]
TiposDatos ==
    /\ seq \in [Series -> Nat] /\ resol \in [Series -> [desde : Nat \ {0}, hasta : Nat]]
    /\ IsFiniteSet(docs) /\ docs \subseteq Docs /\ \A d \in docs : d.tipo # "no"
    /\ cupo \in [usados : Nat, creditos : Int, mes : Nat] /\ cupo.mes \in 1..mes
    /\ mes \in 1..MaxMes
    /\ fallas \in 0..MaxFallas /\ eCortes \in 0..eMaxCortes
Tipos == TiposPc /\ TiposLeido /\ TiposDatos

\* Request p is at a step w of its own operation with what it may have read there, and
\* has charged the quota exactly while it is on its way to insert.
EnRuta(p, w, l) ==
    /\ w \notin {"sede", "contador"}
    /\ w = "revisar" => Tipo[p] = "nota" /\ l.choque \in E!Finales \ {"emitida", "cortada"}
    /\ w \in {"mayor", "subir"} => l.intento < E!MAX_INTENTOS
    /\ w = "reembolsar" => l.choque \in {"agotada", "consecutivo", "venta", "exclusion", "otro"}
    /\ w \in {"libre", "cupo", "credito", "folio", "guardar", "devolver"} => l.choque # "agotada"
    /\ w \in {"guardar", "reembolsar", "devolver"} /\ Papel[p] = 0 /\ l.choque # "agotada"
         => l.num >= l.desde
    /\ w = "devolver" => Papel[p] = 0
    /\ l.cobro # "no" => w \in {"folio", "guardar", "reembolsar", "cortada"}
    /\ w \in {"folio", "guardar", "reembolsar"} => l.cobro # "no"
EnSede(r, w, l) ==
    /\ w \in {"libre", "sede", "contador"} \cup E!Finales
    /\ w \in {"sede", "contador"} => l.num >= RangoNuevo[r].desde
Rutas ==
    /\ \A p \in Peticiones : EnRuta(p, ePc[p], eLeido[p])
    /\ \A r \in Renovaciones : EnSede(r, ePc[r], eLeido[r])

\* The unique indexes.
Unicos ==
    \A d, e \in docs :
        /\ d.tipo # "nota" /\ e.tipo # "nota" /\ d.venta = e.venta => d = e
        /\ d.tipo = "nota" /\ e.tipo = "nota" /\ d.origen = e.origen => d = e

\* Who has a document has one that exists, of its sale or of its operation.
EsSuyo(p, d) ==
    /\ d \in docs
    /\ IF Tipo[p] = "nota" THEN d.tipo = "nota" /\ d.origen = Origen[p]
       ELSE d.tipo # "nota" /\ d.venta = VentaDe[p]
Respondido ==
    \A p \in Peticiones : ePc[p] \in {"auditar", "emitida"} => EsSuyo(p, eLeido[p].doc)

ConCobro(k) == {p \in Peticiones : eLeido[p].cobro \in k}

\* What the quota adds up to: month m, used u, credits c, issued n, and of those on their
\* way charged to the month a and to the credits b.
CupoEn(m, u, c, n, a, b) ==
    /\ Creditos - c - b \in 0..n /\ c >= 0
    /\ m = 1 => u = n + a + b /\ n - (Creditos - c - b) + a <= Base
\* CupoCuadra, with what is being issued within the plan.
CupoVale ==
    CupoEn(mes, cupo.usados, cupo.creditos, Cardinality(docs),
           Cardinality(ConCobro({"monthly"})), Cardinality(ConCobro({"credit"})))

IInv == Tipos /\ Rutas /\ Unicos /\ Respondido /\ CupoVale

\* A step of a request touches its own step and record.
Otros(p) == \A q \in E!Actores : q # p => ePc'[q] = ePc[q] /\ eLeido'[q] = eLeido[q]

-----------------------------------------------------------------------------
(* The greatest number of a series *)

LEMMA MaximoEnConjunto ==
    ASSUME NEW S, IsFiniteSet(S), \A x \in S : x \in Int, S # {}
    PROVE  E!Max(S) \in S /\ \A y \in S : E!Max(S) >= y
<1>1. \E x \in S : \A y \in S : x >= y
  BY HayMaximo
<1> QED
  BY <1>1 DEF E!Max

LEMMA MaximoDeDos ==
    ASSUME NEW x \in Int, NEW y \in Int
    PROVE  E!Max({x, y}) \in {x, y} /\ E!Max({x, y}) >= x /\ E!Max({x, y}) >= y
<1>1. IsFiniteSet({x, y})
  <2>1. {x, y} = {x} \cup {y}
    OBVIOUS
  <2>2. IsFiniteSet({x})
    BY FS_Singleton
  <2>3. IsFiniteSet({x} \cup {y})
    BY <2>2, FS_AddElement
  <2> QED
    BY <2>1, <2>3
<1>2. {x, y} # {} /\ \A z \in {x, y} : z \in Int
  OBVIOUS
<1>3. E!Max({x, y}) \in {x, y} /\ \A z \in {x, y} : E!Max({x, y}) >= z
  BY <1>1, <1>2, MaximoEnConjunto
<1> QED
  BY <1>3

LEMMA MayorNatural ==
    ASSUME TiposDatos, NEW s \in Series
    PROVE  E!MayorEmitido(s) \in Nat
<1> DEFINE D == {e \in docs : e.prefijo = Prefijo[s]}
           N == {d.num : d \in D}
           f == [d \in D |-> d.num]
<1>1. IsFiniteSet(D) /\ \A d \in D : d.num \in Nat
  BY FS_Subset DEF TiposDatos, Docs
<1>2. IsFiniteSet(N)
  <2>1. f \in Surjection(D, N)
    BY DEF Surjection
  <2> QED
    BY <1>1, <2>1, FS_Surjection
<1>3. IsFiniteSet(N \cup {0}) /\ N \cup {0} # {} /\ \A x \in N \cup {0} : x \in Nat
  BY <1>1, <1>2, FS_AddElement
<1>4. E!Max(N \cup {0}) \in N \cup {0}
  <2> HIDE DEF N
  <2> QED
    BY <1>3, MaximoEnConjunto
<1> QED
  BY <1>3, <1>4 DEF E!MayorEmitido

-----------------------------------------------------------------------------
(* Types *)

LEMMA Escribe ==
    ASSUME E!Supuestos, NEW x \in Leidos
    PROVE  /\ E!SinDoc \in Docs /\ E!SinLeer \in Leidos
           /\ \A d \in Docs : [E!SinLeer EXCEPT !.doc = d] \in Leidos
           /\ \A m, n \in Nat : [[x EXCEPT !.desde = m] EXCEPT !.hasta = n] \in Leidos
           /\ \A c \in {"no", "monthly", "credit"} : [x EXCEPT !.cobro = c] \in Leidos
           /\ \A n \in Nat : [x EXCEPT !.num = n] \in Leidos
           /\ \A n \in Nat : [x EXCEPT !.mayor = n] \in Leidos
           /\ \A d \in Docs : [x EXCEPT !.doc = d] \in Leidos
           /\ \A c \in Choca : [x EXCEPT !.choque = c] \in Leidos
           /\ x.intento < E!MAX_INTENTOS => [x EXCEPT !.intento = @ + 1] \in Leidos
<1>1. E!SinDoc \in Docs
  BY DEF Docs, E!SinDoc
<1>2. E!SinLeer \in Leidos
  BY <1>1 DEF Leidos, E!SinLeer, Choca, E!MAX_INTENTOS
<1>3. \A d \in Docs : [E!SinLeer EXCEPT !.doc = d] \in Leidos
  BY <1>2 DEF Leidos
<1>4. \A n \in Nat : [x EXCEPT !.num = n] \in Leidos /\ [x EXCEPT !.mayor = n] \in Leidos
  BY DEF Leidos
<1>5. \A m, n \in Nat : [[x EXCEPT !.desde = m] EXCEPT !.hasta = n] \in Leidos
  BY DEF Leidos
<1>6. \A c \in {"no", "monthly", "credit"} : [x EXCEPT !.cobro = c] \in Leidos
  BY DEF Leidos
<1>7. \A d \in Docs : [x EXCEPT !.doc = d] \in Leidos
  BY DEF Leidos
<1>8. \A c \in Choca : [x EXCEPT !.choque = c] \in Leidos
  BY DEF Leidos
<1>9. x.intento < E!MAX_INTENTOS => [x EXCEPT !.intento = @ + 1] \in Leidos
  BY DEF Leidos, E!MAX_INTENTOS
<1> QED
  BY <1>1, <1>2, <1>3, <1>4, <1>5, <1>6, <1>7, <1>8, <1>9

LEMMA UnDocumento ==
    ASSUME E!Supuestos, TiposLeido, NEW p \in Peticiones
    PROVE  E!Documento(p) \in Docs /\ E!Documento(p).tipo # "no"
BY DEF E!Supuestos, TiposLeido, E!Actores, Leidos, Docs, E!Documento, E!Serie

LEMMA CupoEscribe ==
    ASSUME NEW c \in Cupos
    PROVE  \A m \in Nat : /\ [[c EXCEPT !.mes = m] EXCEPT !.usados = 0] \in Cupos
                          /\ [[c EXCEPT !.mes = m] EXCEPT !.usados = 0].mes = m
BY DEF Cupos

LEMMA LanzaVa ==
    ASSUME NEW p, NEW r, E!Lanza(p, r)
    PROVE  \E w \in {"revisar", r} : E!Va(p, w)
BY DEF E!Lanza, E!Niega

LEMMA PonePc ==
    ASSUME TiposPc, NEW p, NEW w \in E!Pasos \cup E!Finales, E!Va(p, w)
    PROVE  TiposPc'
BY DEF TiposPc, E!Va

LEMMA PoneLeido ==
    ASSUME TiposLeido, NEW p, NEW x \in Leidos, eLeido' = [eLeido EXCEPT ![p] = x]
    PROVE  TiposLeido'
BY DEF TiposLeido

LEMMA RespondeTipo ==
    ASSUME E!Supuestos, TiposLeido, NEW p \in E!Actores, NEW d \in Docs, E!Responde(p, d)
    PROVE  TiposLeido'
BY Escribe, PoneLeido DEF E!Responde, TiposLeido

LEMMA NiegaTipo ==
    ASSUME E!Supuestos, TiposLeido, NEW p \in E!Actores, NEW r, E!Niega(p, r)
    PROVE  TiposLeido'
BY Escribe, PoneLeido DEF E!Niega, TiposLeido

LEMMA LanzaTipo ==
    ASSUME E!Supuestos, TiposLeido, NEW p \in Peticiones, NEW r \in Choca, E!Lanza(p, r)
    PROVE  TiposLeido'
<1> DEFINE x == [[eLeido[p] EXCEPT !.choque = r] EXCEPT !.cobro = "no"]
<1>1. p \in E!Actores /\ eLeido[p] \in Leidos
  BY DEF E!Actores, TiposLeido
<1>2. [eLeido[p] EXCEPT !.choque = r] \in Leidos
  BY <1>1, Escribe
<1>3. x \in Leidos
  BY <1>2, Escribe
<1>4. CASE Tipo[p] = "nota"
  <2>1. eLeido' = [eLeido EXCEPT ![p] = x]
    BY <1>1, <1>4 DEF E!Lanza, TiposLeido
  <2> QED
    BY <1>3, <2>1, PoneLeido
<1>5. CASE Tipo[p] # "nota"
  BY <1>1, <1>5, NiegaTipo DEF E!Lanza
<1> QED
  BY <1>4, <1>5

LEMMA TiposPcPaso ==
    ASSUME E!Supuestos
    PROVE  Tipos /\ Rutas /\ [E!Next]_(E!vars) => TiposPc'
<1> SUFFICES ASSUME Tipos, Rutas, [E!Next]_(E!vars) PROVE TiposPc'
  OBVIOUS
<1> USE DEF E!Supuestos
<1>1. ASSUME NEW p \in Peticiones, E!Pedir(p) PROVE TiposPc'
  BY <1>1
  DEF Tipos, TiposPc, E!Va, E!Responde, E!Niega, E!Actores, E!Pasos, E!Finales, E!Pedir
<1>2. ASSUME NEW p \in Peticiones, E!Cobrar(p) PROVE TiposPc'
  BY <1>2
  DEF Tipos, TiposPc, E!Va, E!Responde, E!Niega, E!Actores, E!Pasos, E!Finales, E!Cobrar
<1>3. ASSUME NEW p \in Peticiones, E!CobrarCredito(p) PROVE TiposPc'
  <2>1. \E w \in {"folio", "revisar", "rechazada"} : E!Va(p, w)
    BY <1>3, LanzaVa DEF E!CobrarCredito, E!Responde, E!Niega
  <2> QED
    BY <2>1, PonePc DEF Tipos, E!Pasos, E!Finales
<1>4. ASSUME NEW p \in Peticiones, E!Folio(p) PROVE TiposPc'
  <2>1. \E w \in {"guardar", "reembolsar"} : E!Va(p, w)
    BY <1>4 DEF E!Folio, E!Responde, E!Niega
  <2> QED
    BY <2>1, PonePc DEF Tipos, E!Pasos, E!Finales
<1>5. ASSUME NEW p \in Peticiones, E!Guardar(p) PROVE TiposPc'
  <2>1. \E w \in {"auditar", "reembolsar"} : E!Va(p, w)
    BY <1>5 DEF E!Guardar, E!Responde, E!Niega
  <2> QED
    BY <2>1, PonePc DEF Tipos, E!Pasos, E!Finales
<1>6. ASSUME NEW p \in Peticiones, E!Auditar(p) PROVE TiposPc'
  <2>1. \E w \in {"emitida", "revisar", "error"} : E!Va(p, w)
    BY <1>6, LanzaVa DEF E!Auditar, E!Responde, E!Niega
  <2> QED
    BY <2>1, PonePc DEF Tipos, E!Pasos, E!Finales
<1>7. ASSUME NEW p \in Peticiones, E!Reembolsar(p) PROVE TiposPc'
  <2>1. E!TrasReembolso(p) \in {"mayor", "existente", "devolver"} \cup E!Finales
    BY DEF E!TrasReembolso, E!Finales
  <2>2. \E w \in {"revisar", E!TrasReembolso(p)} : E!Va(p, w)
    BY <1>7, LanzaVa DEF E!Reembolsar
  <2> QED
    BY <2>1, <2>2, PonePc DEF Tipos, E!Pasos
<1>8. ASSUME NEW p \in Peticiones, E!Devolver(p) PROVE TiposPc'
  <2>1. \E w \in {"revisar", "error", "existente"} : E!Va(p, w)
    BY <1>8, LanzaVa DEF E!Devolver, E!Responde, E!Niega
  <2> QED
    BY <2>1, PonePc DEF Tipos, E!Pasos, E!Finales
<1>9. ASSUME NEW p \in Peticiones, E!Existente(p) PROVE TiposPc'
  <2>1. \E w \in {"emitida", "rechazada", "revisar", "error"} : E!Va(p, w)
    BY <1>9, LanzaVa DEF E!Existente, E!Responde, E!Niega
  <2> QED
    BY <2>1, PonePc DEF Tipos, E!Pasos, E!Finales
<1>10. ASSUME NEW p \in Peticiones, E!LeerMayor(p) PROVE TiposPc'
  BY <1>10
  DEF Tipos, TiposPc, E!Va, E!Responde, E!Niega, E!Actores, E!Pasos, E!Finales, E!LeerMayor
<1>11. ASSUME NEW p \in Peticiones, E!Subir(p) PROVE TiposPc'
  BY <1>11
  DEF Tipos, TiposPc, E!Va, E!Responde, E!Niega, E!Actores, E!Pasos, E!Finales, E!Subir
<1>12. ASSUME NEW p \in Peticiones, E!Revisar(p) PROVE TiposPc'
  <2>1. eLeido[p].choque \in E!Finales
    BY <1>12 DEF Rutas, EnRuta, E!Revisar
  <2>2. \E w \in E!Finales : E!Va(p, w)
    BY <1>12, <2>1 DEF E!Revisar, E!Responde, E!Niega, E!Finales
  <2> QED
    BY <2>2, PonePc DEF Tipos
<1>13. ASSUME NEW r \in Renovaciones, E!Renovar(r) PROVE TiposPc'
  BY <1>13
  DEF Tipos, TiposPc, E!Va, E!Responde, E!Niega, E!Actores, E!Pasos, E!Finales, E!Renovar
<1>14. ASSUME NEW r \in Renovaciones, E!GuardarSede(r) PROVE TiposPc'
  BY <1>14
  DEF Tipos, TiposPc, E!Va, E!Responde, E!Niega, E!Actores, E!Pasos, E!Finales, E!GuardarSede
<1>15. ASSUME NEW r \in Renovaciones, E!FijarContador(r) PROVE TiposPc'
  BY <1>15
  DEF Tipos, TiposPc, E!Va, E!Responde, E!Niega, E!Actores, E!Pasos, E!Finales,
      E!FijarContador
<1>16. ASSUME NEW a \in E!Actores, E!Corte(a) PROVE TiposPc'
  BY <1>16
  DEF Tipos, TiposPc, E!Va, E!Responde, E!Niega, E!Actores, E!Pasos, E!Finales, E!Corte
<1>17. ASSUME E!NuevoMes PROVE TiposPc'
  BY <1>17
  DEF Tipos, TiposPc, E!Va, E!Responde, E!Niega, E!Actores, E!Pasos, E!Finales, E!NuevoMes
<1>18. CASE UNCHANGED E!vars
  BY <1>18
  DEF Tipos, TiposPc, E!Va, E!Responde, E!Niega, E!Actores, E!Pasos, E!Finales, E!vars
<1> QED
  BY <1>1, <1>2, <1>3, <1>4, <1>5, <1>6, <1>7, <1>8, <1>9, <1>10, <1>11, <1>12, <1>13, <1>14,
     <1>15, <1>16, <1>17, <1>18
  DEF E!Next, E!Emite

LEMMA TiposDatosPaso ==
    ASSUME E!Supuestos
    PROVE  Tipos /\ Rutas /\ [E!Next]_(E!vars) => TiposDatos'
<1> SUFFICES ASSUME Tipos, Rutas, [E!Next]_(E!vars) PROVE TiposDatos'
  OBVIOUS
<1> USE DEF E!Supuestos
<1>1. ASSUME NEW p \in Peticiones, E!Pedir(p) PROVE TiposDatos'
  BY <1>1 DEF Tipos, TiposDatos, E!Actores, E!Falla, E!Bien, E!Serie, E!Pedir
<1>2. ASSUME NEW p \in Peticiones, E!Cobrar(p) PROVE TiposDatos'
  <2>1. cupo' \in [usados : Nat, creditos : Int, mes : Nat] /\ cupo'.mes = mes
    <3>1. E!DelMes \in Cupos /\ E!DelMes.mes = mes
      <4>1. cupo \in Cupos /\ mes \in Nat
        BY DEF Tipos, TiposDatos, Cupos
      <4>2. E!DelMes = IF cupo.mes = mes THEN cupo
                     ELSE [[cupo EXCEPT !.mes = mes] EXCEPT !.usados = 0]
        BY DEF E!DelMes
      <4> QED
        BY <4>1, <4>2, CupoEscribe
    <3>2. [E!DelMes EXCEPT !.usados = E!DelMes.usados + 1] \in Cupos
      BY <3>1 DEF Cupos
    <3>3. cupo' = E!DelMes \/ cupo' = [E!DelMes EXCEPT !.usados = E!DelMes.usados + 1]
      BY <1>2 DEF E!Cobrar
    <3> QED
      BY <3>1, <3>2, <3>3 DEF Cupos
  <2> QED
    BY <1>2, <2>1 DEF E!Cobrar, Tipos, TiposDatos
<1>3. ASSUME NEW p \in Peticiones, E!CobrarCredito(p) PROVE TiposDatos'
  <2>1. cupo' \in [usados : Nat, creditos : Int, mes : Nat] /\ cupo'.mes = cupo.mes
    <3>1. cupo \in Cupos
      BY DEF Tipos, TiposDatos, Cupos
    <3>2. \/ cupo' = cupo
          \/ cupo' = [[cupo EXCEPT !.usados = cupo.usados + 1] EXCEPT !.creditos = cupo.creditos - 1]
      BY <1>3 DEF E!CobrarCredito
    <3>3. ASSUME NEW m \in Nat, NEW n \in Int
          PROVE  [[cupo EXCEPT !.usados = m] EXCEPT !.creditos = n] \in Cupos /\ [[cupo EXCEPT !.usados = m] EXCEPT !.creditos = n].mes = cupo.mes
      BY <3>1 DEF Cupos
    <3>4. cupo.usados + 1 \in Nat /\ cupo.creditos - 1 \in Int
      BY <3>1 DEF Cupos
    <3> QED
      BY <3>1, <3>2, <3>3, <3>4 DEF Cupos
  <2> QED
    BY <1>3, <2>1 DEF E!CobrarCredito, Tipos, TiposDatos
<1>4. ASSUME NEW p \in Peticiones, E!Folio(p) PROVE TiposDatos'
  BY <1>4 DEF Tipos, TiposDatos, E!Actores, E!Falla, E!Bien, E!Serie, E!Folio
<1>5. ASSUME NEW p \in Peticiones, E!Guardar(p) PROVE TiposDatos'
  <2>1. E!Documento(p) \in Docs /\ E!Documento(p).tipo # "no"
    BY UnDocumento DEF Tipos
  <2>2. IsFiniteSet(docs \cup {E!Documento(p)})
    BY FS_AddElement DEF Tipos, TiposDatos
  <2>3. docs' = docs \/ docs' = docs \cup {E!Documento(p)}
    BY <1>5 DEF E!Guardar
  <2>4. fallas' \in 0..MaxFallas
    BY <1>5 DEF E!Guardar, E!Falla, E!Bien, Tipos, TiposDatos
  <2>5. UNCHANGED <<resol, seq, cupo, mes, eCortes>>
    BY <1>5 DEF E!Guardar
  <2> HIDE DEF E!Supuestos
  <2> QED
    BY <2>1, <2>2, <2>3, <2>4, <2>5 DEF Tipos, TiposDatos
<1>6. ASSUME NEW p \in Peticiones, E!Auditar(p) PROVE TiposDatos'
  BY <1>6 DEF Tipos, TiposDatos, E!Actores, E!Falla, E!Bien, E!Serie, E!Auditar
<1>7. ASSUME NEW p \in Peticiones, E!Reembolsar(p) PROVE TiposDatos'
  <2>1. cupo' \in [usados : Nat, creditos : Int, mes : Nat] /\ cupo'.mes = cupo.mes
    <3> DEFINE menos == IF cupo.mes = mes /\ cupo.usados > 0
                        THEN [cupo EXCEPT !.usados = @ - 1] ELSE cupo
    <3>1. menos \in Cupos /\ menos.mes = cupo.mes
      BY DEF Tipos, TiposDatos, Cupos
    <3>2. cupo' = menos \/ cupo' = [menos EXCEPT !.creditos = @ + 1]
      BY <1>7 DEF E!Reembolsar, E!Devuelto
    <3> HIDE DEF menos
    <3> QED
      BY <3>1, <3>2 DEF Cupos
  <2> QED
    BY <1>7, <2>1 DEF E!Reembolsar, Tipos, TiposDatos
<1>8. ASSUME NEW p \in Peticiones, E!Devolver(p) PROVE TiposDatos'
  <2>1. seq' \in [Series -> Nat]
    <3> DEFINE k == eLeido[p].num - eLeido[p].desde + 1
    <3>1. SerieDe[p] \in Series /\ seq \in [Series -> Nat] /\ eLeido[p] \in Leidos
      BY DEF Tipos, TiposDatos, TiposLeido, E!Actores
    <3>2. k > 0
      <4>1. eLeido[p].num >= eLeido[p].desde
        BY <1>8 DEF E!Devolver, Rutas, EnRuta
      <4> QED
        BY <3>1, <4>1 DEF Leidos
    <3>3. seq' = [seq EXCEPT ![SerieDe[p]] = IF @ = k THEN @ - 1 ELSE @]
      BY <1>8 DEF E!Devolver, E!Serie
    <3> HIDE DEF k
    <3> QED
      BY <3>1, <3>2, <3>3
  <2> QED
    BY <1>8, <2>1 DEF E!Devolver, Tipos, TiposDatos
<1>9. ASSUME NEW p \in Peticiones, E!Existente(p) PROVE TiposDatos'
  BY <1>9 DEF Tipos, TiposDatos, E!Actores, E!Falla, E!Bien, E!Serie, E!Existente
<1>10. ASSUME NEW p \in Peticiones, E!LeerMayor(p) PROVE TiposDatos'
  BY <1>10 DEF Tipos, TiposDatos, E!Actores, E!Falla, E!Bien, E!Serie, E!LeerMayor
<1>11. ASSUME NEW p \in Peticiones, E!Subir(p) PROVE TiposDatos'
  <2>1. seq' \in [Series -> Nat]
    <3> DEFINE s == SerieDe[p]
               k == eLeido[p].mayor - eLeido[p].desde + 1
    <3>1. s \in Series /\ seq \in [Series -> Nat] /\ eLeido[p] \in Leidos
      BY DEF Tipos, TiposDatos, TiposLeido, E!Actores
    <3>2. k \in Int
      BY <3>1 DEF Leidos
    <3>3. E!Max({seq[s], k}) \in Nat
      <4>1. seq[s] \in Nat /\ seq[s] \in Int
        BY <3>1
      <4> HIDE DEF s, k
      <4>2. E!Max({seq[s], k}) \in {seq[s], k} /\ E!Max({seq[s], k}) >= seq[s]
        BY <3>2, <4>1, MaximoDeDos, Zenon
      <4> QED
        BY <3>2, <4>1, <4>2
    <3>4. seq' = seq \/ seq' = [seq EXCEPT ![s] = E!Max({@, k})]
      BY <1>11 DEF E!Subir, E!Serie
    <3> HIDE DEF s, k
    <3> QED
      BY <3>1, <3>3, <3>4
  <2> QED
    BY <1>11, <2>1 DEF E!Subir, Tipos, TiposDatos
<1>12. ASSUME NEW p \in Peticiones, E!Revisar(p) PROVE TiposDatos'
  BY <1>12 DEF Tipos, TiposDatos, E!Actores, E!Falla, E!Bien, E!Serie, E!Revisar
<1>13. ASSUME NEW r \in Renovaciones, E!Renovar(r) PROVE TiposDatos'
  BY <1>13 DEF Tipos, TiposDatos, E!Actores, E!Falla, E!Bien, E!Serie, E!Renovar
<1>14. ASSUME NEW r \in Renovaciones, E!GuardarSede(r) PROVE TiposDatos'
  BY <1>14 DEF Tipos, TiposDatos, E!Actores, E!Falla, E!Bien, E!Serie, E!GuardarSede
<1>15. ASSUME NEW r \in Renovaciones, E!FijarContador(r) PROVE TiposDatos'
  <2>1. eLeido[r].num >= RangoNuevo[r].desde /\ eLeido[r].num \in Nat
    BY <1>15 DEF E!FijarContador, Rutas, EnSede, Tipos, TiposLeido, Leidos, E!Actores
  <2>2. seq' \in [Series -> Nat]
    BY <1>15, <2>1 DEF E!FijarContador, Tipos, TiposDatos
  <2> QED
    BY <1>15, <2>2 DEF E!FijarContador, Tipos, TiposDatos
<1>16. ASSUME NEW a \in E!Actores, E!Corte(a) PROVE TiposDatos'
  BY <1>16 DEF Tipos, TiposDatos, E!Actores, E!Falla, E!Bien, E!Serie, E!Corte
<1>17. ASSUME E!NuevoMes PROVE TiposDatos'
  BY <1>17 DEF Tipos, TiposDatos, E!Actores, E!Falla, E!Bien, E!Serie, E!NuevoMes
<1>18. CASE UNCHANGED E!vars
  BY <1>18 DEF Tipos, TiposDatos, E!Actores, E!Falla, E!Bien, E!Serie, E!vars
<1> QED
  BY <1>1, <1>2, <1>3, <1>4, <1>5, <1>6, <1>7, <1>8, <1>9, <1>10, <1>11, <1>12, <1>13, <1>14,
     <1>15, <1>16, <1>17, <1>18
  DEF E!Next, E!Emite

LEMMA TiposLeidoPaso ==
    ASSUME E!Supuestos
    PROVE  Tipos /\ Rutas /\ [E!Next]_(E!vars) => TiposLeido'
<1> SUFFICES ASSUME Tipos, Rutas, [E!Next]_(E!vars) PROVE TiposLeido'
  OBVIOUS
<1> USE DEF E!Supuestos
<1>1. ASSUME NEW p \in Peticiones, E!Pedir(p) PROVE TiposLeido'
  <2>1. p \in E!Actores /\ eLeido[p] \in Leidos
    BY DEF E!Actores, Tipos, TiposLeido
  <2>2. CASE \E d \in E!Previo(p) : E!Responde(p, d)
    BY <2>1, <2>2, RespondeTipo
    DEF E!Previo, E!Existentes, E!NotasDe, E!FiscalesDe, Tipos, TiposDatos
  <2>3. CASE E!Niega(p, "rechazada")
    BY <2>1, <2>3, NiegaTipo DEF Tipos
  <2>4. CASE eLeido' = [eLeido EXCEPT ![p].desde = resol[E!Serie(p)].desde,
                                    ![p].hasta = resol[E!Serie(p)].hasta]
    <3>1. resol[E!Serie(p)].desde \in Nat /\ resol[E!Serie(p)].hasta \in Nat
      BY DEF E!Serie, Tipos, TiposDatos
    <3>2. [[eLeido[p] EXCEPT !.desde = resol[E!Serie(p)].desde]
             EXCEPT !.hasta = resol[E!Serie(p)].hasta] \in Leidos
      BY <2>1, <3>1, Escribe
    <3>3. eLeido' = [eLeido EXCEPT ![p] = [[eLeido[p] EXCEPT !.desde = resol[E!Serie(p)].desde]
                                           EXCEPT !.hasta = resol[E!Serie(p)].hasta]]
      BY <2>1, <2>4 DEF Tipos, TiposLeido
    <3> QED
      BY <3>2, <3>3, PoneLeido DEF Tipos
  <2> QED
    BY <1>1, <2>2, <2>3, <2>4 DEF E!Pedir
<1>2. ASSUME NEW p \in Peticiones, E!Cobrar(p) PROVE TiposLeido'
  <2>1. p \in E!Actores /\ eLeido[p] \in Leidos
    BY DEF E!Actores, Tipos, TiposLeido
  <2>2. CASE eLeido' = [eLeido EXCEPT ![p].cobro = "monthly"]
    <3>1. [eLeido[p] EXCEPT !.cobro = "monthly"] \in Leidos
      BY <2>1, Escribe
    <3> QED
      BY <2>2, <3>1, PoneLeido DEF Tipos
  <2> QED
    BY <1>2, <2>2 DEF E!Cobrar, Tipos, TiposLeido
<1>3. ASSUME NEW p \in Peticiones, E!CobrarCredito(p) PROVE TiposLeido'
  <2>1. p \in E!Actores /\ eLeido[p] \in Leidos
    BY DEF E!Actores, Tipos, TiposLeido
  <2>2. CASE eLeido' = [eLeido EXCEPT ![p].cobro = "credit"]
    <3>1. [eLeido[p] EXCEPT !.cobro = "credit"] \in Leidos
      BY <2>1, Escribe
    <3> QED
      BY <2>2, <3>1, PoneLeido DEF Tipos
  <2>3. CASE E!Lanza(p, "rechazada")
    BY <2>3, LanzaTipo DEF Tipos, Choca, E!Finales
  <2> QED
    BY <1>3, <2>2, <2>3 DEF E!CobrarCredito
<1>4. ASSUME NEW p \in Peticiones, E!Folio(p) PROVE TiposLeido'
  <2>1. p \in E!Actores /\ eLeido[p] \in Leidos
    BY DEF E!Actores, Tipos, TiposLeido
  <2>2. CASE Papel[p] # 0
    <3>1. [eLeido[p] EXCEPT !.num = Papel[p]] \in Leidos
      BY <2>1, Escribe
    <3>2. eLeido' = [eLeido EXCEPT ![p] = [eLeido[p] EXCEPT !.num = Papel[p]]]
      BY <1>4, <2>2 DEF E!Folio
    <3> QED
      BY <3>1, <3>2, PoneLeido DEF Tipos
  <2>3. CASE Papel[p] = 0
    <3>1. PICK n \in Nat, c \in {"agotada", "no"} :
             eLeido' = [eLeido EXCEPT ![p].num = n, ![p].choque = c]
      <4>1. eLeido[p].desde + seq[E!Serie(p)] \in Nat
        BY <2>1 DEF E!Serie, Tipos, TiposDatos, Leidos
      <4> QED
        BY <1>4, <2>3, <4>1 DEF E!Folio
    <3>2. [eLeido[p] EXCEPT !.num = n] \in Leidos
      BY <2>1, Escribe
    <3>3. [[eLeido[p] EXCEPT !.num = n] EXCEPT !.choque = c] \in Leidos
      BY <3>2, Escribe DEF Choca
    <3>4. eLeido' = [eLeido EXCEPT ![p] = [[eLeido[p] EXCEPT !.num = n] EXCEPT !.choque = c]]
      BY <2>1, <3>1 DEF Tipos, TiposLeido
    <3> QED
      BY <3>3, <3>4, PoneLeido DEF Tipos
  <2> QED
    BY <2>2, <2>3
<1>5. ASSUME NEW p \in Peticiones, E!Guardar(p) PROVE TiposLeido'
  <2>1. p \in E!Actores /\ eLeido[p] \in Leidos
    BY DEF E!Actores, Tipos, TiposLeido
  <2>2. CASE eLeido' = [eLeido EXCEPT ![p].doc = E!Documento(p), ![p].cobro = "no"]
    <3>1. [eLeido[p] EXCEPT !.doc = E!Documento(p)] \in Leidos
      BY <2>1, Escribe, UnDocumento DEF Tipos
    <3>2. [[eLeido[p] EXCEPT !.doc = E!Documento(p)] EXCEPT !.cobro = "no"] \in Leidos
      BY <3>1, Escribe
    <3>3. eLeido' = [eLeido EXCEPT ![p] = [[eLeido[p] EXCEPT !.doc = E!Documento(p)] EXCEPT !.cobro = "no"]]
      BY <2>1, <2>2 DEF Tipos, TiposLeido
    <3> QED
      BY <3>2, <3>3, PoneLeido DEF Tipos
  <2>3. ASSUME NEW c \in Choca, eLeido' = [eLeido EXCEPT ![p].choque = c] PROVE TiposLeido'
    <3>1. [eLeido[p] EXCEPT !.choque = c] \in Leidos
      BY <2>1, Escribe
    <3> QED
      BY <2>3, <3>1, PoneLeido DEF Tipos
  <2>4. E!Choques(p) \subseteq Choca /\ "otro" \in Choca
    BY DEF E!Choques, Choca
  <2> QED
    BY <1>5, <2>2, <2>3, <2>4 DEF E!Guardar
<1>6. ASSUME NEW p \in Peticiones, E!Auditar(p) PROVE TiposLeido'
  <2>1. p \in E!Actores /\ eLeido[p] \in Leidos
    BY DEF E!Actores, Tipos, TiposLeido
  <2>2. CASE E!Responde(p, eLeido[p].doc)
    BY <2>1, <2>2, RespondeTipo DEF Tipos, Leidos
  <2>3. CASE E!Lanza(p, "error")
    BY <2>3, LanzaTipo DEF Tipos, Choca, E!Finales
  <2> QED
    BY <1>6, <2>2, <2>3 DEF E!Auditar
<1>7. ASSUME NEW p \in Peticiones, E!Reembolsar(p) PROVE TiposLeido'
  <2>1. p \in E!Actores /\ eLeido[p] \in Leidos
    BY DEF E!Actores, Tipos, TiposLeido
  <2>1a. E!TrasReembolso(p) \in E!Finales => E!TrasReembolso(p) \in Choca
    BY DEF Choca
  <2>2. CASE eLeido' = [eLeido EXCEPT ![p].cobro = "no"]
    <3>1. [eLeido[p] EXCEPT !.cobro = "no"] \in Leidos
      BY <2>1, Escribe
    <3> QED
      BY <2>2, <3>1, PoneLeido DEF Tipos
  <2>3. CASE E!TrasReembolso(p) \in E!Finales /\ E!Lanza(p, E!TrasReembolso(p))
    BY <2>1a, <2>3, LanzaTipo DEF Tipos
  <2> QED
    BY <1>7, <2>2, <2>3 DEF E!Reembolsar
<1>8. ASSUME NEW p \in Peticiones, E!Devolver(p) PROVE TiposLeido'
  <2>1. p \in E!Actores /\ eLeido[p] \in Leidos
    BY DEF E!Actores, Tipos, TiposLeido
  <2>2. CASE E!Lanza(p, "error")
    BY <2>2, LanzaTipo DEF Tipos, Choca, E!Finales
  <2> QED
    BY <1>8, <2>2 DEF E!Devolver, Tipos, TiposLeido
<1>9. ASSUME NEW p \in Peticiones, E!Existente(p) PROVE TiposLeido'
  <2>1. p \in E!Actores /\ eLeido[p] \in Leidos
    BY DEF E!Actores, Tipos, TiposLeido
  <2>2. CASE \E d \in E!Existentes(p) : E!Responde(p, d)
    BY <2>1, <2>2, RespondeTipo DEF E!Existentes, E!NotasDe, E!FiscalesDe, Tipos, TiposDatos
  <2>3. CASE E!Niega(p, "rechazada")
    BY <2>1, <2>3, NiegaTipo DEF Tipos
  <2>4. CASE E!Lanza(p, "error")
    BY <2>4, LanzaTipo DEF Tipos, Choca, E!Finales
  <2> QED
    BY <1>9, <2>2, <2>3, <2>4 DEF E!Existente
<1>10. ASSUME NEW p \in Peticiones, E!LeerMayor(p) PROVE TiposLeido'
  <2>1. p \in E!Actores /\ eLeido[p] \in Leidos
    BY DEF E!Actores, Tipos, TiposLeido
  <2>2. E!MayorEmitido(E!Serie(p)) \in Nat
    BY MayorNatural DEF Tipos, E!Serie
  <2>3. [eLeido[p] EXCEPT !.mayor = E!MayorEmitido(E!Serie(p))] \in Leidos
    BY <2>1, <2>2, Escribe
  <2> QED
    BY <1>10, <2>3, PoneLeido DEF Tipos, E!LeerMayor
<1>11. ASSUME NEW p \in Peticiones, E!Subir(p) PROVE TiposLeido'
  <2>1. p \in E!Actores /\ eLeido[p] \in Leidos
    BY DEF E!Actores, Tipos, TiposLeido
  <2>2. eLeido[p].intento < E!MAX_INTENTOS
    BY <1>11 DEF E!Subir, Rutas, EnRuta
  <2>3. [eLeido[p] EXCEPT !.intento = @ + 1] \in Leidos
    BY <2>1, <2>2, Escribe
  <2>4. [[eLeido[p] EXCEPT !.intento = @ + 1] EXCEPT !.num = 0] \in Leidos
    BY <2>3, Escribe
  <2>5. [[[eLeido[p] EXCEPT !.intento = @ + 1] EXCEPT !.num = 0] EXCEPT !.mayor = 0] \in Leidos
    BY <2>4, Escribe
  <2>6. [[[[eLeido[p] EXCEPT !.intento = @ + 1] EXCEPT !.num = 0] EXCEPT !.mayor = 0] EXCEPT !.choque = "no"] \in Leidos
    BY <2>5, Escribe DEF Choca
  <2>7. eLeido' = [eLeido EXCEPT ![p] = [[[[eLeido[p] EXCEPT !.intento = @ + 1] EXCEPT !.num = 0] EXCEPT !.mayor = 0] EXCEPT !.choque = "no"]]
    BY <1>11, <2>1 DEF E!Subir, Tipos, TiposLeido
  <2> QED
    BY <2>6, <2>7, PoneLeido DEF Tipos
<1>12. ASSUME NEW p \in Peticiones, E!Revisar(p) PROVE TiposLeido'
  <2>1. p \in E!Actores /\ eLeido[p] \in Leidos
    BY DEF E!Actores, Tipos, TiposLeido
  <2>2. CASE \E d \in E!NotasDe(Origen[p]) : E!Responde(p, d)
    BY <2>1, <2>2, RespondeTipo DEF E!NotasDe, Tipos, TiposDatos
  <2>3. CASE E!Niega(p, eLeido[p].choque)
    BY <2>1, <2>3, NiegaTipo DEF Tipos
  <2> QED
    BY <1>12, <2>2, <2>3 DEF E!Revisar
<1>13. ASSUME NEW r \in Renovaciones, E!Renovar(r) PROVE TiposLeido'
  <2>1. r \in E!Actores /\ eLeido[r] \in Leidos
    BY DEF E!Actores, Tipos, TiposLeido
  <2>2. CASE E!Niega(r, "rechazada")
    BY <2>1, <2>2, NiegaTipo DEF Tipos
  <2>3. ASSUME NEW n \in Nat, eLeido' = [eLeido EXCEPT ![r].num = n] PROVE TiposLeido'
    <3>1. [eLeido[r] EXCEPT !.num = n] \in Leidos
      BY <2>1, Escribe
    <3> QED
      BY <2>3, <3>1, PoneLeido DEF Tipos
  <2>4. E!Max({RangoNuevo[r].desde, E!MayorEmitido(RangoNuevo[r].serie) + 1}) \in Nat
    <3>1. E!MayorEmitido(RangoNuevo[r].serie) + 1 \in Nat /\ RangoNuevo[r].desde \in Nat
      BY MayorNatural DEF Tipos
    <3> DEFINE m == E!MayorEmitido(RangoNuevo[r].serie) + 1
               d == RangoNuevo[r].desde
    <3>1a. m \in Int /\ d \in Int
      BY <3>1
    <3> HIDE DEF m, d
    <3>2. E!Max({d, m}) \in {d, m}
      BY <3>1a, MaximoDeDos, Zenon
    <3> QED
      BY <3>1, <3>2 DEF m, d
  <2> QED
    BY <1>13, <2>2, <2>3, <2>4 DEF E!Renovar
<1>14. ASSUME NEW r \in Renovaciones, E!GuardarSede(r) PROVE TiposLeido'
  BY <1>14 DEF Tipos, TiposLeido, E!Actores, E!Va, E!GuardarSede
<1>15. ASSUME NEW r \in Renovaciones, E!FijarContador(r) PROVE TiposLeido'
  <2>1. r \in E!Actores /\ E!Niega(r, "emitida")
    BY <1>15 DEF E!Actores, E!FijarContador
  <2> QED
    BY <2>1, NiegaTipo DEF Tipos
<1>16. ASSUME NEW a \in E!Actores, E!Corte(a) PROVE TiposLeido'
  BY <1>16 DEF Tipos, TiposLeido, E!Actores, E!Va, E!Corte
<1>17. ASSUME E!NuevoMes PROVE TiposLeido'
  BY <1>17 DEF Tipos, TiposLeido, E!Actores, E!Va, E!NuevoMes
<1>18. CASE UNCHANGED E!vars
  BY <1>18 DEF Tipos, TiposLeido, E!Actores, E!Va, E!vars
<1> QED
  BY <1>1, <1>2, <1>3, <1>4, <1>5, <1>6, <1>7, <1>8, <1>9, <1>10, <1>11, <1>12, <1>13, <1>14,
     <1>15, <1>16, <1>17, <1>18
  DEF E!Next, E!Emite

-----------------------------------------------------------------------------
(* One request moves *)

LEMMA SoloUno ==
    ASSUME E!Supuestos, Rutas, NEW p \in Peticiones, Otros(p), EnRuta(p, ePc'[p], eLeido'[p])
    PROVE  Rutas'
<1>1. \A q \in Peticiones : EnRuta(q, ePc'[q], eLeido'[q])
  <2> SUFFICES ASSUME NEW q \in Peticiones PROVE EnRuta(q, ePc'[q], eLeido'[q])
    OBVIOUS
  <2>1. CASE q = p
    BY <2>1
  <2>2. CASE q # p
    <3>1. ePc'[q] = ePc[q] /\ eLeido'[q] = eLeido[q]
      BY <2>2 DEF Otros, E!Actores
    <3> QED
      BY <3>1 DEF Rutas
  <2> QED
    BY <2>1, <2>2
<1>2. \A r \in Renovaciones : EnSede(r, ePc'[r], eLeido'[r])
  <2> SUFFICES ASSUME NEW r \in Renovaciones PROVE EnSede(r, ePc'[r], eLeido'[r])
    OBVIOUS
  <2>1. ePc'[r] = ePc[r] /\ eLeido'[r] = eLeido[r]
    BY DEF Otros, E!Actores, E!Supuestos
  <2> QED
    BY <2>1 DEF Rutas
<1> QED
  BY <1>1, <1>2 DEF Rutas, EnRuta, EnSede

LEMMA SoloUna ==
    ASSUME E!Supuestos, Rutas, NEW r \in Renovaciones, Otros(r), EnSede(r, ePc'[r], eLeido'[r])
    PROVE  Rutas'
<1>1. \A s \in Renovaciones : EnSede(s, ePc'[s], eLeido'[s])
  <2> SUFFICES ASSUME NEW s \in Renovaciones PROVE EnSede(s, ePc'[s], eLeido'[s])
    OBVIOUS
  <2>1. CASE s = r
    BY <2>1
  <2>2. CASE s # r
    <3>1. ePc'[s] = ePc[s] /\ eLeido'[s] = eLeido[s]
      BY <2>2 DEF Otros, E!Actores
    <3> QED
      BY <3>1 DEF Rutas
  <2> QED
    BY <2>1, <2>2
<1>2. \A p \in Peticiones : EnRuta(p, ePc'[p], eLeido'[p])
  <2> SUFFICES ASSUME NEW p \in Peticiones PROVE EnRuta(p, ePc'[p], eLeido'[p])
    OBVIOUS
  <2>1. ePc'[p] = ePc[p] /\ eLeido'[p] = eLeido[p]
    BY DEF Otros, E!Actores, E!Supuestos
  <2> QED
    BY <2>1 DEF Rutas
<1> QED
  BY <1>1, <1>2 DEF Rutas, EnRuta, EnSede

LEMMA RespondeHace ==
    ASSUME Tipos, NEW p \in E!Actores, NEW d, E!Responde(p, d)
    PROVE  /\ ePc'[p] = "emitida" /\ eLeido'[p].doc = d /\ eLeido'[p].cobro = "no" /\ Otros(p)
           /\ EnRuta(p, ePc'[p], eLeido'[p])
<1>1. ePc'[p] = "emitida" /\ eLeido'[p].doc = d /\ eLeido'[p].cobro = "no" /\ Otros(p)
  BY DEF Tipos, TiposPc, TiposLeido, E!Responde, E!Va, E!SinLeer, Otros
<1> QED
  BY <1>1 DEF EnRuta

LEMMA NiegaHace ==
    ASSUME Tipos, NEW p \in E!Actores, NEW r \in E!Finales, E!Niega(p, r)
    PROVE  /\ ePc'[p] = r /\ eLeido'[p].cobro = "no" /\ Otros(p)
           /\ EnRuta(p, ePc'[p], eLeido'[p])
<1>1. ePc'[p] = r /\ eLeido'[p].cobro = "no" /\ Otros(p)
  BY DEF Tipos, TiposPc, TiposLeido, E!Niega, E!Va, E!SinLeer, Otros
<1> QED
  BY <1>1 DEF EnRuta, E!Finales

LEMMA LanzaHace ==
    ASSUME Tipos, NEW p \in E!Actores, NEW r \in E!Finales \ {"emitida", "cortada"}, E!Lanza(p, r)
    PROVE  /\ ePc'[p] \notin {"auditar", "emitida"} /\ eLeido'[p].cobro = "no" /\ Otros(p)
           /\ EnRuta(p, ePc'[p], eLeido'[p])
<1>1. CASE Tipo[p] = "nota"
  <2>1. eLeido[p] \in Leidos
    BY DEF Tipos, TiposLeido
  <2>2. ePc'[p] = "revisar" /\ eLeido'[p].cobro = "no" /\ eLeido'[p].choque = r /\ Otros(p)
    BY <1>1, <2>1 DEF Tipos, TiposPc, TiposLeido, E!Lanza, E!Va, Leidos, Otros
  <2> QED
    BY <1>1, <2>2 DEF EnRuta
<1>2. CASE Tipo[p] # "nota"
  BY <1>2, NiegaHace DEF E!Lanza, E!Finales
<1> QED
  BY <1>1, <1>2

LEMMA DeUno ==
    ASSUME E!Supuestos, Tipos, Rutas, NEW p \in Peticiones
    PROVE  p \in E!Actores /\ eLeido[p] \in Leidos /\ EnRuta(p, ePc[p], eLeido[p])
BY DEF E!Actores, Tipos, TiposLeido, Rutas

LEMMA UnPaso ==
    ASSUME E!Supuestos, Tipos, Rutas, NEW p \in Peticiones, E!Pedir(p) \/ E!Emite(p)
    PROVE  Otros(p) /\ EnRuta(p, ePc'[p], eLeido'[p])
<1>1. p \in E!Actores /\ eLeido[p] \in Leidos /\ EnRuta(p, ePc[p], eLeido[p])
  BY DeUno
<1>2. CASE E!Pedir(p)
  <2>1. CASE \E d \in E!Previo(p) : E!Responde(p, d)
    BY <1>1, <2>1, RespondeHace
  <2>2. CASE E!Niega(p, "rechazada")
    BY <1>1, <2>2, NiegaHace DEF E!Finales
  <2>3. CASE E!Va(p, "cupo") /\ eLeido' = [eLeido EXCEPT ![p].desde = resol[E!Serie(p)].desde,
                                  ![p].hasta = resol[E!Serie(p)].hasta]
    <3>1. Otros(p)
      BY <1>1, <2>3 DEF Otros, Tipos, TiposPc, TiposLeido, E!Va
    <3>2. EnRuta(p, ePc'[p], eLeido'[p])
      BY <1>2, <1>1, <2>3 DEF EnRuta, Tipos, TiposPc, TiposLeido, Leidos, E!Va, E!Pedir
    <3> QED
      BY <3>1, <3>2
  <2> QED
    BY <1>2, <2>1, <2>2, <2>3 DEF E!Pedir
<1>3. CASE E!Cobrar(p)
  <2>1. Otros(p)
    BY <1>3, <1>1 DEF Otros, Tipos, TiposPc, TiposLeido, E!Va, E!Cobrar
  <2>2. EnRuta(p, ePc'[p], eLeido'[p])
    BY <1>3, <1>1 DEF EnRuta, Tipos, TiposPc, TiposLeido, Leidos, E!Va, E!Cobrar
  <2> QED
    BY <2>1, <2>2
<1>4. CASE E!CobrarCredito(p)
  <2>1. CASE eLeido' = [eLeido EXCEPT ![p].cobro = "credit"] /\ E!Va(p, "folio")
    <3>1. Otros(p)
      BY <1>1, <2>1 DEF Otros, Tipos, TiposPc, TiposLeido, E!Va
    <3>2. EnRuta(p, ePc'[p], eLeido'[p])
      BY <1>4, <1>1, <2>1
      DEF EnRuta, Tipos, TiposPc, TiposLeido, Leidos, E!Va, E!CobrarCredito
    <3> QED
      BY <3>1, <3>2
  <2>2. CASE E!Lanza(p, "rechazada")
    BY <1>1, <2>2, LanzaHace DEF E!Finales
  <2> QED
    BY <1>4, <2>1, <2>2 DEF E!CobrarCredito
<1>5. CASE E!Folio(p)
  <2>1. CASE Papel[p] # 0 /\ eLeido' = [eLeido EXCEPT ![p].num = Papel[p]] /\ E!Va(p, "guardar")
    <3>1. Otros(p)
      BY <1>1, <2>1 DEF Otros, Tipos, TiposPc, TiposLeido, E!Va
    <3>2. EnRuta(p, ePc'[p], eLeido'[p])
      BY <1>5, <1>1, <2>1 DEF EnRuta, Tipos, TiposPc, TiposLeido, Leidos, E!Va, E!Folio
    <3> QED
      BY <3>1, <3>2
  <2>2. CASE Papel[p] = 0
    <3>1. eLeido[p].desde + seq[E!Serie(p)] \in Nat /\ eLeido[p].desde + seq[E!Serie(p)] >= eLeido[p].desde
      BY <1>1 DEF E!Serie, Tipos, TiposDatos, Leidos, E!Supuestos
    <3>2. PICK n \in Nat, c \in {"agotada", "no"} :
             /\ c = "no" => n >= eLeido[p].desde
             /\ eLeido' = [eLeido EXCEPT ![p].num = n, ![p].choque = c]
             /\ E!Va(p, IF c = "agotada" THEN "reembolsar" ELSE "guardar")
      BY <1>5, <2>2, <3>1 DEF E!Folio
    <3>3. Otros(p)
      BY <1>1, <3>2 DEF Otros, Tipos, TiposPc, TiposLeido, E!Va
    <3>4. /\ eLeido'[p].num = n /\ eLeido'[p].choque = c
          /\ eLeido'[p].cobro = eLeido[p].cobro /\ eLeido'[p].desde = eLeido[p].desde
          /\ ePc'[p] = IF c = "agotada" THEN "reembolsar" ELSE "guardar"
      BY <1>1, <3>2 DEF Tipos, TiposPc, TiposLeido, Leidos, E!Va
    <3>5. eLeido[p].cobro # "no"
      BY <1>5, <1>1 DEF EnRuta, E!Folio
    <3> QED
      BY <3>2, <3>3, <3>4, <3>5 DEF EnRuta
  <2> QED
    BY <1>5, <2>1, <2>2 DEF E!Folio
<1>6. CASE E!Guardar(p)
  <2>1. CASE eLeido' = [eLeido EXCEPT ![p].doc = E!Documento(p), ![p].cobro = "no"] /\ E!Va(p, "auditar")
    <3>1. Otros(p)
      BY <1>1, <2>1 DEF Otros, Tipos, TiposPc, TiposLeido, E!Va
    <3>2. EnRuta(p, ePc'[p], eLeido'[p])
      BY <1>6, <1>1, <2>1 DEF EnRuta, Tipos, TiposPc, TiposLeido, Leidos, E!Va, E!Guardar
    <3> QED
      BY <3>1, <3>2
  <2>2. CASE \E c \in {"consecutivo", "venta", "exclusion", "otro"} : eLeido' = [eLeido EXCEPT ![p].choque = c] /\ E!Va(p, "reembolsar")
    <3>1. PICK c \in {"consecutivo", "venta", "exclusion", "otro"} :
             eLeido' = [eLeido EXCEPT ![p].choque = c] /\ E!Va(p, "reembolsar")
      BY <2>2
    <3>2. Otros(p)
      BY <1>1, <3>1 DEF Otros, Tipos, TiposPc, TiposLeido, E!Va
    <3>3. /\ eLeido'[p].num = eLeido[p].num /\ eLeido'[p].choque = c
          /\ eLeido'[p].cobro = eLeido[p].cobro /\ eLeido'[p].desde = eLeido[p].desde
          /\ ePc'[p] = "reembolsar"
      BY <1>1, <3>1 DEF Tipos, TiposPc, TiposLeido, Leidos, E!Va
    <3>4. ePc[p] = "guardar"
      BY <1>6 DEF E!Guardar
    <3> QED
      BY <1>1, <3>1, <3>2, <3>3, <3>4 DEF EnRuta
  <2> QED
    BY <1>6, <2>1, <2>2 DEF E!Guardar, E!Choques
<1>7. CASE E!Auditar(p)
  <2>1. CASE E!Responde(p, eLeido[p].doc)
    BY <1>1, <2>1, RespondeHace
  <2>2. CASE E!Lanza(p, "error")
    BY <1>1, <2>2, LanzaHace DEF E!Finales
  <2> QED
    BY <1>7, <2>1, <2>2 DEF E!Auditar
<1>8. CASE E!Reembolsar(p)
  <2> DEFINE w == E!TrasReembolso(p)
  <2>1. CASE w \in E!Finales /\ E!Lanza(p, w)
    <3>1. w \in E!Finales \ {"emitida", "cortada"}
      BY <2>1 DEF E!TrasReembolso
    <3> HIDE DEF w
    <3> QED
      BY <1>1, <2>1, <3>1, LanzaHace
  <2>2. CASE w \notin E!Finales /\ E!Va(p, w) /\ eLeido' = [eLeido EXCEPT ![p].cobro = "no"]
    <3>1. w \in {"mayor", "existente", "devolver"}
      BY <2>2 DEF E!TrasReembolso, E!Finales
    <3>2. ePc[p] = "reembolsar"
      BY <1>8 DEF E!Reembolsar
    <3>3. w = "mayor" => eLeido[p].intento < E!MAX_INTENTOS
      BY DEF E!TrasReembolso
    <3>4. w = "devolver" => Papel[p] = 0 /\ eLeido[p].choque # "agotada"
      BY <1>1, <3>2 DEF E!TrasReembolso, EnRuta
    <3> HIDE DEF w
    <3>5. Otros(p)
      BY <1>1, <2>2 DEF Otros, Tipos, TiposPc, TiposLeido, E!Va
    <3>6. /\ eLeido'[p].num = eLeido[p].num /\ eLeido'[p].choque = eLeido[p].choque
          /\ eLeido'[p].cobro = "no" /\ eLeido'[p].desde = eLeido[p].desde
          /\ eLeido'[p].intento = eLeido[p].intento /\ ePc'[p] = w
      BY <1>1, <2>2 DEF Tipos, TiposPc, TiposLeido, Leidos, E!Va
    <3> QED
      BY <1>1, <3>1, <3>2, <3>3, <3>4, <3>5, <3>6 DEF EnRuta
  <2> QED
    BY <1>8, <2>1, <2>2 DEF E!Reembolsar
<1>9. CASE E!Devolver(p)
  <2>1. CASE E!Lanza(p, "error")
    BY <1>1, <2>1, LanzaHace DEF E!Finales
  <2>2. CASE E!Va(p, "existente") /\ UNCHANGED eLeido
    <3>1. Otros(p)
      BY <1>1, <2>2 DEF Otros, Tipos, TiposPc, TiposLeido, E!Va
    <3>2. EnRuta(p, ePc'[p], eLeido'[p])
      BY <1>9, <1>1, <2>2 DEF EnRuta, Tipos, TiposPc, TiposLeido, Leidos, E!Va, E!Devolver
    <3> QED
      BY <3>1, <3>2
  <2> QED
    BY <1>9, <2>1, <2>2 DEF E!Devolver
<1>10. CASE E!Existente(p)
  <2>1. CASE \E d \in E!Existentes(p) : E!Responde(p, d)
    BY <1>1, <2>1, RespondeHace
  <2>2. CASE E!Niega(p, "rechazada")
    BY <1>1, <2>2, NiegaHace DEF E!Finales
  <2>3. CASE E!Lanza(p, "error")
    BY <1>1, <2>3, LanzaHace DEF E!Finales
  <2> QED
    BY <1>10, <2>1, <2>2, <2>3 DEF E!Existente
<1>11. CASE E!LeerMayor(p)
  <2>1. Otros(p)
    BY <1>11, <1>1 DEF Otros, Tipos, TiposPc, TiposLeido, E!Va, E!LeerMayor
  <2>2. EnRuta(p, ePc'[p], eLeido'[p])
    BY <1>11, <1>1 DEF EnRuta, Tipos, TiposPc, TiposLeido, Leidos, E!Va, E!LeerMayor
  <2> QED
    BY <2>1, <2>2
<1>12. CASE E!Subir(p)
  <2>1. Otros(p)
    BY <1>12, <1>1 DEF Otros, Tipos, TiposPc, TiposLeido, E!Va, E!Subir
  <2>2. EnRuta(p, ePc'[p], eLeido'[p])
    BY <1>12, <1>1 DEF EnRuta, Tipos, TiposPc, TiposLeido, Leidos, E!Va, E!Subir
  <2> QED
    BY <2>1, <2>2
<1>13. CASE E!Revisar(p)
  <2>1. eLeido[p].choque \in E!Finales
    BY <1>13, <1>1 DEF E!Revisar, EnRuta
  <2>2. CASE \E d \in E!NotasDe(Origen[p]) : E!Responde(p, d)
    BY <1>1, <2>2, RespondeHace
  <2>3. CASE E!Niega(p, eLeido[p].choque)
    BY <1>1, <2>1, <2>3, NiegaHace
  <2> QED
    BY <1>13, <2>2, <2>3 DEF E!Revisar
<1> QED
  BY <1>2, <1>3, <1>4, <1>5, <1>6, <1>7, <1>8, <1>9, <1>10, <1>11, <1>12, <1>13 DEF E!Emite

LEMMA UnaRenovacion ==
    ASSUME E!Supuestos, Tipos, Rutas, NEW r \in Renovaciones,
           E!Renovar(r) \/ E!GuardarSede(r) \/ E!FijarContador(r)
    PROVE  Otros(r) /\ EnSede(r, ePc'[r], eLeido'[r])
<1>1. CASE E!Renovar(r)
  <2>1. r \in E!Actores /\ eLeido[r] \in Leidos
    BY DEF E!Actores, Tipos, TiposLeido
  <2>2. CASE E!Niega(r, "rechazada")
    <3>1. ePc'[r] = "rechazada" /\ Otros(r)
      BY <2>1, <2>2, NiegaHace DEF E!Finales
    <3>2. EnSede(r, ePc'[r], eLeido'[r])
      BY <3>1 DEF EnSede, E!Finales
    <3> QED
      BY <3>1, <3>2
  <2> DEFINE d == RangoNuevo[r].desde
             m == E!MayorEmitido(RangoNuevo[r].serie) + 1
             n == E!Max({d, m})
  <2>3. CASE eLeido' = [eLeido EXCEPT ![r].num = n] /\ E!Va(r, "sede")
    <3>1. d \in Int /\ m \in Int
      BY MayorNatural DEF Tipos, E!Supuestos
    <3> HIDE DEF d, m
    <3>2. n \in {d, m} /\ n >= d
      BY <3>1, MaximoDeDos, Zenon
    <3> HIDE DEF n
    <3>3. Otros(r)
      BY <2>1, <2>3 DEF Otros, Tipos, TiposPc, TiposLeido, E!Va
    <3>4. eLeido'[r].num = n /\ ePc'[r] = "sede"
      BY <2>1, <2>3 DEF Tipos, TiposPc, TiposLeido, Leidos, E!Va
    <3>5. EnSede(r, ePc'[r], eLeido'[r])
      BY <3>2, <3>4 DEF EnSede, d
    <3> QED
      BY <3>3, <3>5
  <2> QED
    BY <1>1, <2>2, <2>3 DEF E!Renovar
<1>2. CASE E!GuardarSede(r)
  <2>1. r \in E!Actores /\ EnSede(r, ePc[r], eLeido[r]) /\ ePc[r] = "sede"
    BY <1>2 DEF E!Actores, Rutas, E!GuardarSede
  <2>2. Otros(r) /\ ePc'[r] = "contador" /\ eLeido'[r] = eLeido[r]
    BY <1>2, <2>1 DEF Otros, Tipos, TiposPc, E!Va, E!GuardarSede
  <2>3. EnSede(r, ePc'[r], eLeido'[r])
    BY <2>1, <2>2 DEF EnSede
  <2> QED
    BY <2>2, <2>3, SoloUna
<1>3. CASE E!FijarContador(r)
  <2>1. r \in E!Actores /\ E!Niega(r, "emitida")
    BY <1>3 DEF E!Actores, E!FijarContador
  <2>2. ePc'[r] = "emitida" /\ Otros(r)
    BY <2>1, NiegaHace DEF E!Finales
  <2>3. EnSede(r, ePc'[r], eLeido'[r])
    BY <2>2 DEF EnSede, E!Finales
  <2> QED
    BY <2>2, <2>3, SoloUna
<1> QED
  BY <1>1, <1>2, <1>3

-----------------------------------------------------------------------------
(* What each step of a request has done *)

LEMMA RutasPaso ==
    ASSUME E!Supuestos
    PROVE  Tipos /\ Rutas /\ [E!Next]_(E!vars) => Rutas'
<1> SUFFICES ASSUME Tipos, Rutas, [E!Next]_(E!vars) PROVE Rutas'
  OBVIOUS
<1>1. ASSUME NEW p \in Peticiones, E!Pedir(p) \/ E!Emite(p) PROVE Rutas'
  <2>1. Otros(p) /\ EnRuta(p, ePc'[p], eLeido'[p])
    BY <1>1, UnPaso
  <2> QED
    BY <2>1, SoloUno
<1>2. ASSUME NEW r \in Renovaciones, E!Renovar(r) \/ E!GuardarSede(r) \/ E!FijarContador(r)
      PROVE  Rutas'
  <2>1. Otros(r) /\ EnSede(r, ePc'[r], eLeido'[r])
    BY <1>2, UnaRenovacion
  <2> QED
    BY <2>1, SoloUna
<1>3. ASSUME NEW a \in E!Actores, E!Corte(a) PROVE Rutas'
  <2>1. Otros(a) /\ ePc'[a] = "cortada" /\ eLeido'[a] = eLeido[a]
    BY <1>3 DEF Otros, Tipos, TiposPc, E!Va, E!Corte
  <2>2. CASE a \in Peticiones
    <3>1. EnRuta(a, ePc'[a], eLeido'[a])
      BY <2>1 DEF EnRuta
    <3> QED
      BY <2>1, <2>2, <3>1, SoloUno
  <2>3. CASE a \in Renovaciones
    <3>1. EnSede(a, ePc'[a], eLeido'[a])
      BY <2>1 DEF EnSede, E!Finales
    <3> QED
      BY <2>1, <2>3, <3>1, SoloUna
  <2> QED
    BY <2>2, <2>3 DEF E!Actores
<1>4. ASSUME E!NuevoMes PROVE Rutas'
  BY <1>4 DEF Rutas, EnRuta, EnSede, E!NuevoMes
<1>5. CASE UNCHANGED E!vars
  BY <1>5 DEF Rutas, EnRuta, EnSede, E!vars
<1> QED
  BY <1>1, <1>2, <1>3, <1>4, <1>5 DEF E!Next

-----------------------------------------------------------------------------
(* Documents *)

LEMMA UnicosPaso ==
    Tipos /\ Unicos /\ [E!Next]_(E!vars) => Unicos'
<1> SUFFICES ASSUME Tipos, Unicos, [E!Next]_(E!vars) PROVE Unicos'
  OBVIOUS
<1>1. ASSUME NEW p \in Peticiones, E!Guardar(p), docs' # docs PROVE Unicos'
  <2> DEFINE x == E!Documento(p)
  <2>1. E!Choques(p) = {} /\ docs' = docs \cup {x}
    BY <1>1 DEF E!Guardar
  <2>2. /\ x.tipo # "nota" => \A e \in docs : e.tipo # "nota" => e.venta # x.venta
        /\ x.tipo = "nota" => \A e \in docs : e.tipo = "nota" => e.origen # x.origen
    <3>1. \A e \in docs : e.tipo \in {"invoice", "pos", "nota"}
      BY DEF Tipos, TiposDatos, Docs
    <3>2. "venta" \notin E!Choques(p) /\ "exclusion" \notin E!Choques(p)
      BY <2>1
    <3> HIDE DEF x
    <3> QED
      BY <3>1, <3>2 DEF E!Choques, E!FiscalesDe, x
  <2> HIDE DEF x
  <2> QED
    BY <2>1, <2>2 DEF Unicos
<1>2. CASE docs' = docs
  BY <1>2 DEF Unicos
<1> QED
  BY <1>1, <1>2
  DEF E!Next, E!vars, E!Emite, E!Pedir, E!Cobrar, E!CobrarCredito, E!Folio, E!Auditar,
      E!Reembolsar,
       E!Devolver, E!Existente, E!LeerMayor, E!Subir, E!Revisar, E!Renovar, E!GuardarSede, E!FijarContador, E!Corte, E!NuevoMes

\* A new document takes a number that no other has.
LEMMA DocumentoNuevo ==
    ASSUME NEW p, E!Choques(p) = {}
    PROVE  E!Documento(p) \notin docs
BY DEF E!Choques

LEMMA SoloUnDoc ==
    ASSUME E!Supuestos, Respondido, NEW p \in E!Actores, Otros(p), docs \subseteq docs',
           p \in Peticiones /\ ePc'[p] \in {"auditar", "emitida"} => EsSuyo(p, eLeido[p].doc)'
    PROVE  Respondido'
<1> SUFFICES ASSUME NEW q \in Peticiones, ePc'[q] \in {"auditar", "emitida"}
             PROVE  EsSuyo(q, eLeido[q].doc)'
  BY DEF Respondido, EsSuyo
<1>1. CASE q = p
  BY <1>1
<1>2. CASE q # p
  <2>1. ePc'[q] = ePc[q] /\ eLeido'[q] = eLeido[q]
    BY <1>2 DEF Otros, E!Actores
  <2>2. EsSuyo(q, eLeido[q].doc)
    BY <2>1 DEF Respondido
  <2> QED
    BY <2>1, <2>2 DEF EsSuyo
<1> QED
  BY <1>1, <1>2

LEMMA RespondidoPaso ==
    ASSUME E!Supuestos
    PROVE  Tipos /\ Rutas /\ Respondido /\ [E!Next]_(E!vars) => Respondido'
<1> SUFFICES ASSUME Tipos, Rutas, Respondido, [E!Next]_(E!vars) PROVE Respondido'
  OBVIOUS
<1>1. ASSUME NEW p \in Peticiones, E!Pedir(p) PROVE Respondido'
  <2>1. Otros(p) /\ p \in E!Actores
    BY <1>1, UnPaso DEF E!Emite, E!Actores
  <2>2. docs \subseteq docs'
    BY <1>1 DEF E!Pedir
  <2>3. ePc'[p] \in {"auditar", "emitida"} => EsSuyo(p, eLeido[p].doc)'
    <3>1. CASE \E d \in E!Previo(p) : E!Responde(p, d)
      <4>1. PICK d \in E!Previo(p) : E!Responde(p, d)
        BY <3>1
      <4>2. EsSuyo(p, d) /\ docs' = docs
        BY <1>1, <4>1
        DEF EsSuyo, E!Pedir, E!Previo, E!Existentes, E!NotasDe, E!FiscalesDe, Tipos,
            TiposDatos, Docs
      <4>3. eLeido'[p].doc = d
        BY <2>1, <4>1, RespondeHace
      <4> QED
        BY <4>2, <4>3 DEF EsSuyo
    <3>2. CASE E!Niega(p, "rechazada")
      BY <2>1, <3>2, NiegaHace DEF E!Finales
    <3>3. CASE E!Va(p, "cupo")
      BY <2>1, <3>3 DEF E!Va, Tipos, TiposPc
    <3> QED
      BY <1>1, <3>1, <3>2, <3>3 DEF E!Pedir
  <2> QED
    BY <2>1, <2>2, <2>3, SoloUnDoc
<1>2. ASSUME NEW p \in Peticiones, E!Cobrar(p) PROVE Respondido'
  <2>1. Otros(p) /\ p \in E!Actores
    BY <1>2, UnPaso DEF E!Emite, E!Actores
  <2>2. docs \subseteq docs'
    BY <1>2 DEF E!Cobrar
  <2>3. ePc'[p] \notin {"auditar", "emitida"}
    BY <1>2, <2>1 DEF E!Cobrar, E!Va, Tipos, TiposPc
  <2> QED
    BY <2>1, <2>2, <2>3, SoloUnDoc
<1>3. ASSUME NEW p \in Peticiones, E!CobrarCredito(p) PROVE Respondido'
  <2>1. Otros(p) /\ p \in E!Actores
    BY <1>3, UnPaso DEF E!Emite, E!Actores
  <2>2. docs \subseteq docs'
    BY <1>3 DEF E!CobrarCredito
  <2>3. ePc'[p] \notin {"auditar", "emitida"}
    <3>1. CASE E!Lanza(p, "rechazada")
      BY <2>1, <3>1, LanzaHace DEF E!Finales
    <3>2. CASE E!Va(p, "folio")
      BY <2>1, <3>2 DEF E!Va, Tipos, TiposPc
    <3> QED
      BY <1>3, <3>1, <3>2 DEF E!CobrarCredito
  <2> QED
    BY <2>1, <2>2, <2>3, SoloUnDoc
<1>4. ASSUME NEW p \in Peticiones, E!Folio(p) PROVE Respondido'
  <2>1. Otros(p) /\ p \in E!Actores
    BY <1>4, UnPaso DEF E!Emite, E!Actores
  <2>2. docs \subseteq docs'
    BY <1>4 DEF E!Folio
  <2>3. ePc'[p] \notin {"auditar", "emitida"}
    BY <1>4, <2>1 DEF E!Folio, E!Va, Tipos, TiposPc
  <2> QED
    BY <2>1, <2>2, <2>3, SoloUnDoc
<1>5. ASSUME NEW p \in Peticiones, E!Guardar(p) PROVE Respondido'
  <2>1. Otros(p) /\ p \in E!Actores
    BY <1>5, UnPaso DEF E!Emite, E!Actores
  <2>2. docs \subseteq docs'
    BY <1>5 DEF E!Guardar
  <2>3. ePc'[p] \in {"auditar", "emitida"} => EsSuyo(p, eLeido[p].doc)'
    <3>1. CASE /\ docs' = docs \cup {E!Documento(p)}
               /\ eLeido' = [eLeido EXCEPT ![p].doc = E!Documento(p), ![p].cobro = "no"]
      <4>1. eLeido'[p].doc = E!Documento(p)
        <5>1. eLeido[p] \in Leidos
          BY <2>1, DeUno
        <5> QED
          BY <2>1, <3>1, <5>1 DEF Tipos, TiposLeido, Leidos
      <4>2. PICK d : d = E!Documento(p)
        OBVIOUS
      <4>3. d \in docs' /\ d.tipo = Tipo[p] /\ d.origen = Origen[p] /\ d.venta = VentaDe[p]
        BY <3>1, <4>2 DEF E!Documento
      <4> QED
        BY <4>1, <4>2, <4>3 DEF EsSuyo
    <3>2. CASE E!Va(p, "reembolsar")
      BY <2>1, <3>2 DEF E!Va, Tipos, TiposPc
    <3> QED
      BY <1>5, <3>1, <3>2 DEF E!Guardar
  <2> QED
    BY <2>1, <2>2, <2>3, SoloUnDoc
<1>6. ASSUME NEW p \in Peticiones, E!Auditar(p) PROVE Respondido'
  <2>1. Otros(p) /\ p \in E!Actores
    BY <1>6, UnPaso DEF E!Emite, E!Actores
  <2>2. docs \subseteq docs'
    BY <1>6 DEF E!Auditar
  <2>3. ePc'[p] \in {"auditar", "emitida"} => EsSuyo(p, eLeido[p].doc)'
    <3>1. CASE E!Responde(p, eLeido[p].doc)
      <4>1. eLeido'[p].doc = eLeido[p].doc
        BY <2>1, <3>1, RespondeHace
      <4>2. EsSuyo(p, eLeido[p].doc)
        BY <1>6 DEF E!Auditar, Respondido
      <4> QED
        BY <1>6, <4>1, <4>2 DEF EsSuyo, E!Auditar
    <3>2. CASE E!Lanza(p, "error")
      BY <2>1, <3>2, LanzaHace DEF E!Finales
    <3> QED
      BY <1>6, <3>1, <3>2 DEF E!Auditar
  <2> QED
    BY <2>1, <2>2, <2>3, SoloUnDoc
<1>7. ASSUME NEW p \in Peticiones, E!Reembolsar(p) PROVE Respondido'
  <2>1. Otros(p) /\ p \in E!Actores
    BY <1>7, UnPaso DEF E!Emite, E!Actores
  <2>2. docs \subseteq docs'
    BY <1>7 DEF E!Reembolsar
  <2>3. ePc'[p] \notin {"auditar", "emitida"}
    <3>1. E!TrasReembolso(p) \notin {"auditar", "emitida", "cortada"}
      BY DEF E!TrasReembolso
    <3>2. CASE E!TrasReembolso(p) \in E!Finales /\ E!Lanza(p, E!TrasReembolso(p))
      BY <2>1, <3>1, <3>2, LanzaHace
    <3>3. CASE E!Va(p, E!TrasReembolso(p))
      BY <2>1, <3>1, <3>3 DEF E!Va, Tipos, TiposPc
    <3> QED
      BY <1>7, <3>2, <3>3 DEF E!Reembolsar
  <2> QED
    BY <2>1, <2>2, <2>3, SoloUnDoc
<1>8. ASSUME NEW p \in Peticiones, E!Devolver(p) PROVE Respondido'
  <2>1. Otros(p) /\ p \in E!Actores
    BY <1>8, UnPaso DEF E!Emite, E!Actores
  <2>2. docs \subseteq docs'
    BY <1>8 DEF E!Devolver
  <2>3. ePc'[p] \notin {"auditar", "emitida"}
    <3>1. CASE E!Lanza(p, "error")
      BY <2>1, <3>1, LanzaHace DEF E!Finales
    <3>2. CASE E!Va(p, "existente")
      BY <2>1, <3>2 DEF E!Va, Tipos, TiposPc
    <3> QED
      BY <1>8, <3>1, <3>2 DEF E!Devolver
  <2> QED
    BY <2>1, <2>2, <2>3, SoloUnDoc
<1>9. ASSUME NEW p \in Peticiones, E!Existente(p) PROVE Respondido'
  <2>1. Otros(p) /\ p \in E!Actores
    BY <1>9, UnPaso DEF E!Emite, E!Actores
  <2>2. docs \subseteq docs'
    BY <1>9 DEF E!Existente
  <2>3. ePc'[p] \in {"auditar", "emitida"} => EsSuyo(p, eLeido[p].doc)'
    <3>1. CASE \E d \in E!Existentes(p) : E!Responde(p, d)
      <4>1. PICK d \in E!Existentes(p) : E!Responde(p, d)
        BY <3>1
      <4>2. EsSuyo(p, d) /\ docs' = docs
        BY <1>9, <4>1
        DEF EsSuyo, E!Existente, E!Existentes, E!NotasDe, E!FiscalesDe, Tipos, TiposDatos,
            Docs
      <4>3. eLeido'[p].doc = d
        BY <2>1, <4>1, RespondeHace
      <4> QED
        BY <4>2, <4>3 DEF EsSuyo
    <3>2. CASE E!Niega(p, "rechazada")
      BY <2>1, <3>2, NiegaHace DEF E!Finales
    <3>3. CASE E!Lanza(p, "error")
      BY <2>1, <3>3, LanzaHace DEF E!Finales
    <3> QED
      BY <1>9, <3>1, <3>2, <3>3 DEF E!Existente
  <2> QED
    BY <2>1, <2>2, <2>3, SoloUnDoc
<1>10. ASSUME NEW p \in Peticiones, E!LeerMayor(p) PROVE Respondido'
  <2>1. Otros(p) /\ p \in E!Actores
    BY <1>10, UnPaso DEF E!Emite, E!Actores
  <2>2. docs \subseteq docs'
    BY <1>10 DEF E!LeerMayor
  <2>3. ePc'[p] \notin {"auditar", "emitida"}
    BY <1>10, <2>1 DEF E!LeerMayor, E!Va, Tipos, TiposPc
  <2> QED
    BY <2>1, <2>2, <2>3, SoloUnDoc
<1>11. ASSUME NEW p \in Peticiones, E!Subir(p) PROVE Respondido'
  <2>1. Otros(p) /\ p \in E!Actores
    BY <1>11, UnPaso DEF E!Emite, E!Actores
  <2>2. docs \subseteq docs'
    BY <1>11 DEF E!Subir
  <2>3. ePc'[p] \notin {"auditar", "emitida"}
    BY <1>11, <2>1 DEF E!Subir, E!Va, Tipos, TiposPc
  <2> QED
    BY <2>1, <2>2, <2>3, SoloUnDoc
<1>12. ASSUME NEW p \in Peticiones, E!Revisar(p) PROVE Respondido'
  <2>1. Otros(p) /\ p \in E!Actores
    BY <1>12, UnPaso DEF E!Emite, E!Actores
  <2>2. docs \subseteq docs'
    BY <1>12 DEF E!Revisar
  <2>2a. Tipo[p] = "nota"
    BY <1>12, DeUno DEF EnRuta, E!Revisar
  <2>3. ePc'[p] \in {"auditar", "emitida"} => EsSuyo(p, eLeido[p].doc)'
    <3>1. CASE \E d \in E!NotasDe(Origen[p]) : E!Responde(p, d)
      <4>1. PICK d \in E!NotasDe(Origen[p]) : E!Responde(p, d)
        BY <3>1
      <4>2. EsSuyo(p, d) /\ docs' = docs
        BY <1>12, <2>2a, <4>1 DEF EsSuyo, E!Revisar, E!NotasDe
      <4>3. eLeido'[p].doc = d
        BY <2>1, <4>1, RespondeHace
      <4> QED
        BY <4>2, <4>3 DEF EsSuyo
    <3>2. CASE E!Niega(p, eLeido[p].choque)
      <4>1. eLeido[p].choque \in E!Finales \ {"emitida", "cortada"}
        BY <1>12, DeUno DEF EnRuta, E!Revisar
      <4> QED
        BY <2>1, <3>2, <4>1, NiegaHace DEF E!Finales
    <3> QED
      BY <1>12, <3>1, <3>2 DEF E!Revisar
  <2> QED
    BY <2>1, <2>2, <2>3, SoloUnDoc
<1>13. ASSUME NEW r \in Renovaciones, E!Renovar(r) PROVE Respondido'
  <2>1. Otros(r) /\ r \in E!Actores
    BY <1>13, UnaRenovacion DEF E!Actores
  <2>2. docs' = docs /\ r \notin Peticiones
    BY <1>13 DEF E!Renovar, E!Supuestos
  <2> QED
    BY <2>1, <2>2, SoloUnDoc
<1>14. ASSUME NEW r \in Renovaciones, E!GuardarSede(r) PROVE Respondido'
  <2>1. Otros(r) /\ r \in E!Actores
    BY <1>14, UnaRenovacion DEF E!Actores
  <2>2. docs' = docs /\ r \notin Peticiones
    BY <1>14 DEF E!GuardarSede, E!Supuestos
  <2> QED
    BY <2>1, <2>2, SoloUnDoc
<1>15. ASSUME NEW r \in Renovaciones, E!FijarContador(r) PROVE Respondido'
  <2>1. Otros(r) /\ r \in E!Actores
    BY <1>15, UnaRenovacion DEF E!Actores
  <2>2. docs' = docs /\ r \notin Peticiones
    BY <1>15 DEF E!FijarContador, E!Supuestos
  <2> QED
    BY <2>1, <2>2, SoloUnDoc
<1>16. ASSUME NEW a \in E!Actores, E!Corte(a) PROVE Respondido'
  <2>1. Otros(a) /\ ePc'[a] = "cortada" /\ docs' = docs
    BY <1>16 DEF Otros, Tipos, TiposPc, E!Va, E!Corte
  <2> QED
    BY <2>1, SoloUnDoc
<1>17. ASSUME E!NuevoMes PROVE Respondido'
  BY <1>17 DEF Respondido, EsSuyo, E!NuevoMes
<1>18. CASE UNCHANGED E!vars
  BY <1>18 DEF Respondido, EsSuyo, E!vars
<1> QED
  BY <1>1, <1>2, <1>3, <1>4, <1>5, <1>6, <1>7, <1>8, <1>9, <1>10, <1>11, <1>12, <1>13, <1>14,
     <1>15, <1>16, <1>17, <1>18
  DEF E!Next, E!Emite

-----------------------------------------------------------------------------
(* The quota *)

\* How the requests that have charged change by the step of one.
LEMMA CuentaCobro ==
    ASSUME E!Supuestos, NEW p \in E!Actores, Otros(p), NEW k
    PROVE  /\ Cardinality(ConCobro(k)) \in Nat
           /\ Cardinality(ConCobro(k))' \in Nat
           /\ p \in Peticiones =>
                Cardinality(ConCobro(k))' = Cardinality(ConCobro(k))
                  + (IF eLeido'[p].cobro \in k THEN 1 ELSE 0) - (IF eLeido[p].cobro \in k THEN 1 ELSE 0)
           /\ p \notin Peticiones => Cardinality(ConCobro(k))' = Cardinality(ConCobro(k))
<1> DEFINE S == ConCobro(k)
           T == ConCobro(k)'
<1>1. IsFiniteSet(S) /\ IsFiniteSet(T)
  BY FS_Subset, MismasFinitas DEF E!Supuestos, ConCobro
<1>2. Cardinality(S) \in Nat /\ Cardinality(T) \in Nat
  BY <1>1, FS_CardinalityType
<1>3. \A q \in Peticiones : q # p => (q \in S <=> q \in T)
  BY DEF Otros, E!Actores, ConCobro
<1>4. S \subseteq Peticiones /\ T \subseteq Peticiones
  BY DEF ConCobro
<1>5. p \in Peticiones => (p \in S <=> eLeido[p].cobro \in k) /\ (p \in T <=> eLeido'[p].cobro \in k)
  BY DEF ConCobro
<1> HIDE DEF S, T
<1>6. CASE p \notin Peticiones
  <2>1. S = T
    BY <1>3, <1>4, <1>6
  <2> QED
    BY <1>2, <1>6, <2>1 DEF S, T
<1>7. CASE p \in Peticiones
  <2>1. CASE p \in S <=> p \in T
    <3>1. S = T
      BY <1>3, <1>4, <2>1
    <3> QED
      BY <1>2, <1>5, <1>7, <2>1, <3>1 DEF S, T
  <2>2. CASE p \in T /\ p \notin S
    <3>1. T = S \cup {p}
      BY <1>3, <1>4, <2>2
    <3>2. Cardinality(T) = Cardinality(S) + 1
      BY <1>1, <2>2, <3>1, FS_AddElement
    <3> QED
      BY <1>2, <1>5, <1>7, <2>2, <3>2 DEF S, T
  <2>3. CASE p \in S /\ p \notin T
    <3>1. T = S \ {p}
      BY <1>3, <1>4, <2>3
    <3>2. Cardinality(T) = Cardinality(S) - 1
      BY <1>1, <2>3, <3>1, FS_RemoveElement
    <3> QED
      BY <1>2, <1>5, <1>7, <2>3, <3>2 DEF S, T
  <2> QED
    BY <2>1, <2>2, <2>3
<1> QED
  BY <1>6, <1>7

\* Whoever has not charged before or after leaves the quota as it was.
LEMMA SinCobrar ==
    ASSUME E!Supuestos, CupoVale, NEW p \in E!Actores, Otros(p), UNCHANGED <<cupo, docs, mes>>,
           p \in Peticiones => eLeido'[p].cobro = eLeido[p].cobro
    PROVE  CupoVale'
<1>1. \A k : Cardinality(ConCobro(k))' = Cardinality(ConCobro(k))
  <2> SUFFICES ASSUME NEW k PROVE Cardinality(ConCobro(k))' = Cardinality(ConCobro(k))
    OBVIOUS
  <2> QED
    BY CuentaCobro
<1>2. /\ Cardinality(ConCobro({"monthly"}))' = Cardinality(ConCobro({"monthly"}))
      /\ Cardinality(ConCobro({"credit"}))' = Cardinality(ConCobro({"credit"}))
  BY <1>1
<1> QED
  BY <1>2 DEF CupoVale

LEMMA CupoPaso ==
    ASSUME E!Supuestos
    PROVE  Tipos /\ Rutas /\ CupoVale /\ [E!Next]_(E!vars) => CupoVale'
<1> SUFFICES ASSUME Tipos, Rutas, CupoVale, [E!Next]_(E!vars) PROVE CupoVale'
  OBVIOUS
<1>1. ASSUME NEW p \in Peticiones, E!Pedir(p) PROVE CupoVale'
  <2>1. Otros(p) /\ EnRuta(p, ePc'[p], eLeido'[p]) /\ p \in E!Actores
    BY <1>1, UnPaso DEF E!Emite, E!Actores
  <2>2. EnRuta(p, ePc[p], eLeido[p]) /\ eLeido[p] \in Leidos
    BY DeUno
  <2>3. eLeido'[p].cobro = "no"
    <3>1. CASE \E d \in E!Previo(p) : E!Responde(p, d)
      BY <2>1, <3>1, RespondeHace
    <3>2. CASE E!Niega(p, "rechazada")
      BY <2>1, <3>2, NiegaHace DEF E!Finales
    <3>3. CASE ePc'[p] = "cupo"
      BY <2>1, <3>3 DEF EnRuta
    <3> QED
      BY <1>1, <2>1, <3>1, <3>2, <3>3 DEF E!Pedir, E!Va, Tipos, TiposPc
  <2>4. eLeido[p].cobro = "no"
    BY <1>1, <2>2 DEF EnRuta, E!Pedir
  <2> QED
    BY <1>1, <2>1, <2>3, <2>4, SinCobrar DEF E!Pedir
<1>2. ASSUME NEW p \in Peticiones, E!Cobrar(p) PROVE CupoVale'
  <2>1. Otros(p) /\ EnRuta(p, ePc'[p], eLeido'[p]) /\ p \in E!Actores
    BY <1>2, UnPaso DEF E!Emite, E!Actores
  <2>2. EnRuta(p, ePc[p], eLeido[p]) /\ eLeido[p] \in Leidos
    BY DeUno
  <2> DEFINE a == Cardinality(ConCobro({"monthly"}))
             b == Cardinality(ConCobro({"credit"}))
             n == Cardinality(docs)
  <2>3. a \in Nat /\ b \in Nat /\ a' \in Nat /\ b' \in Nat
    BY <2>1, CuentaCobro
  <2>4. n \in Nat /\ cupo \in Cupos /\ cupo.mes \in 1..mes /\ mes \in Nat
    BY FS_CardinalityType DEF Tipos, TiposDatos, Cupos
  <2>5. CupoEn(mes, cupo.usados, cupo.creditos, n, a, b)
    BY DEF CupoVale
  <2>6. eLeido[p].cobro = "no"
    BY <1>2, <2>2 DEF EnRuta, E!Cobrar
  <2>7. mes' = mes /\ n' = n /\ cupo'.creditos = cupo.creditos
    BY <1>2, <2>4 DEF E!Cobrar, E!DelMes, Cupos
  <2>8. CASE eLeido' = eLeido
    <3>1. a' = a /\ b' = b
      BY <2>8 DEF ConCobro
    <3>2. mes = 1 => cupo'.usados = cupo.usados
      <4>1. E!Va(p, "credito")
        BY <1>2, <2>6, <2>8, <2>2, <2>1 DEF E!Cobrar, Tipos, TiposLeido, Leidos
      <4> QED
        BY <1>2, <2>4, <4>1, <2>1 DEF E!Cobrar, E!DelMes, E!Va, Tipos, TiposPc
    <3> HIDE DEF a, b, n
    <3> QED
      BY <2>3, <2>4, <2>5, <2>7, <3>1, <3>2 DEF CupoEn, CupoVale, a, b, n
  <2>9. CASE eLeido' = [eLeido EXCEPT ![p].cobro = "monthly"] /\ E!DelMes.usados < Base
             /\ cupo' = [E!DelMes EXCEPT !.usados = @ + 1]
    <3>1. eLeido'[p].cobro = "monthly"
      BY <2>1, <2>2, <2>9 DEF Tipos, TiposLeido, Leidos
    <3>2. a' = a + 1 /\ b' = b
      <4>1. a' = a + 1
        BY <2>1, <2>3, <2>6, <3>1, CuentaCobro
      <4>2. b' = b
        BY <2>1, <2>3, <2>6, <3>1, CuentaCobro
      <4> QED
        BY <4>1, <4>2
    <3>3. mes = 1 => cupo'.usados = cupo.usados + 1 /\ cupo.usados < Base
      <4> SUFFICES ASSUME mes = 1 PROVE cupo'.usados = cupo.usados + 1 /\ cupo.usados < Base
        OBVIOUS
      <4>1. E!DelMes = cupo
        BY <2>4 DEF E!DelMes
      <4> QED
        BY <2>4, <2>9, <4>1 DEF Cupos
    <3>4. CupoEn(mes, cupo.usados + 1, cupo.creditos, n, a + 1, b) \/ mes # 1
      <4> HIDE DEF a, b, n
      <4>1. cupo.usados \in Nat /\ cupo.creditos \in Int
        BY <2>4 DEF Cupos
      <4> QED
        BY <2>3, <2>4, <2>5, <3>3, <4>1 DEF CupoEn, E!Supuestos
    <3>5. CupoEn(mes', cupo'.usados, cupo'.creditos, n', a', b')
      <4> HIDE DEF a, b, n
      <4>1. cupo.usados \in Nat /\ cupo.creditos \in Int
        BY <2>4 DEF Cupos
      <4> QED
        BY <2>3, <2>4, <2>5, <2>7, <3>2, <3>3, <3>4, <4>1 DEF CupoEn
    <3> QED
      BY <3>5 DEF CupoVale, CupoEn
  <2> QED
    BY <1>2, <2>8, <2>9 DEF E!Cobrar
<1>3. ASSUME NEW p \in Peticiones, E!CobrarCredito(p) PROVE CupoVale'
  <2>1. Otros(p) /\ EnRuta(p, ePc'[p], eLeido'[p]) /\ p \in E!Actores
    BY <1>3, UnPaso DEF E!Emite, E!Actores
  <2>2. EnRuta(p, ePc[p], eLeido[p]) /\ eLeido[p] \in Leidos
    BY DeUno
  <2> DEFINE a == Cardinality(ConCobro({"monthly"}))
             b == Cardinality(ConCobro({"credit"}))
             n == Cardinality(docs)
  <2>3. a \in Nat /\ b \in Nat /\ a' \in Nat /\ b' \in Nat
    BY <2>1, CuentaCobro
  <2>4. n \in Nat /\ cupo \in Cupos /\ cupo.mes \in 1..mes /\ mes \in Nat
    BY FS_CardinalityType DEF Tipos, TiposDatos, Cupos
  <2>5. CupoEn(mes, cupo.usados, cupo.creditos, n, a, b)
    BY DEF CupoVale
  <2>6. eLeido[p].cobro = "no" /\ n' = n /\ mes' = mes
    BY <1>3, <2>2 DEF EnRuta, E!CobrarCredito
  <2>7. CASE E!Lanza(p, "rechazada") /\ UNCHANGED cupo
    <3>1. eLeido'[p].cobro = "no"
      BY <2>1, <2>7, LanzaHace DEF E!Finales
    <3> QED
      BY <1>3, <2>1, <2>6, <2>7, <3>1, SinCobrar DEF E!CobrarCredito
  <2>8. CASE /\ cupo.creditos > 0 /\ cupo' = [cupo EXCEPT !.usados = @ + 1, !.creditos = @ - 1]
             /\ eLeido' = [eLeido EXCEPT ![p].cobro = "credit"]
    <3>1. eLeido'[p].cobro = "credit"
      BY <2>1, <2>2, <2>8 DEF Tipos, TiposLeido, Leidos
    <3>2. a' = a /\ b' = b + 1
      <4>1. a' = a
        BY <2>1, <2>3, <2>6, <3>1, CuentaCobro
      <4>2. b' = b + 1
        BY <2>1, <2>3, <2>6, <3>1, CuentaCobro
      <4> QED
        BY <4>1, <4>2
    <3>3. cupo'.usados = cupo.usados + 1 /\ cupo'.creditos = cupo.creditos - 1
      BY <2>4, <2>8 DEF Cupos
    <3>4. CupoEn(mes', cupo'.usados, cupo'.creditos, n', a', b')
      <4>1. cupo.usados \in Nat /\ cupo.creditos \in Int /\ Creditos \in Nat
        BY <2>4 DEF Cupos, E!Supuestos
      <4> HIDE DEF a, b, n
      <4> QED
        BY <2>3, <2>4, <2>5, <2>6, <2>8, <3>2, <3>3, <4>1 DEF CupoEn
    <3> QED
      BY <3>4 DEF CupoVale, CupoEn
  <2> QED
    BY <1>3, <2>7, <2>8 DEF E!CobrarCredito
<1>4. ASSUME NEW p \in Peticiones, E!Folio(p) PROVE CupoVale'
  <2>1. Otros(p) /\ EnRuta(p, ePc'[p], eLeido'[p]) /\ p \in E!Actores
    BY <1>4, UnPaso DEF E!Emite, E!Actores
  <2>2. EnRuta(p, ePc[p], eLeido[p]) /\ eLeido[p] \in Leidos
    BY DeUno
  <2>3. eLeido'[p].cobro = eLeido[p].cobro
    BY <1>4, <2>1, <2>2 DEF E!Folio, Tipos, TiposLeido, Leidos
  <2> QED
    BY <1>4, <2>1, <2>3, SinCobrar DEF E!Folio
<1>5. ASSUME NEW p \in Peticiones, E!Guardar(p) PROVE CupoVale'
  <2>1. Otros(p) /\ EnRuta(p, ePc'[p], eLeido'[p]) /\ p \in E!Actores
    BY <1>5, UnPaso DEF E!Emite, E!Actores
  <2>2. EnRuta(p, ePc[p], eLeido[p]) /\ eLeido[p] \in Leidos
    BY DeUno
  <2> DEFINE a == Cardinality(ConCobro({"monthly"}))
             b == Cardinality(ConCobro({"credit"}))
             n == Cardinality(docs)
  <2>3. a \in Nat /\ b \in Nat /\ a' \in Nat /\ b' \in Nat
    BY <2>1, CuentaCobro
  <2>4. n \in Nat /\ cupo \in Cupos /\ cupo.mes \in 1..mes /\ mes \in Nat
    BY FS_CardinalityType DEF Tipos, TiposDatos, Cupos
  <2>5. CupoEn(mes, cupo.usados, cupo.creditos, n, a, b)
    BY DEF CupoVale
  <2>6. eLeido[p].cobro \in {"monthly", "credit"} /\ mes' = mes /\ cupo' = cupo
    BY <1>5, <2>2 DEF EnRuta, E!Guardar, Leidos
  <2>7. CASE docs' = docs /\ \E c \in Choca : eLeido' = [eLeido EXCEPT ![p].choque = c]
    <3>1. eLeido'[p].cobro = eLeido[p].cobro
      BY <2>1, <2>2, <2>7 DEF Tipos, TiposLeido, Leidos
    <3> QED
      BY <2>1, <2>6, <2>7, <3>1, SinCobrar
  <2>8. CASE /\ E!Choques(p) = {} /\ docs' = docs \cup {E!Documento(p)}
             /\ eLeido' = [eLeido EXCEPT ![p].doc = E!Documento(p), ![p].cobro = "no"]
    <3>1. eLeido'[p].cobro = "no"
      BY <2>1, <2>2, <2>8 DEF Tipos, TiposLeido, Leidos
    <3>2. n' = n + 1
      <4>1. IsFiniteSet(docs) /\ E!Documento(p) \notin docs
        BY <2>8, DocumentoNuevo DEF Tipos, TiposDatos
      <4> QED
        BY <2>8, <4>1, FS_AddElement
    <3>3. IF eLeido[p].cobro = "monthly" THEN a' = a - 1 /\ b' = b ELSE a' = a /\ b' = b - 1
      <4>1. a' = a - (IF eLeido[p].cobro = "monthly" THEN 1 ELSE 0)
        BY <2>1, <2>3, <2>6, <3>1, CuentaCobro
      <4>2. b' = b - (IF eLeido[p].cobro = "credit" THEN 1 ELSE 0)
        BY <2>1, <2>3, <2>6, <3>1, CuentaCobro
      <4> HIDE DEF a, b
      <4> QED
        BY <2>3, <2>6, <4>1, <4>2
    <3>4. CupoEn(mes', cupo'.usados, cupo'.creditos, n', a', b')
      <4>1. cupo.usados \in Nat /\ cupo.creditos \in Int /\ Creditos \in Nat
        BY <2>4 DEF Cupos, E!Supuestos
      <4> HIDE DEF a, b, n
      <4> QED
        BY <2>3, <2>4, <2>5, <2>6, <3>2, <3>3, <4>1 DEF CupoEn
    <3> QED
      BY <3>4 DEF CupoVale, CupoEn
  <2> QED
    <3>1. E!Choques(p) \subseteq Choca /\ "otro" \in Choca
      BY DEF E!Choques, Choca
    <3> QED
      BY <1>5, <2>7, <2>8, <3>1 DEF E!Guardar
<1>6. ASSUME NEW p \in Peticiones, E!Auditar(p) PROVE CupoVale'
  <2>1. Otros(p) /\ EnRuta(p, ePc'[p], eLeido'[p]) /\ p \in E!Actores
    BY <1>6, UnPaso DEF E!Emite, E!Actores
  <2>2. EnRuta(p, ePc[p], eLeido[p]) /\ eLeido[p] \in Leidos
    BY DeUno
  <2>3. eLeido'[p].cobro = "no"
    <3>1. CASE E!Responde(p, eLeido[p].doc)
      BY <2>1, <3>1, RespondeHace
    <3>2. CASE E!Lanza(p, "error")
      BY <2>1, <3>2, LanzaHace DEF E!Finales
    <3> QED
      BY <1>6, <3>1, <3>2 DEF E!Auditar
  <2>4. eLeido[p].cobro = "no"
    BY <1>6, <2>2 DEF EnRuta, E!Auditar
  <2> QED
    BY <1>6, <2>1, <2>3, <2>4, SinCobrar DEF E!Auditar
<1>7. ASSUME NEW p \in Peticiones, E!Reembolsar(p) PROVE CupoVale'
  <2>1. Otros(p) /\ EnRuta(p, ePc'[p], eLeido'[p]) /\ p \in E!Actores
    BY <1>7, UnPaso DEF E!Emite, E!Actores
  <2>2. EnRuta(p, ePc[p], eLeido[p]) /\ eLeido[p] \in Leidos
    BY DeUno
  <2> DEFINE a == Cardinality(ConCobro({"monthly"}))
             b == Cardinality(ConCobro({"credit"}))
             n == Cardinality(docs)
  <2>3. a \in Nat /\ b \in Nat /\ a' \in Nat /\ b' \in Nat
    BY <2>1, CuentaCobro
  <2>4. n \in Nat /\ cupo \in Cupos /\ cupo.mes \in 1..mes /\ mes \in Nat
    BY FS_CardinalityType DEF Tipos, TiposDatos, Cupos
  <2>5. CupoEn(mes, cupo.usados, cupo.creditos, n, a, b)
    BY DEF CupoVale
  <2>6. eLeido[p].cobro \in {"monthly", "credit"} /\ mes' = mes /\ n' = n
    BY <1>7, <2>2 DEF EnRuta, E!Reembolsar, Leidos
  <2>7. eLeido'[p].cobro = "no"
    <3>1. E!TrasReembolso(p) \notin {"emitida", "cortada"}
      BY DEF E!TrasReembolso
    <3>2. CASE E!TrasReembolso(p) \in E!Finales /\ E!Lanza(p, E!TrasReembolso(p))
      BY <2>1, <3>1, <3>2, LanzaHace
    <3>3. CASE eLeido' = [eLeido EXCEPT ![p].cobro = "no"]
      BY <2>1, <2>2, <3>3 DEF Tipos, TiposLeido, Leidos
    <3> QED
      BY <1>7, <3>2, <3>3 DEF E!Reembolsar
  <2>8. IF eLeido[p].cobro = "monthly" THEN a' = a - 1 /\ b' = b ELSE a' = a /\ b' = b - 1
    <3>1. a' = a - (IF eLeido[p].cobro = "monthly" THEN 1 ELSE 0)
      BY <2>1, <2>3, <2>6, <2>7, CuentaCobro
    <3>2. b' = b - (IF eLeido[p].cobro = "credit" THEN 1 ELSE 0)
      BY <2>1, <2>3, <2>6, <2>7, CuentaCobro
    <3> HIDE DEF a, b
    <3> QED
      BY <2>3, <2>6, <3>1, <3>2
  <2> DEFINE menos == IF cupo.mes = mes /\ cupo.usados > 0
                      THEN [cupo EXCEPT !.usados = @ - 1] ELSE cupo
  <2>9. /\ menos \in Cupos /\ menos.creditos = cupo.creditos
        /\ mes = 1 /\ cupo.usados > 0 => menos.usados = cupo.usados - 1
    BY <2>4 DEF Cupos
  <2>10. cupo' = IF eLeido[p].cobro = "credit" THEN [menos EXCEPT !.creditos = @ + 1] ELSE menos
    BY <1>7 DEF E!Reembolsar, E!Devuelto
  <2>11. /\ cupo'.usados = menos.usados
         /\ cupo'.creditos = IF eLeido[p].cobro = "credit" THEN cupo.creditos + 1 ELSE cupo.creditos
    <3> HIDE DEF menos
    <3> QED
      BY <2>9, <2>10 DEF Cupos
  <2>12. CupoEn(mes', cupo'.usados, cupo'.creditos, n', a', b')
    <3>1. cupo.usados \in Nat /\ cupo.creditos \in Int /\ Creditos \in Nat
      BY <2>4 DEF Cupos, E!Supuestos
    <3> HIDE DEF a, b, n, menos
    <3>2. mes = 1 => cupo.usados > 0
      BY <2>3, <2>4, <2>5, <2>6, <2>8, <3>1 DEF CupoEn
    <3>3. mes = 1 => cupo'.usados = cupo.usados - 1
      BY <2>9, <2>11, <3>2
    <3>4. b >= 1 \/ eLeido[p].cobro = "monthly"
      BY <2>3, <2>6, <2>8
    <3>5. Creditos - cupo'.creditos - b' = Creditos - cupo.creditos - b /\ cupo'.creditos >= 0
      <4>1. CASE eLeido[p].cobro = "monthly"
        BY <2>3, <2>5, <2>8, <2>11, <3>1, <4>1 DEF CupoEn
      <4>2. CASE eLeido[p].cobro = "credit"
        BY <2>3, <2>5, <2>8, <2>11, <3>1, <4>2 DEF CupoEn
      <4> QED
        BY <2>6, <4>1, <4>2
    <3>6. mes = 1 => cupo'.usados = n + a' + b'
                     /\ n - (Creditos - cupo.creditos - b) + a' <= Base
      <4>1. mes = 1 => cupo.usados = n + a + b /\ n - (Creditos - cupo.creditos - b) + a <= Base
        BY <2>5 DEF CupoEn
      <4>2. (a' = a - 1 /\ b' = b) \/ (a' = a /\ b' = b - 1)
        BY <2>8
      <4>3. Base \in Nat
        BY DEF E!Supuestos
      <4> DEFINE u == cupo.usados
                 v == cupo'.usados
                 d == Creditos - cupo.creditos - b
      <4>4. u \in Nat /\ d \in Int /\ n \in Nat /\ a \in Nat /\ b \in Nat
        BY <2>3, <2>4, <3>1
      <4>5. mes = 1 => v = u - 1 /\ u = n + a + b /\ n - d + a <= Base
        BY <3>3, <4>1
      <4> HIDE DEF u, v, d
      <4>6. CASE a' = a - 1 /\ b' = b
        <5>1. mes = 1 => v = n + a' + b' /\ n - d + a' <= Base
          BY <4>3, <4>4, <4>5, <4>6
        <5> QED
          BY <5>1 DEF v, d
      <4>7. CASE a' = a /\ b' = b - 1
        <5>1. mes = 1 => v = n + a' + b' /\ n - d + a' <= Base
          BY <4>3, <4>4, <4>5, <4>7
        <5> QED
          BY <5>1 DEF v, d
      <4> QED
        BY <4>2, <4>6, <4>7
    <3>7. Creditos - cupo.creditos - b \in 0..n
      BY <2>5 DEF CupoEn
    <3> QED
      BY <2>6, <3>5, <3>6, <3>7 DEF CupoEn
  <2> QED
    BY <2>12 DEF CupoVale, CupoEn
<1>8. ASSUME NEW p \in Peticiones, E!Devolver(p) PROVE CupoVale'
  <2>1. Otros(p) /\ EnRuta(p, ePc'[p], eLeido'[p]) /\ p \in E!Actores
    BY <1>8, UnPaso DEF E!Emite, E!Actores
  <2>2. EnRuta(p, ePc[p], eLeido[p]) /\ eLeido[p] \in Leidos
    BY DeUno
  <2>3. eLeido'[p].cobro = "no"
    <3>1. CASE E!Lanza(p, "error")
      BY <2>1, <3>1, LanzaHace DEF E!Finales
    <3>2. CASE eLeido' = eLeido
      BY <1>8, <2>2, <3>2 DEF EnRuta, E!Devolver
    <3> QED
      BY <1>8, <3>1, <3>2 DEF E!Devolver
  <2>4. eLeido[p].cobro = "no"
    BY <1>8, <2>2 DEF EnRuta, E!Devolver
  <2> QED
    BY <1>8, <2>1, <2>3, <2>4, SinCobrar DEF E!Devolver
<1>9. ASSUME NEW p \in Peticiones, E!Existente(p) PROVE CupoVale'
  <2>1. Otros(p) /\ EnRuta(p, ePc'[p], eLeido'[p]) /\ p \in E!Actores
    BY <1>9, UnPaso DEF E!Emite, E!Actores
  <2>2. EnRuta(p, ePc[p], eLeido[p]) /\ eLeido[p] \in Leidos
    BY DeUno
  <2>3. eLeido'[p].cobro = "no"
    <3>1. CASE \E d \in E!Existentes(p) : E!Responde(p, d)
      BY <2>1, <3>1, RespondeHace
    <3>2. CASE E!Niega(p, "rechazada")
      BY <2>1, <3>2, NiegaHace DEF E!Finales
    <3>3. CASE E!Lanza(p, "error")
      BY <2>1, <3>3, LanzaHace DEF E!Finales
    <3> QED
      BY <1>9, <3>1, <3>2, <3>3 DEF E!Existente
  <2>4. eLeido[p].cobro = "no"
    BY <1>9, <2>2 DEF EnRuta, E!Existente
  <2> QED
    BY <1>9, <2>1, <2>3, <2>4, SinCobrar DEF E!Existente
<1>10. ASSUME NEW p \in Peticiones, E!LeerMayor(p) PROVE CupoVale'
  <2>1. Otros(p) /\ EnRuta(p, ePc'[p], eLeido'[p]) /\ p \in E!Actores
    BY <1>10, UnPaso DEF E!Emite, E!Actores
  <2>2. EnRuta(p, ePc[p], eLeido[p]) /\ eLeido[p] \in Leidos
    BY DeUno
  <2>3. eLeido'[p].cobro = eLeido[p].cobro
    BY <1>10, <2>1, <2>2 DEF E!LeerMayor, Tipos, TiposLeido, Leidos
  <2> QED
    BY <1>10, <2>1, <2>3, SinCobrar DEF E!LeerMayor
<1>11. ASSUME NEW p \in Peticiones, E!Subir(p) PROVE CupoVale'
  <2>1. Otros(p) /\ EnRuta(p, ePc'[p], eLeido'[p]) /\ p \in E!Actores
    BY <1>11, UnPaso DEF E!Emite, E!Actores
  <2>2. EnRuta(p, ePc[p], eLeido[p]) /\ eLeido[p] \in Leidos
    BY DeUno
  <2>3. eLeido'[p].cobro = eLeido[p].cobro
    BY <1>11, <2>1, <2>2 DEF E!Subir, Tipos, TiposLeido, Leidos
  <2> QED
    BY <1>11, <2>1, <2>3, SinCobrar DEF E!Subir
<1>12. ASSUME NEW p \in Peticiones, E!Revisar(p) PROVE CupoVale'
  <2>1. Otros(p) /\ EnRuta(p, ePc'[p], eLeido'[p]) /\ p \in E!Actores
    BY <1>12, UnPaso DEF E!Emite, E!Actores
  <2>2. EnRuta(p, ePc[p], eLeido[p]) /\ eLeido[p] \in Leidos
    BY DeUno
  <2>3. eLeido'[p].cobro = "no"
    <3>1. CASE \E d \in E!NotasDe(Origen[p]) : E!Responde(p, d)
      BY <2>1, <3>1, RespondeHace
    <3>2. CASE E!Niega(p, eLeido[p].choque)
      <4>1. eLeido[p].choque \in E!Finales
        BY <1>12, <2>2 DEF E!Revisar, EnRuta
      <4> QED
        BY <2>1, <3>2, <4>1, NiegaHace
    <3> QED
      BY <1>12, <3>1, <3>2 DEF E!Revisar
  <2>4. eLeido[p].cobro = "no"
    BY <1>12, <2>2 DEF EnRuta, E!Revisar
  <2> QED
    BY <1>12, <2>1, <2>3, <2>4, SinCobrar DEF E!Revisar
<1>13. ASSUME NEW r \in Renovaciones, E!Renovar(r) PROVE CupoVale'
  <2>1. Otros(r) /\ r \in E!Actores
    BY <1>13, UnaRenovacion DEF E!Actores
  <2>2. UNCHANGED <<cupo, docs, mes>> /\ r \notin Peticiones
    BY <1>13 DEF E!Renovar, E!Supuestos
  <2> QED
    BY <2>1, <2>2, SinCobrar
<1>14. ASSUME NEW r \in Renovaciones, E!GuardarSede(r) PROVE CupoVale'
  <2>1. Otros(r) /\ r \in E!Actores
    BY <1>14, UnaRenovacion DEF E!Actores
  <2>2. UNCHANGED <<cupo, docs, mes>> /\ r \notin Peticiones
    BY <1>14 DEF E!GuardarSede, E!Supuestos
  <2> QED
    BY <2>1, <2>2, SinCobrar
<1>15. ASSUME NEW r \in Renovaciones, E!FijarContador(r) PROVE CupoVale'
  <2>1. Otros(r) /\ r \in E!Actores
    BY <1>15, UnaRenovacion DEF E!Actores
  <2>2. UNCHANGED <<cupo, docs, mes>> /\ r \notin Peticiones
    BY <1>15 DEF E!FijarContador, E!Supuestos
  <2> QED
    BY <2>1, <2>2, SinCobrar
<1>16. ASSUME NEW a \in E!Actores, E!Corte(a) PROVE CupoVale'
  BY <1>16 DEF CupoVale, CupoEn, ConCobro, E!Corte
<1>17. ASSUME E!NuevoMes PROVE CupoVale'
  <2>1. mes \in Nat /\ mes >= 1 /\ mes' = mes + 1 /\ UNCHANGED <<docs, cupo, eLeido>>
    BY <1>17 DEF E!NuevoMes, Tipos, TiposDatos, E!Supuestos
  <2>2. mes' # 1
    BY <2>1
  <2> QED
    BY <2>1, <2>2 DEF CupoVale, CupoEn, ConCobro
<1>18. CASE UNCHANGED E!vars
  BY <1>18 DEF CupoVale, CupoEn, ConCobro, E!vars
<1> QED
  BY <1>1, <1>2, <1>3, <1>4, <1>5, <1>6, <1>7, <1>8, <1>9, <1>10, <1>11, <1>12, <1>13, <1>14,
     <1>15, <1>16, <1>17, <1>18
  DEF E!Next, E!Emite

-----------------------------------------------------------------------------
(* The theorems *)

LEMMA Inicial ==
    ASSUME E!Supuestos
    PROVE  E!Init => IInv
<1> SUFFICES ASSUME E!Init PROVE IInv
  OBVIOUS
<1>1. E!SinLeer \in Leidos /\ E!SinLeer.cobro = "no" /\ E!SinLeer.choque = "no"
  <2>1. E!SinDoc \in Docs
    BY DEF E!SinDoc, Docs
  <2> QED
    BY <2>1 DEF E!SinLeer, Leidos, Choca, E!MAX_INTENTOS
<1>2. Tipos
  <2>1. TiposPc /\ TiposLeido
    BY <1>1 DEF E!Init, TiposPc, TiposLeido
  <2>2. TiposDatos
    BY FS_EmptySet DEF E!Init, TiposDatos, E!Supuestos
  <2> QED
    BY <2>1, <2>2 DEF Tipos
<1>3. Rutas
  BY <1>1 DEF E!Init, Rutas, EnRuta, EnSede, E!Actores
<1>4. Unicos /\ Respondido
  BY DEF E!Init, Unicos, Respondido, E!Actores
<1>5. CupoVale
  <2>1. ConCobro({"monthly"}) = {} /\ ConCobro({"credit"}) = {}
    BY <1>1 DEF E!Init, ConCobro, E!Actores
  <2>2. /\ Cardinality(ConCobro({"monthly"})) = 0 /\ Cardinality(ConCobro({"credit"})) = 0
        /\ Cardinality(docs) = 0
    BY <2>1, FS_EmptySet DEF E!Init
  <2>3. mes = 1 /\ cupo.usados = 0 /\ cupo.creditos = Creditos /\ Creditos \in Nat /\ Base \in Nat
    BY DEF E!Init, E!Supuestos
  <2> QED
    BY <2>2, <2>3 DEF CupoVale, CupoEn
<1> QED
  BY <1>2, <1>3, <1>4, <1>5 DEF IInv

LEMMA EmisionInvariante ==
    ASSUME E!Supuestos
    PROVE  E!Spec => []IInv
<1>1. E!Init => IInv
  BY Inicial
<1>2. IInv /\ [E!Next]_(E!vars) => IInv'
  <2> SUFFICES ASSUME IInv, [E!Next]_(E!vars) PROVE IInv'
    OBVIOUS
  <2>1. Tipos /\ Rutas /\ Unicos /\ Respondido /\ CupoVale
    BY DEF IInv
  <2>2. TiposPc' /\ TiposLeido' /\ TiposDatos'
    BY <2>1, TiposPcPaso, TiposLeidoPaso, TiposDatosPaso
  <2>3. Rutas' /\ Unicos' /\ Respondido' /\ CupoVale'
    BY <2>1, RutasPaso, UnicosPaso, RespondidoPaso, CupoPaso
  <2> QED
    BY <2>2, <2>3 DEF IInv, Tipos
<1> QED
  BY <1>1, <1>2, PTL DEF E!Spec

\* Type correctness of the issue of documents, for any requests, series and renewals.
THEOREM EmisionTipos ==
    ASSUME E!Supuestos
    PROVE  E!Spec => []E!TypeOK
<1>1. IInv => E!TypeOK
  <2> SUFFICES ASSUME IInv PROVE E!TypeOK
    OBVIOUS
  <2>1. Tipos /\ CupoVale
    BY DEF IInv
  <2>2. \A d \in docs : d.tipo \in {"invoice", "pos", "nota"} /\ d.num \in Nat
    BY <2>1 DEF Tipos, TiposDatos, Docs
  <2>3. \A p \in Peticiones :
          eLeido[p].cobro \in {"no", "monthly", "credit"} /\ eLeido[p].intento \in 1..E!MAX_INTENTOS
    BY <2>1 DEF Tipos, TiposLeido, Leidos, E!Actores
  <2>4. \A s \in Series : resol[s].desde \in Nat \ {0} /\ resol[s].hasta \in Nat
    BY <2>1 DEF Tipos, TiposDatos
  <2>5. cupo.creditos \in 0..Creditos
    <3> DEFINE b == Cardinality(ConCobro({"credit"}))
               n == Cardinality(docs)
    <3>1. b \in Nat /\ n \in Nat /\ cupo.creditos \in Int /\ Creditos \in Nat
      BY <2>1, FS_Subset, FS_CardinalityType, MismasFinitas
      DEF Tipos, TiposDatos, ConCobro, E!Supuestos
    <3>2. Creditos - cupo.creditos - b \in 0..n /\ cupo.creditos >= 0
      BY <2>1 DEF CupoVale, CupoEn
    <3> HIDE DEF b, n
    <3> QED
      BY <3>1, <3>2
  <2> QED
    BY <2>1, <2>2, <2>3, <2>4, <2>5, MismasFinitas DEF E!TypeOK, Tipos, TiposPc, TiposDatos
<1> QED
  BY <1>1, EmisionInvariante, PTL

\* Whoever was answered for a sale, or for an operation, was answered with one document:
\* it follows from what the unique indexes leave in (Unicos) and from what an answer
\* carries (Respondido), whatever fails or is cut.
THEOREM UnDocumentoSiempre ==
    ASSUME E!Supuestos
    PROVE  E!Spec => []E!UnDocumentoPorVenta
<1>1. IInv => E!UnDocumentoPorVenta
  BY DEF IInv, Unicos, Respondido, EsSuyo, E!UnDocumentoPorVenta
<1> QED
  BY <1>1, EmisionInvariante, PTL

\* The quota charged is what was issued plus what is being issued, and the credits paid
\* what the plan did not, for any requests of any series, failures and cuts.
THEOREM CupoSiempreCuadra ==
    ASSUME E!Supuestos
    PROVE  E!Spec => []E!CupoCuadra
<1>1. IInv => E!CupoCuadra
  <2> SUFFICES ASSUME IInv PROVE E!CupoCuadra
    OBVIOUS
  <2> DEFINE A == ConCobro({"monthly"})
             B == ConCobro({"credit"})
             a == Cardinality(A)
             b == Cardinality(B)
             n == Cardinality(docs)
  <2>1. IsFiniteSet(A) /\ IsFiniteSet(B) /\ A \cap B = {}
    BY FS_Subset, MismasFinitas DEF E!Supuestos, ConCobro
  <2>2. ConCobro({"monthly", "credit"}) = A \cup B
    BY DEF ConCobro
  <2>3. a \in Nat /\ b \in Nat
    BY <2>1, FS_CardinalityType
  <2>4. Cardinality(ConCobro({"monthly", "credit"})) = a + b
    <3>1. Cardinality(A \cup B) = a + b - Cardinality(A \cap B)
      BY <2>1, FS_Union
    <3>2. Cardinality(A \cap B) = 0
      BY <2>1, FS_EmptySet
    <3>3. Cardinality(ConCobro({"monthly", "credit"})) = Cardinality(A \cup B)
      BY <2>2
    <3> HIDE DEF A, B
    <3> DEFINE x == Cardinality(A \cup B)
               y == Cardinality(A \cap B)
    <3>4. x = a + b - y /\ y = 0
      BY <3>1, <3>2
    <3> HIDE DEF x, y, a, b
    <3>5. x = a + b
      BY <2>3, <3>4
    <3> QED
      BY <3>3, <3>5 DEF x
  <2>5. n \in Nat /\ cupo.usados \in Nat /\ cupo.creditos \in Int
    BY FS_CardinalityType DEF IInv, Tipos, TiposDatos
  <2>6. CupoEn(mes, cupo.usados, cupo.creditos, n, a, b)
    BY DEF IInv, CupoVale
  <2> HIDE DEF a, b, n
  <2>7. Creditos - cupo.creditos - b \in 0..n
    BY <2>6 DEF CupoEn
  <2>8. mes = 1 => cupo.usados = n + (a + b) /\ n - (Creditos - cupo.creditos - b) <= Base
    BY <2>3, <2>5, <2>6 DEF CupoEn, E!Supuestos
  <2> USE DEF a, b, n
  <2> QED
    BY <2>4, <2>7, <2>8, MismasFinitas DEF E!CupoCuadra, ConCobro
<1> QED
  BY <1>1, EmisionInvariante, PTL

=============================================================================
