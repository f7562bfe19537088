-------------------------- MODULE TransmisionDian --------------------------
(****************************************************************************)
(* The transmission of ONE electronic document to the tax authority         *)
(* (transmision-dian.service.ts): users who send it and crons that send it  *)
(* again, under a lock that expires; requests and answers that are lost or  *)
(* late; processes that die; and the contingency, which signs the same      *)
(* document again (type 04/08) after three sends without an answer and puts *)
(* the new XML over the old one in the bucket.                              *)
(*                                                                          *)
(* An XML is the number of its signature.  The authority is external: it    *)
(* validates each XML once, accepts at most one for the number, and answers *)
(* "already processed" after that.                                          *)
(****************************************************************************)
EXTENDS Naturals, FiniteSets

CONSTANTS
    Usuarios, Barridos,
    Produccion,                 \* only in production there is contingency
    Fallas,                     \* what may also fail once a 04/08 is declared: its answers
                                \* ("red"), the bucket, the process ("corte"), or the original
                                \* may still arrive ("tarde")
    Nadie,
    Cortan,                     \* steps where the process may be killed
    MaxFirmas,                  \* bound on signatures
    MaxPerdidas,                \* bound on requests or answers lost or late
    MaxCortes                   \* bound on killed processes

VARIABLES
    doc,        \* the document
    bloqueo,    \* who holds bloqueoTransmision
    bucket,     \* documento.xml and original.xml
    firmas,     \* signatures made
    transito,   \* XMLs that may still reach the authority
    dian,       \* what the authority decided
    entregado,  \* the XML delivered to the buyer with the acceptance
    pc, leido, perdidas, cortes

vars == <<doc, bloqueo, bucket, firmas, transito, dian, entregado, pc, leido, perdidas, cortes>>

Actores == Usuarios \cup Barridos

\* What the constants are: Nadie is none of the actors, and the bounds are numbers.
Supuestos ==
    /\ Nadie \notin Actores
    /\ Produccion \in BOOLEAN
    /\ MaxFirmas \in Nat /\ MaxPerdidas \in Nat /\ MaxCortes \in Nat

Xml == 0..MaxFirmas
Pasos == {"tomar", "firmar", "firmado", "marcar", "enviar", "consultar", "declarar",
    "reemplazar", "declarada", "restaurar", "guardar", "entregar", "soltar"}
Estados == {"draft", "signed", "sent", "accepted", "rejected", "contingency"}
INTENTOS == 3   \* INTENTOS_ANTES_DE_CONTINGENCIA

SinLeer == [estado |-> "draft", xml |-> 0, cont |-> FALSE, declara |-> FALSE,
    primera |-> FALSE, envios |-> 0, r |-> "red", respondio |-> FALSE]

\* The records that the document, the bucket, the authority and each actor keep.
Documentos == [estado : Estados, xml : BOOLEAN, respondida : BOOLEAN,
    contingencia : BOOLEAN, contRespondida : BOOLEAN]
Bodegas == [xml : Xml, original : Xml]
Veredictos == [aceptado : Xml, rechazados : SUBSET (1..MaxFirmas)]
Lecturas == [estado : Estados, xml : Xml, cont : BOOLEAN, declara : BOOLEAN,
    primera : BOOLEAN, envios : 0..INTENTOS,
    r : {"red", "valida", "invalida", "ya", "pendiente"}, respondio : BOOLEAN]

TypeOK ==
    /\ doc \in Documentos
    /\ bloqueo \in Actores \cup {Nadie}
    /\ bucket \in Bodegas
    /\ firmas \in Xml
    /\ transito \subseteq 1..MaxFirmas
    /\ dian \in Veredictos
    /\ entregado \in Xml
    /\ pc \in [Actores -> Pasos \cup {"libre"}]
    /\ leido \in [Actores -> Lecturas]
    /\ perdidas \in 0..MaxPerdidas /\ cortes \in 0..MaxCortes

Init ==
    /\ doc = [estado |-> "draft", xml |-> FALSE, respondida |-> FALSE,
              contingencia |-> FALSE, contRespondida |-> FALSE]
    /\ bloqueo = Nadie
    /\ bucket = [xml |-> 0, original |-> 0]
    /\ firmas = 0 /\ transito = {}
    /\ dian = [aceptado |-> 0, rechazados |-> {}]
    /\ entregado = 0
    /\ pc = [a \in Actores |-> "libre"]
    /\ leido = [a \in Actores |-> SinLeer]
    /\ perdidas = 0 /\ cortes = 0

-----------------------------------------------------------------------------
Va(a, paso) == pc' = [pc EXCEPT ![a] = paso]
Pierde == perdidas < MaxPerdidas /\ perdidas' = perdidas + 1

\* Mutant: a lock never expires.
VencidoNunca == bloqueo = Nadie

\* The lock outlives the longest function: whoever holds an expired one is gone.
Vencido == bloqueo # Nadie => pc[bloqueo] \in {"libre", "tomar"}

\* escribir: every write is conditioned on the status and on the own lock.
Tiene(a, estado) == doc.estado = estado /\ bloqueo = a

-----------------------------------------------------------------------------
(* ejecutar *)

Transmitir(u) ==
    /\ pc[u] = "libre" /\ doc.estado # "accepted"
    /\ leido' = [leido EXCEPT ![u] = [SinLeer EXCEPT !.estado = doc.estado]]
    /\ Va(u, "tomar")
    /\ UNCHANGED <<doc, bloqueo, bucket, firmas, transito, dian, entregado, perdidas, cortes>>

\* reconsultarPendientes and transmitirContingencias.
Barrer(b) ==
    /\ pc[b] = "libre" /\ Vencido
    /\ \/ doc.estado = "sent"
       \/ doc.contingencia /\ doc.estado \in {"contingency", "signed"}
    /\ leido' = [leido EXCEPT ![b] = [SinLeer EXCEPT !.estado = doc.estado]]
    /\ Va(b, "tomar")
    /\ UNCHANGED <<doc, bloqueo, bucket, firmas, transito, dian, entregado, perdidas, cortes>>

\* What follows the lock: sign, or send the XML that is already in the bucket.
TrasTomar(a) ==
    IF doc.estado \in {"draft", "rejected"} \/ (doc.estado = "signed" /\ ~doc.xml)
    THEN Va(a, "firmar") /\ UNCHANGED leido
    ELSE /\ leido' = [leido EXCEPT ![a].xml = bucket.xml,
                                   ![a].cont = doc.estado = "contingency"]
         /\ Va(a, "marcar")

\* tomarBloqueo, conditioned on the status that was read.
Tomar(a) ==
    /\ pc[a] = "tomar"
    /\ IF doc.estado = leido[a].estado /\ Vencido
       THEN bloqueo' = a /\ TrasTomar(a)
       ELSE Va(a, "libre") /\ UNCHANGED <<bloqueo, leido>>
    /\ UNCHANGED <<doc, bucket, firmas, transito, dian, entregado, perdidas, cortes>>

\* Build and sign, over documento.xml; without certificate nothing changes.
Firmar(a) ==
    /\ pc[a] = "firmar"
    /\ \/ /\ firmas < MaxFirmas /\ firmas' = firmas + 1
          /\ bucket' = [bucket EXCEPT !.xml = firmas']
          /\ leido' = [leido EXCEPT ![a].xml = firmas']
          /\ Va(a, "firmado")
       \/ Va(a, "soltar") /\ UNCHANGED <<firmas, bucket, leido>>
    /\ UNCHANGED <<doc, bloqueo, transito, dian, entregado, perdidas, cortes>>

Firmado(a) ==
    /\ pc[a] = "firmado"
    /\ IF Tiene(a, leido[a].estado)
       THEN /\ doc' = [doc EXCEPT !.estado = "signed", !.xml = TRUE]
            /\ leido' = [leido EXCEPT ![a].estado = "signed"]
            /\ Va(a, "marcar")
       ELSE Va(a, "soltar") /\ UNCHANGED <<doc, leido>>
    /\ UNCHANGED <<bloqueo, bucket, firmas, transito, dian, entregado, perdidas, cortes>>

Prepara(a) == [leido EXCEPT
    ![a].declara = Produccion /\ ~doc.contingencia /\ ~doc.respondida,
    ![a].primera = leido[a].cont /\ ~doc.contRespondida]

\* Mutant: the request leaves before the document is marked.
MarcarNunca(a) ==
    /\ pc[a] = "marcar"
    /\ leido' = Prepara(a) /\ Va(a, "enviar")
    /\ UNCHANGED <<doc, bloqueo, bucket, firmas, transito, dian, entregado, perdidas, cortes>>

\* "sent" before the network; signing may leave too little time to send.
Marcar(a) ==
    /\ pc[a] = "marcar"
    /\ \/ /\ Tiene(a, leido[a].estado)
          /\ doc' = [doc EXCEPT !.estado = "sent"]
          /\ leido' = Prepara(a)
          /\ Va(a, "enviar")
       \/ /\ ~Tiene(a, leido[a].estado) \/ leido[a].estado = "signed"
          /\ Va(a, "soltar") /\ UNCHANGED <<doc, leido>>
    /\ UNCHANGED <<bloqueo, bucket, firmas, transito, dian, entregado, perdidas, cortes>>

-----------------------------------------------------------------------------
(* The authority, and the calls to it *)

Acepta(x) == dian' = [dian EXCEPT !.aceptado = x]
Rechaza(x) == dian' = [dian EXCEPT !.rechazados = @ \cup {x}]

\* A request that was late, or whose answer was lost, is processed.
Llega(x) ==
    /\ x \in transito
    /\ doc.contingencia => (IF x = bucket.xml THEN "red" ELSE "tarde") \in Fallas
    /\ transito' = transito \ {x}
    /\ \/ dian.aceptado # 0 /\ UNCHANGED dian
       \/ dian.aceptado = 0 /\ x \notin dian.rechazados /\ Acepta(x)
       \/ dian.aceptado = 0 /\ Rechaza(x)
    /\ UNCHANGED <<doc, bloqueo, bucket, firmas, entregado, pc, leido, perdidas, cortes>>

Responde(a, r) ==
    LET envios == leido[a].envios + 1
        declara == leido[a].declara /\ r = "red"
    IN  /\ leido' = [leido EXCEPT ![a].r = r, ![a].envios = envios, ![a].respondio = r # "red"]
        /\ Va(a, CASE declara /\ envios < INTENTOS -> "enviar"
                   [] declara /\ envios = INTENTOS -> "declarar"
                   [] r = "ya" -> "consultar"
                   [] OTHER -> "guardar")

\* One send; without an answer and with a contingency to declare, up to three.
Enviar(a) ==
    LET x == leido[a].xml IN
    /\ pc[a] = "enviar"
    /\ \/ /\ dian.aceptado # 0 /\ Responde(a, "ya")
          /\ UNCHANGED <<dian, transito, perdidas>>
       \/ /\ dian.aceptado = 0 /\ x \notin dian.rechazados
          /\ Acepta(x) /\ Responde(a, "valida") /\ UNCHANGED <<transito, perdidas>>
       \/ /\ dian.aceptado = 0
          /\ Rechaza(x) /\ Responde(a, "invalida") /\ UNCHANGED <<transito, perdidas>>
       \/ Pierde /\ Responde(a, "red") /\ UNCHANGED <<transito, dian>>
       \/ /\ Pierde /\ (leido[a].cont => "red" \in Fallas)
          /\ transito' = transito \cup {x}
          /\ \/ Responde(a, "red")
             \/ dian.aceptado = 0 /\ Responde(a, "pendiente")
          /\ UNCHANGED dian
    /\ UNCHANGED <<doc, bloqueo, bucket, firmas, entregado, cortes>>

\* "Already processed": the verdict is asked by the unique code.
Consultar(a) ==
    /\ pc[a] = "consultar"
    /\ \/ leido' = [leido EXCEPT ![a].r = "valida"] /\ UNCHANGED perdidas
       \/ /\ Pierde /\ (leido[a].cont => "red" \in Fallas)
          /\ leido' = [leido EXCEPT ![a].r = "red"]
    /\ Va(a, IF leido[a].primera THEN "restaurar" ELSE "guardar")
    /\ UNCHANGED <<doc, bloqueo, bucket, firmas, transito, dian, entregado, cortes>>

-----------------------------------------------------------------------------
(* declararContingenciaDian *)

\* The 04/08 is built and signed, and what was sent is kept apart...
Declarar(a) ==
    /\ pc[a] = "declarar"
    /\ \/ /\ firmas < MaxFirmas /\ firmas' = firmas + 1
          /\ bucket' = [bucket EXCEPT !.original = leido[a].xml]
          /\ Va(a, "reemplazar")
       \/ Va(a, "guardar") /\ UNCHANGED <<firmas, bucket>>
    /\ UNCHANGED <<doc, bloqueo, transito, dian, entregado, leido, perdidas, cortes>>

\* ... before documento.xml is replaced...
Reemplazar(a) ==
    /\ pc[a] = "reemplazar"
    /\ bucket' = [bucket EXCEPT !.xml = firmas]
    /\ Va(a, "declarada")
    /\ UNCHANGED <<doc, bloqueo, firmas, transito, dian, entregado, leido, perdidas, cortes>>

\* ... and the document waits in the queue of the contingency.
Declarada(a) ==
    /\ pc[a] = "declarada"
    /\ IF Tiene(a, "sent")
       THEN doc' = [doc EXCEPT !.estado = "contingency", !.contingencia = TRUE] /\ Va(a, "soltar")
       ELSE Va(a, "guardar") /\ UNCHANGED doc
    /\ UNCHANGED <<bloqueo, bucket, firmas, transito, dian, entregado, leido, perdidas, cortes>>

\* Mutant: the XML of the contingency stays.
RestaurarNunca(a) ==
    /\ pc[a] = "restaurar" /\ Va(a, "guardar")
    /\ UNCHANGED <<doc, bloqueo, bucket, firmas, transito, dian, entregado, leido, perdidas, cortes>>

\* "Already processed" as the first answer to a 04/08: the authority had the
\* original, which becomes documento.xml again.
Restaurar(a) ==
    /\ pc[a] = "restaurar"
    /\ \/ bucket' = [bucket EXCEPT !.xml = bucket.original]
       \/ "bucket" \in Fallas /\ UNCHANGED bucket
    /\ Va(a, "guardar")
    /\ UNCHANGED <<doc, bloqueo, firmas, transito, dian, entregado, leido, perdidas, cortes>>

-----------------------------------------------------------------------------
(* The verdict *)

\* Mutant: no answer is taken for a rejection.
DestinoSinRed(a) ==
    CASE leido[a].r = "valida" -> "accepted" [] leido[a].r \in {"invalida", "red"} -> "rejected"
      [] OTHER -> "sent"

\* estadoTrasRespuesta: only a verdict accepts or rejects.
Destino(a) ==
    CASE leido[a].cont /\ leido[a].r = "red" -> "contingency"
      [] leido[a].r = "valida" -> "accepted"
      [] leido[a].r = "invalida" -> "rejected"
      [] OTHER -> "sent"

Guardar(a) ==
    /\ pc[a] = "guardar"
    /\ IF Tiene(a, "sent")
       THEN /\ doc' = [doc EXCEPT !.estado = Destino(a),
                  !.respondida = @ \/ leido[a].respondio,
                  !.contRespondida = @ \/ (leido[a].cont /\ leido[a].respondio)]
            /\ Va(a, IF Destino(a) = "accepted" THEN "entregar" ELSE "soltar")
       ELSE Va(a, "soltar") /\ UNCHANGED doc
    /\ UNCHANGED <<bloqueo, bucket, firmas, transito, dian, entregado, leido, perdidas, cortes>>

\* entregar: the documento.xml of the moment, with the authority's answer.
Entregar(a) ==
    /\ pc[a] = "entregar"
    /\ entregado' = bucket.xml
    /\ Va(a, "soltar")
    /\ UNCHANGED <<doc, bloqueo, bucket, firmas, transito, dian, leido, perdidas, cortes>>

Soltar(a) ==
    /\ pc[a] = "soltar"
    /\ bloqueo' = IF bloqueo = a THEN Nadie ELSE bloqueo
    /\ leido' = [leido EXCEPT ![a] = SinLeer]
    /\ Va(a, "libre")
    /\ UNCHANGED <<doc, bucket, firmas, transito, dian, entregado, perdidas, cortes>>

-----------------------------------------------------------------------------
EnContingencia(a) == leido[a].cont \/ pc[a] \in {"declarar", "reemplazar", "declarada"}

Corte(a) ==
    /\ pc[a] \in Cortan /\ cortes < MaxCortes
    /\ EnContingencia(a) => "corte" \in Fallas
    /\ cortes' = cortes + 1
    /\ leido' = [leido EXCEPT ![a] = SinLeer]
    /\ Va(a, "libre")
    /\ UNCHANGED <<doc, bloqueo, bucket, firmas, transito, dian, entregado, perdidas>>

Sigue(a) ==
    \/ Tomar(a) \/ Firmar(a) \/ Firmado(a) \/ Marcar(a) \/ Enviar(a) \/ Consultar(a)
    \/ Declarar(a) \/ Reemplazar(a) \/ Declarada(a) \/ Restaurar(a) \/ Guardar(a)
    \/ Entregar(a) \/ Soltar(a)

Next ==
    \/ \E u \in Usuarios : Transmitir(u)
    \/ \E b \in Barridos : Barrer(b)
    \/ \E a \in Actores : Sigue(a) \/ Corte(a)
    \/ \E x \in transito : Llega(x)

Spec == Init /\ [][Next]_vars

(* A transmission under way goes on and the cron keeps sweeping.             *)
FairSpec ==
    /\ Spec
    /\ \A a \in Actores : WF_vars(Sigue(a))
    /\ \A b \in Barridos : WF_vars(Barrer(b))

-----------------------------------------------------------------------------
(* Properties *)

\* "A document is never transmitted without being recorded": whatever is lost
\* and whoever dies, once an XML left, the document is not back where it would
\* be signed again, unless the authority rejected it.
EnviadoQuedaRegistrado ==
    \/ transito # {} \/ dian.aceptado # 0 \/ dian.rechazados # {}
    => doc.estado # "draft" /\ (doc.estado = "signed" => dian.rechazados # {})

\* A verdict is written only if the authority gave it: no lost answer, takeover
\* or late request makes an accepted document of one it did not accept, nor
\* rejects one before it did.
VeredictoDeLaDian ==
    /\ doc.estado = "accepted" => dian.aceptado # 0
    /\ doc.estado = "rejected" => dian.rechazados # {}

\* Two transmissions are never past the lock together, although locks expire.
UnoTransmite ==
    \A a, b \in Actores :
        pc[a] \notin {"libre", "tomar"} /\ pc[b] \notin {"libre", "tomar"} => a = b

\* "So that the delivery carries the one the authority validated": documento.xml
\* of an accepted document, and what the buyer got, is the accepted XML.
XmlEsElValidado ==
    doc.estado = "accepted" =>
        bucket.xml = dian.aceptado /\ entregado \in {0, dian.aceptado}

\* A document in flight or in the queue of the contingency gets its verdict.
EnVueloTermina ==
    doc.estado \in {"sent", "contingency"} ~> doc.estado \in {"accepted", "rejected"}
=============================================================================
