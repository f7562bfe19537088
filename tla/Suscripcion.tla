----------------------------- MODULE Suscripcion -----------------------------
(*****************************************************************************)
(* The subscription of ONE company and its charges (billing.service.ts): the *)
(* owner subscribes and cancels, sweeps charge renewals, retry what was      *)
(* declined and withdraw the access, and webhooks, retried and out of order, *)
(* bring what the bank decided.  An approved payment is applied under a      *)
(* lease, effect by effect.                                                  *)
(*                                                                           *)
(* A day is the unit of time.  `sub.save()` writes only the paths the copy   *)
(* changed (mongoose); everything else is an update with its condition.      *)
(*****************************************************************************)
EXTENDS Integers, Sequences, FiniteSets

CONSTANTS
    Altas,                      \* requests to subscribe
    Compras,                    \* requests to buy a package of documents
    Cancelaciones,              \* requests to cancel
    Barridos,                   \* sweeps, of several instances
    Avisos,                     \* webhook deliveries and queries of the owner
    Nadie,
    Ciclo,                      \* days of the cycle that is paid
    MaxReintentos,              \* MAX_CHARGE_RETRIES
    BancoLento,                 \* may an answer of the bank take a day to be applied
    Cruces,                     \* may a cancellation meet another request
    Fallan,                     \* steps that may fail
    Cortan,                     \* steps where the process may be killed
    MaxDia, MaxPagos, MaxFallas, MaxCortes  \* bounds

VARIABLES
    dia,
    sub,        \* the subscription
    empresa,    \* status of the company and its document credits; and, for the
                \* properties, why it was last suspended (motivo)
    pagos,      \* the payments, in order of creation
    avances,    \* how many periods each payment opened
    pc, leido,  \* the next await of each actor, and what it read
    fallas, cortes

vars == <<dia, sub, empresa, pagos, avances, pc, leido, fallas, cortes>>

Actores == Altas \cup Compras \cup Cancelaciones \cup Barridos \cup Avisos
Fases == {"reconciliar", "retomar", "cobrar", "mora", "retirar"}
PasosCobro == {"crear", "transar", "anotar"}
PasosPago == {"reservar", "efecto", "leerSub", "marcarEfecto", "guardarPeriodo", "marcar", "cerrar",
    "liberar", "declinar", "leerMora"}
PasosSub == {"reservarCobro", "suspender", "guardarSub"}
Aplicando == PasosPago \ {"reservar", "declinar", "leerMora"}

Ninguno == 0    \* no payment, no date
SinSub == [estado |-> "no", hasta |-> 0, proximo |-> 0, intento |-> 0, intentoDia |-> 0,
    fallidos |-> 0, sinAcceso |-> FALSE]
SinLeer == [pago |-> Ninguno, sub |-> SinSub, nuevo |-> SinSub, fase |-> "nada",
    lista |-> {}, hechos |-> {}, ahora |-> 0, r |-> "no"]

Ids == DOMAIN pagos

\* Nobody is two actors, and the bounds are bounds.
Supuestos ==
    /\ Nadie \notin Actores
    /\ Barridos \cap (Altas \cup Compras \cup Cancelaciones \cup Avisos) = {}
    /\ Ciclo \in Nat \ {0} /\ MaxDia \in Nat \ {0} /\ MaxReintentos \in Nat
    /\ MaxPagos \in Nat /\ MaxFallas \in Nat /\ MaxCortes \in Nat

TypeOK ==
    /\ dia \in 1..MaxDia
    /\ sub.estado \in {"no", "pending", "active", "past_due", "canceled"}
    /\ sub.hasta \in Nat /\ sub.proximo \in Nat /\ sub.fallidos \in Nat
    /\ empresa.estado \in {"trial", "active", "suspended"}
    /\ empresa.motivo \in {"nada", "plazo", "mora", "vieja"}
    /\ empresa.creditos \in Nat /\ empresa.acreditados \subseteq Ids
    /\ Len(pagos) <= MaxPagos /\ avances \in [1..MaxPagos -> Nat]
    /\ \A k \in Ids :
         /\ pagos[k].tipo \in {"subscription", "renewal", "docPackage"}
         /\ pagos[k].estado \in {"pending", "approved", "declined"}
         /\ pagos[k].banco \in {"no", "pending", "approved", "declined"}
         /\ pagos[k].dueno \in Actores \cup {Nadie}
         /\ pagos[k].efectos \subseteq {"plan", "period", "docCredits"}
    /\ pc \in [Actores -> {"libre", "fin"} \cup Fases \cup PasosCobro \cup PasosPago \cup PasosSub]
    /\ fallas \in 0..MaxFallas /\ cortes \in 0..MaxCortes

Init ==
    /\ dia = 1 /\ sub = SinSub
    /\ empresa = [estado |-> "trial", creditos |-> 0, acreditados |-> {}, motivo |-> "nada"]
    /\ pagos = <<>> /\ avances = [k \in 1..MaxPagos |-> 0]
    /\ pc = [a \in Actores |-> "libre"]
    /\ leido = [a \in Actores |-> SinLeer]
    /\ fallas = 0 /\ cortes = 0

-----------------------------------------------------------------------------
Va(a, paso) == pc' = [pc EXCEPT ![a] = paso]
Falla(paso) == paso \in Fallan /\ fallas < MaxFallas /\ fallas' = fallas + 1
Bien == UNCHANGED fallas

\* A sweep goes on with its next phase; the others answered.
Siguiente(fase) ==
    CASE fase = "cobrar" -> "mora" [] fase = "mora" -> "retirar" [] OTHER -> fase
\* What is left of a copy when payment k is done with.
Queda(a, k) ==
    IF a \in Barridos
    THEN [SinLeer EXCEPT !.ahora = leido[a].ahora, !.fase = leido[a].fase,
                         !.lista = leido[a].lista \ {k}]
    ELSE SinLeer
Acaba(a, k) ==
    /\ Va(a, IF a \in Barridos THEN Siguiente(leido[a].fase) ELSE "fin")
    /\ leido' = [leido EXCEPT ![a] = Queda(a, k)]
Vuelve(a) == Acaba(a, leido[a].pago)

\* save() of a copy: the paths it changed.
Guardado(viejo, nuevo) ==
    [c \in DOMAIN sub |-> IF nuevo[c] # viejo[c] THEN nuevo[c] ELSE sub[c]]

\* nextChargeFrom: the next date of the cycle that is still to come.
ProximoDesde(fecha) ==
    LET siguientes == {fecha + n * Ciclo : n \in 1..MaxDia + 1} IN
    CHOOSE f \in siguientes : f > dia /\ \A g \in siguientes : g > dia => f <= g

\* syncTransaction, with the status r the bank gave.
Sync(a, k, r) ==
    IF r # "pending" /\ ~pagos[k].aplicado
    THEN /\ Va(a, IF r = "approved" THEN "reservar" ELSE "declinar")
         /\ leido' = [leido EXCEPT ![a] = [leido[a] EXCEPT !.pago = k, !.sub = SinSub, !.r = "no"]]
    ELSE Acaba(a, k)

Entra(a) ==
    /\ pc[a] = "libre"
    /\ Cruces \/ \A c \in Cancelaciones : pc[c] \in {"libre", "fin"}

-----------------------------------------------------------------------------
(* subscribe and purchaseDocs *)

Alta(u) ==
    /\ Entra(u) /\ u \in Altas
    /\ sub' = [sub EXCEPT !.estado = "pending", !.fallidos = 0,
                          !.intento = @ + 1, !.intentoDia = dia]
    /\ leido' = [leido EXCEPT ![u].r = "subscription"]
    /\ Va(u, "crear")
    /\ UNCHANGED <<dia, empresa, pagos, avances, fallas, cortes>>

Comprar(u) ==
    /\ Entra(u) /\ u \in Compras /\ sub.estado \notin {"no", "canceled"}
    /\ leido' = [leido EXCEPT ![u].r = "docPackage"]
    /\ Va(u, "crear")
    /\ UNCHANGED <<dia, sub, empresa, pagos, avances, fallas, cortes>>

\* payments.create; the reference is unique: one per request, and for a renewal
\* one per day and attempt.
Referencia(a) ==
    IF a \in Barridos THEN <<leido[a].sub.intentoDia, leido[a].sub.fallidos>> ELSE <<a>>

CrearPago(a) ==
    /\ pc[a] = "crear" /\ Len(pagos) < MaxPagos
    /\ IF \E k \in Ids : pagos[k].ref = Referencia(a)
       THEN Vuelve(a) /\ UNCHANGED pagos
       ELSE /\ pagos' = Append(pagos, [tipo |-> leido[a].r, ref |-> Referencia(a),
                 estado |-> "pending", tx |-> FALSE, banco |-> "no", aplicado |-> FALSE,
                 dueno |-> Nadie, efectos |-> {}, paga |-> leido[a].sub.hasta])
            /\ leido' = [leido EXCEPT ![a].pago = Len(pagos) + 1]
            /\ Va(a, "transar")
    /\ UNCHANGED <<dia, sub, empresa, avances, fallas, cortes>>

\* wompi.createTransaction: refused, taken with its answer lost, or taken; the
\* bank decides later or at once (sandbox).
Transar(a) ==
    LET k == leido[a].pago IN
    /\ pc[a] = "transar"
    /\ \/ /\ Falla("transar") /\ Vuelve(a)
          /\ \E r \in {"no", "pending"} : pagos' = [pagos EXCEPT ![k].banco = r]
       \/ /\ \E r \in {"pending", "approved", "declined"} :
               /\ pagos' = [pagos EXCEPT ![k].banco = r]
               /\ leido' = [leido EXCEPT ![a].r = r]
          /\ Va(a, "anotar") /\ Bien
    /\ UNCHANGED <<dia, sub, empresa, avances, cortes>>

Anotar(a) ==
    LET k == leido[a].pago IN
    /\ pc[a] = "anotar"
    /\ pagos' = [pagos EXCEPT ![k].tx = TRUE]
    /\ Sync(a, k, leido[a].r)
    /\ UNCHANGED <<dia, sub, empresa, avances, fallas, cortes>>

-----------------------------------------------------------------------------
(* handleWebhook and syncPayment: both ask the API for the real status. *)

Aviso(w) ==
    /\ Entra(w) /\ w \in Avisos
    /\ \E k \in Ids :
         /\ pagos[k].banco \in {"approved", "declined"}
         /\ pagos' = [pagos EXCEPT ![k].tx = TRUE]
         /\ Sync(w, k, pagos[k].banco)
    /\ UNCHANGED <<dia, sub, empresa, avances, fallas, cortes>>

-----------------------------------------------------------------------------
(* applyApproved *)

\* The lease is longer than any request: a holder that is not applying is gone.
Caduca(k) == pagos[k].dueno # Nadie =>
    LET b == pagos[k].dueno IN pc[b] \notin Aplicando \/ leido[b].pago # k

\* Mutant: the lease is not part of the condition.
ReservarSinLease(a) ==
    LET k == leido[a].pago IN
    /\ pc[a] = "reservar"
    /\ IF ~pagos[k].aplicado
       THEN /\ pagos' = [pagos EXCEPT ![k].estado = "approved", ![k].dueno = a]
            /\ leido' = [leido EXCEPT ![a].hechos = pagos[k].efectos]
            /\ Va(a, "efecto")
       ELSE Vuelve(a) /\ UNCHANGED pagos
    /\ UNCHANGED <<dia, sub, empresa, avances, fallas, cortes>>

Reservar(a) ==
    LET k == leido[a].pago IN
    /\ pc[a] = "reservar"
    /\ IF ~pagos[k].aplicado /\ Caduca(k)
       THEN /\ pagos' = [pagos EXCEPT ![k].estado = "approved", ![k].dueno = a]
            /\ leido' = [leido EXCEPT ![a].hechos = pagos[k].efectos]
            /\ Va(a, "efecto")
       ELSE Vuelve(a) /\ UNCHANGED pagos
    /\ UNCHANGED <<dia, sub, empresa, avances, fallas, cortes>>

\* The plan is the same written again, and the company counts the credits of a
\* payment once (addDocCredits).
Acreditar(k) ==
    IF k \in empresa.acreditados THEN empresa
    ELSE [empresa EXCEPT !.creditos = @ + 1, !.acreditados = @ \cup {k}]

\* Mutant: the credits are added whatever was credited before.
AcreditarSinCondicion(k) ==
    [empresa EXCEPT !.creditos = @ + 1, !.acreditados = @ \cup {k}]

Efecto(a) ==
    LET k == leido[a].pago
        efecto == IF pagos[k].tipo = "docPackage" THEN "docCredits" ELSE "plan"
    IN  /\ pc[a] = "efecto"
        /\ \/ /\ efecto \in leido[a].hechos
              /\ Va(a, IF efecto = "docCredits" THEN "cerrar" ELSE "leerSub")
              /\ Bien /\ UNCHANGED <<empresa, leido>>
           \/ /\ efecto \notin leido[a].hechos
              /\ empresa' = IF efecto = "docCredits" THEN Acreditar(k)
                            ELSE [empresa EXCEPT !.estado = "active"]
              /\ leido' = [leido EXCEPT ![a].r = efecto]
              /\ Va(a, "marcarEfecto") /\ Bien
           \/ /\ efecto \notin leido[a].hechos
              /\ Falla("efecto") /\ Va(a, "liberar") /\ UNCHANGED <<empresa, leido>>
        /\ UNCHANGED <<dia, sub, pagos, avances, cortes>>

\* advancePeriod: the copy of the subscription...
LeerSub(a) ==
    /\ pc[a] = "leerSub"
    /\ IF "period" \in leido[a].hechos
       THEN Va(a, "cerrar") /\ UNCHANGED leido
       ELSE /\ leido' = [leido EXCEPT ![a].sub = sub]
            /\ Va(a, "guardarPeriodo")
    /\ UNCHANGED <<dia, sub, empresa, pagos, avances, fallas, cortes>>

\* ... with the period after the one in course, or from today.
GuardarPeriodo(a) ==
    LET s == leido[a].sub
        fin == (IF s.hasta > dia THEN s.hasta ELSE dia) + Ciclo
    IN  /\ pc[a] = "guardarPeriodo"
        /\ \/ /\ sub' = Guardado(s, [s EXCEPT !.estado = "active", !.hasta = fin,
                                              !.proximo = fin, !.fallidos = 0])
              /\ avances' = [avances EXCEPT ![leido[a].pago] = @ + 1]
              /\ leido' = [leido EXCEPT ![a].r = "period", ![a].sub = SinSub]
              /\ Va(a, "marcar") /\ Bien
           \/ /\ Falla("guardarPeriodo") /\ Va(a, "liberar")
              /\ UNCHANGED <<sub, avances, leido>>
        /\ UNCHANGED <<dia, empresa, pagos, cortes>>

\* effectsDone: a retry skips what is marked.
Marcar(a) ==
    /\ pc[a] \in {"marcarEfecto", "marcar"}
    /\ pagos' = [pagos EXCEPT ![leido[a].pago].efectos = @ \cup {leido[a].r}]
    /\ Va(a, IF leido[a].r = "plan" THEN "leerSub" ELSE "cerrar")
    /\ UNCHANGED <<dia, sub, empresa, avances, leido, fallas, cortes>>

Cerrar(a) ==
    /\ pc[a] = "cerrar"
    /\ pagos' = [pagos EXCEPT ![leido[a].pago].aplicado = TRUE,
                              ![leido[a].pago].dueno = Nadie]
    /\ Vuelve(a)
    /\ UNCHANGED <<dia, sub, empresa, avances, fallas, cortes>>

\* An effect that failed gives the lease back, if it still has it.
Liberar(a) ==
    LET k == leido[a].pago IN
    /\ pc[a] = "liberar"
    /\ pagos' = IF pagos[k].dueno = a THEN [pagos EXCEPT ![k].dueno = Nadie] ELSE pagos
    /\ Vuelve(a)
    /\ UNCHANGED <<dia, sub, empresa, avances, fallas, cortes>>

-----------------------------------------------------------------------------
(* A declined charge *)

Declinar(a) ==
    LET k == leido[a].pago IN
    /\ pc[a] = "declinar"
    /\ IF pagos[k].estado = "pending" /\ ~pagos[k].aplicado
       THEN pagos' = [pagos EXCEPT ![k].estado = "declined"] /\ Va(a, "leerMora") /\ UNCHANGED leido
       ELSE Vuelve(a) /\ UNCHANGED pagos
    /\ UNCHANGED <<dia, sub, empresa, avances, fallas, cortes>>

LeerMora(a) ==
    LET tipo == pagos[leido[a].pago].tipo
        moroso == IF tipo = "renewal" THEN [sub EXCEPT !.estado = "past_due", !.fallidos = @ + 1]
                  ELSE [sub EXCEPT !.fallidos = @ + 1]
    IN  /\ pc[a] = "leerMora"
        /\ IF tipo = "renewal" \/ (tipo = "subscription" /\ sub.estado = "pending")
           THEN leido' = [leido EXCEPT ![a].sub = sub, ![a].nuevo = moroso] /\ Va(a, "guardarSub")
           ELSE Vuelve(a)
        /\ UNCHANGED <<dia, sub, empresa, pagos, avances, fallas, cortes>>

-----------------------------------------------------------------------------
(* cancel, and what the sweeps do to the subscription *)

\* A copy that is canceled or loses its access, which revokeAccess does once.
Cancelada(s) == [s EXCEPT !.estado = "canceled"]
SinAcceso(s) == [s EXCEPT !.sinAcceso = TRUE]
Prepara(a, s, nuevo) ==
    /\ leido' = [leido EXCEPT ![a].sub = s, ![a].nuevo = nuevo]
    /\ Va(a, IF nuevo.sinAcceso # s.sinAcceso THEN "suspender" ELSE "guardarSub")

Cancelar(c) ==
    /\ pc[c] = "libre" /\ sub.estado # "no"
    /\ Cruces \/ \A a \in Actores : pc[a] \in {"libre", "fin"}
    /\ Cruces \/ \A k \in Ids : pagos[k].banco = "approved" => pagos[k].aplicado
    /\ LET s == [Cancelada(sub) EXCEPT !.proximo = Ninguno] IN
       Prepara(c, sub, IF sub.hasta <= dia THEN SinAcceso(s) ELSE s)
    /\ UNCHANGED <<dia, sub, empresa, pagos, avances, fallas, cortes>>

Suspender(a) ==
    /\ pc[a] = "suspender"
    /\ empresa' = [empresa EXCEPT !.estado = "suspended",
                       !.motivo = IF sub # leido[a].sub THEN "vieja"
                                  ELSE IF leido[a].fase = "mora" THEN "mora" ELSE "plazo"]
    /\ Va(a, "guardarSub")
    /\ UNCHANGED <<dia, sub, pagos, avances, leido, fallas, cortes>>

GuardarSub(a) ==
    /\ pc[a] = "guardarSub"
    /\ sub' = Guardado(leido[a].sub, leido[a].nuevo)
    /\ Vuelve(a)
    /\ UNCHANGED <<dia, empresa, pagos, avances, fallas, cortes>>

-----------------------------------------------------------------------------
(* runBillingCycle *)

Barrer(b) ==
    /\ Entra(b) /\ b \in Barridos /\ sub.estado # "no"
    /\ leido' = [leido EXCEPT ![b] = [SinLeer EXCEPT !.ahora = dia, !.fase = "reconciliar",
                    !.lista = {k \in Ids : pagos[k].estado = "pending" /\ pagos[k].tx}]]
    /\ Va(b, "reconciliar")
    /\ UNCHANGED <<dia, sub, empresa, pagos, avances, fallas, cortes>>

\* reconcilePending: what the bank says of each one that is pending.
Reconciliar(b) ==
    /\ pc[b] = "reconciliar"
    /\ \/ \E k \in leido[b].lista :
            \/ Sync(b, k, pagos[k].banco) /\ Bien
            \/ Falla("reconciliar") /\ Acaba(b, k)
       \/ /\ leido[b].lista = {}
          /\ leido' = [leido EXCEPT ![b].fase = "retomar",
               ![b].lista = {k \in Ids : pagos[k].estado = "approved" /\ ~pagos[k].aplicado
                                         /\ Caduca(k)}]
          /\ Va(b, "retomar") /\ Bien
    /\ UNCHANGED <<dia, sub, empresa, pagos, avances, cortes>>

\* resumeUnfinishedApprovals
Retomar(b) ==
    /\ pc[b] = "retomar"
    /\ \/ \E k \in leido[b].lista :
            /\ leido' = [leido EXCEPT ![b].pago = k]
            /\ Va(b, "reservar")
       \/ /\ leido[b].lista = {}
          /\ leido' = [leido EXCEPT ![b].fase = "cobrar"] /\ Va(b, "cobrar")
    /\ UNCHANGED <<dia, sub, empresa, pagos, avances, fallas, cortes>>

CobrarVencida(b) ==
    /\ pc[b] = "cobrar"
    /\ leido' = [leido EXCEPT ![b].sub = sub, ![b].fase = "cobrar"]
    /\ Va(b, IF sub.estado = "active" /\ sub.proximo # Ninguno /\ sub.proximo <= leido[b].ahora
             THEN "reservarCobro" ELSE "mora")
    /\ UNCHANGED <<dia, sub, empresa, pagos, avances, fallas, cortes>>

\* chargeRenewal reserves the attempt it read.
ReservarCobro(b) ==
    LET s == leido[b].sub IN
    /\ pc[b] = "reservarCobro"
    /\ IF /\ sub.estado = s.estado /\ sub.intento = s.intento
          /\ s.estado = "active" => sub.proximo # Ninguno /\ sub.proximo <= leido[b].ahora
       THEN LET t == [sub EXCEPT !.intento = @ + 1, !.intentoDia = dia,
                        !.proximo = IF s.estado = "active" THEN ProximoDesde(s.proximo) ELSE @]
            IN  /\ sub' = t
                /\ leido' = [leido EXCEPT ![b].r = "renewal",
                     ![b].sub = [s EXCEPT !.intentoDia = dia]]
                /\ Va(b, "crear")
       ELSE Vuelve(b) /\ UNCHANGED sub
    /\ UNCHANGED <<dia, empresa, pagos, avances, fallas, cortes>>

\* Past due: out of retries it is canceled, out of the cooldown it is retried.
CobrarMora(b) ==
    /\ pc[b] = "mora"
    /\ \/ /\ sub.estado = "past_due" /\ sub.fallidos >= MaxReintentos
          /\ leido' = [leido EXCEPT ![b].sub = sub, ![b].fase = "mora",
                                    ![b].nuevo = SinAcceso(Cancelada(sub))]
          /\ Va(b, IF sub.sinAcceso THEN "guardarSub" ELSE "suspender")
       \/ /\ sub.estado = "past_due" /\ sub.fallidos < MaxReintentos
          /\ sub.intentoDia < leido[b].ahora
          /\ leido' = [leido EXCEPT ![b].sub = sub, ![b].fase = "mora"]
          /\ Va(b, "reservarCobro")
       \/ /\ sub.estado = "past_due" => sub.fallidos < MaxReintentos
                                        /\ sub.intentoDia >= leido[b].ahora
          /\ leido' = [leido EXCEPT ![b].fase = "mora"] /\ Va(b, "retirar")
    /\ UNCHANGED <<dia, sub, empresa, pagos, avances, fallas, cortes>>

\* Mutant: the access of a canceled subscription is withdrawn before its period ends.
RetirarYa(b) ==
    /\ pc[b] = "retirar"
    /\ IF sub.estado = "canceled" /\ ~sub.sinAcceso
       THEN /\ leido' = [leido EXCEPT ![b].sub = sub, ![b].nuevo = SinAcceso(sub), ![b].fase = "fin"]
            /\ Va(b, "suspender")
       ELSE leido' = [leido EXCEPT ![b] = SinLeer] /\ Va(b, "libre")
    /\ UNCHANGED <<dia, sub, empresa, pagos, avances, fallas, cortes>>

\* revokeEndedSubscriptions, and the sweep ends.
Retirar(b) ==
    /\ pc[b] = "retirar"
    /\ IF sub.estado = "canceled" /\ ~sub.sinAcceso /\ sub.hasta # 0 /\ sub.hasta <= leido[b].ahora
       THEN /\ leido' = [leido EXCEPT ![b].sub = sub, ![b].nuevo = SinAcceso(sub), ![b].fase = "fin"]
            /\ Va(b, "suspender")
       ELSE leido' = [leido EXCEPT ![b] = SinLeer] /\ Va(b, "libre")
    /\ UNCHANGED <<dia, sub, empresa, pagos, avances, fallas, cortes>>

-----------------------------------------------------------------------------
\* Those who deliver or sweep are there again.
Otra(a) ==
    /\ a \in Barridos \cup Avisos /\ pc[a] = "fin"
    /\ Va(a, "libre") /\ leido' = [leido EXCEPT ![a] = SinLeer]
    /\ UNCHANGED <<dia, sub, empresa, pagos, avances, fallas, cortes>>

Decide(k) ==
    /\ pagos[k].banco = "pending"
    /\ \E r \in {"approved", "declined"} : pagos' = [pagos EXCEPT ![k].banco = r]
    /\ UNCHANGED <<dia, sub, empresa, avances, pc, leido, fallas, cortes>>

\* No request outlives the day.
NuevoDia ==
    /\ dia < MaxDia /\ dia' = dia + 1
    /\ \A a \in Actores : pc[a] \in {"libre", "fin"}
    /\ BancoLento \/ \A k \in Ids :
         \/ pagos[k].banco = "no" \/ pagos[k].aplicado
         \/ pagos[k].banco = "declined" /\ pagos[k].estado = "declined"
    /\ UNCHANGED <<sub, empresa, pagos, avances, pc, leido, fallas, cortes>>

Corte(a) ==
    /\ pc[a] \in Cortan /\ cortes < MaxCortes
    /\ cortes' = cortes + 1 /\ Va(a, "fin") /\ leido' = [leido EXCEPT ![a] = SinLeer]
    /\ UNCHANGED <<dia, sub, empresa, pagos, avances, fallas>>

Cobra(a) == CrearPago(a) \/ Transar(a) \/ Anotar(a)
Aplica(a) ==
    \/ Reservar(a) \/ Efecto(a) \/ LeerSub(a) \/ GuardarPeriodo(a) \/ Marcar(a) \/ Cerrar(a)
    \/ Liberar(a) \/ Declinar(a) \/ LeerMora(a) \/ Suspender(a) \/ GuardarSub(a)
Barre(b) ==
    \/ Barrer(b) \/ Reconciliar(b) \/ Retomar(b) \/ CobrarVencida(b) \/ ReservarCobro(b)
    \/ CobrarMora(b) \/ Retirar(b)

Next ==
    \/ \E u \in Altas : Alta(u)
    \/ \E u \in Compras : Comprar(u)
    \/ \E w \in Avisos : Aviso(w)
    \/ \E c \in Cancelaciones : Cancelar(c)
    \/ \E b \in Barridos : Barre(b)
    \/ \E a \in Actores : Cobra(a) \/ Aplica(a) \/ Otra(a) \/ Corte(a)
    \/ \E k \in Ids : Decide(k)
    \/ NuevoDia

Spec == Init /\ [][Next]_vars

-----------------------------------------------------------------------------
(* Properties *)

EnCalma == \A a \in DOMAIN pc : pc[a] \in {"libre", "fin"}

\* Whoever delivers, polls, sweeps or resumes an approval ("another process applied
\* it or is applying it", applyApproved): an approval comes from the bank, opens one
\* period at most, has opened it when it is closed, and credits its documents once.
AplicadoUnaVez ==
    /\ \A k \in Ids :
         /\ avances[k] <= 1
         /\ pagos[k].estado = "approved" => pagos[k].banco = "approved"
         /\ pagos[k].aplicado /\ pagos[k].tipo # "docPackage" => avances[k] = 1
    /\ LET docs == {k \in Ids : pagos[k].tipo = "docPackage" /\ pagos[k].estado = "approved"} IN
       (\A k \in docs : pagos[k].aplicado) => empresa.creditos = Cardinality(docs)

\* "Sweeping more never charges twice within one period" (billing.scheduler.ts): each
\* payment has its effects once, and no two renewals of one period are taken.
CadaCobroUnPeriodo ==
    /\ AplicadoUnaVez
    /\ \A k, j \in Ids :
         /\ k # j /\ pagos[k].tipo = "renewal" /\ pagos[j].tipo = "renewal"
         /\ pagos[k].banco = "approved" /\ pagos[j].banco = "approved"
         => pagos[k].paga # pagos[j].paga

\* "Who paid the whole month uses it whole" (cancel): with a paid period ahead the
\* company was not suspended, unless the sweep did for want of retries, or over a
\* subscription that changed after it read it.
PagadoSeUsa ==
    EnCalma /\ sub.hasta > dia
        => empresa.estado = "active" \/ empresa.motivo \in {"mora", "vieja"}

\* "Here there is no paid period to respect" (runBillingCycle, out of retries): nor is
\* it suspended then, with what the sweep read still true.
MoraSinPagado ==
    EnCalma /\ sub.hasta > dia => empresa.estado = "active" \/ empresa.motivo = "vieja"

\* "Idempotency mark: the sweep suspends once" (subscription.schema.ts): a canceled
\* subscription whose access is marked as withdrawn has a suspended company.
RetiradaEsSuspendida ==
    EnCalma /\ sub.estado = "canceled" /\ sub.sinAcceso /\ sub.hasta <= dia
        => empresa.estado = "suspended"
=============================================================================
