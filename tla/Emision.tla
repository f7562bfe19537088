------------------------------- MODULE Emision -------------------------------
(***************************************************************************)
(* The issue of the electronic document of a sale (einvoicing.service.ts): *)
(* invoice (FEV), POS document, either of them transcribed from a          *)
(* contingency, and credit note.  Each takes one document of the plan's    *)
(* quota and one number of its series and inserts the document, which the  *)
(* unique indexes may refuse; then it gives back what it took, raises the  *)
(* counter and tries again, or answers with the document that won.         *)
(*                                                                         *)
(* Contents, codes (CUFE) and amounts of the documents are left out, and   *)
(* what the request checks of its data before it takes anything.           *)
(***************************************************************************)
EXTENDS Integers, FiniteSets, FiniteSetsExt

CONSTANTS
    Peticiones,
    Tipo,           \* [Peticiones -> {"invoice", "pos", "nota"}]
    VentaDe,        \* [Peticiones -> sales]
    Origen,         \* [Peticiones -> what a note is for]
    Contingencia,   \* the requests that transcribe
    Papel,          \* [Peticiones -> number printed on paper, or 0]
    SerieDe,        \* [Peticiones -> Series]
    Series,         \* the counters
    Prefijo,        \* [Series -> prefixes]
    Rango,          \* [Series -> the resolution each starts with]
    Renovaciones,   \* requests to register a resolution
    RangoNuevo,     \* [Renovaciones -> [serie, desde, hasta]]
    Base, Creditos, \* the quota of a month and the credits bought
    Fallan, Cortan, \* steps that may fail, steps where the process may be killed
    MaxMes, MaxFallas, MaxCortes    \* bounds

VARIABLES
    resol,      \* the resolution of each series
    seq,        \* the counter of each series
    docs,       \* the documents
    cupo,       \* documents of the month and credits of the company
    mes,
    pc, leido,  \* the next await of each request, and what it read or answered
    fallas, cortes

vars == <<resol, seq, docs, cupo, mes, pc, leido, fallas, cortes>>

MAX_INTENTOS == 3
Actores == Peticiones \cup Renovaciones
Finales == {"emitida", "rechazada", "sinNumero", "error", "cortada"}
Pasos == {"cupo", "credito", "folio", "guardar", "auditar", "reembolsar", "devolver", "existente",
    "mayor", "subir", "revisar"}
SinDoc == [tipo |-> "no", venta |-> "no", origen |-> "no", prefijo |-> "no", num |-> 0,
    cont |-> FALSE]
SinLeer == [desde |-> 1, hasta |-> 0, cobro |-> "no", num |-> 0, choque |-> "no",
    intento |-> 1, mayor |-> 0, doc |-> SinDoc]

\* What is asked of the requests, the series and the plan.
Supuestos ==
    /\ IsFiniteSet(Peticiones) /\ Peticiones \cap Renovaciones = {}
    /\ Tipo \in [Peticiones -> {"invoice", "pos", "nota"}]
    /\ Papel \in [Peticiones -> Nat] /\ SerieDe \in [Peticiones -> Series]
    /\ Rango \in [Series -> [desde : Nat \ {0}, hasta : Nat]]
    /\ RangoNuevo \in [Renovaciones -> [serie : Series, desde : Nat \ {0}, hasta : Nat]]
    /\ Base \in Nat /\ Creditos \in Nat /\ MaxMes \in Nat \ {0}
    /\ MaxFallas \in Nat /\ MaxCortes \in Nat

TypeOK ==
    /\ seq \in [Series -> Nat]
    /\ \A s \in Series : resol[s].desde \in Nat \ {0} /\ resol[s].hasta \in Nat
    /\ IsFiniteSet(docs) /\ \A d \in docs : d.tipo \in {"invoice", "pos", "nota"} /\ d.num \in Nat
    /\ cupo.usados \in Nat /\ cupo.creditos \in 0..Creditos /\ cupo.mes \in 1..mes
    /\ mes \in 1..MaxMes
    /\ pc \in [Actores -> {"libre", "sede", "contador"} \cup Pasos \cup Finales]
    /\ \A p \in Peticiones :
         leido[p].cobro \in {"no", "monthly", "credit"} /\ leido[p].intento \in 1..MAX_INTENTOS
    /\ fallas \in 0..MaxFallas /\ cortes \in 0..MaxCortes

Init ==
    /\ resol = Rango /\ seq = [s \in Series |-> 0]
    /\ docs = {} /\ mes = 1
    /\ cupo = [usados |-> 0, creditos |-> Creditos, mes |-> 1]
    /\ pc = [a \in Actores |-> "libre"]
    /\ leido = [a \in Actores |-> SinLeer]
    /\ fallas = 0 /\ cortes = 0

-----------------------------------------------------------------------------
Va(a, paso) == pc' = [pc EXCEPT ![a] = paso]
Falla(paso) == paso \in Fallan /\ fallas < MaxFallas /\ fallas' = fallas + 1
Bien == UNCHANGED fallas
Serie(p) == SerieDe[p]

\* The answer with a document, and any other.
Responde(p, d) ==
    Va(p, "emitida") /\ leido' = [leido EXCEPT ![p] = [SinLeer EXCEPT !.doc = d]]
Niega(p, r) == Va(p, r) /\ leido' = [leido EXCEPT ![p] = SinLeer]

\* An error that leaves emitir: the note looks once more for the one of its operation.
Lanza(p, r) ==
    IF Tipo[p] = "nota"
    THEN Va(p, "revisar") /\ leido' = [leido EXCEPT ![p].choque = r, ![p].cobro = "no"]
    ELSE Niega(p, r)

\* The POS document or invoice of a sale, and the notes of an operation.
FiscalesDe(v) == {d \in docs : d.venta = v /\ d.tipo \in {"invoice", "pos"}}
NotasDe(o) == {d \in docs : d.tipo = "nota" /\ d.origen = o}
Existentes(p) ==
    IF Tipo[p] = "nota" THEN NotasDe(Origen[p])
    ELSE {d \in FiscalesDe(VentaDe[p]) : d.tipo = Tipo[p]}

\* Mayor número emitido with a prefix.
MayorEmitido(s) == Max({d.num : d \in {e \in docs : e.prefijo = Prefijo[s]}} \cup {0})

-----------------------------------------------------------------------------
(* The request, before it takes anything *)

\* Who asks for what there is, gets it; for a sale with another kind, a conflict.
Previo(p) ==
    {d \in Existentes(p) : Tipo[p] # "nota" /\ p \in Contingencia => d.cont}
Estorba(p) == Tipo[p] # "nota" /\ FiscalesDe(VentaDe[p]) # {}
SinReferido(p) == Tipo[p] = "nota" /\ FiscalesDe(VentaDe[p]) = {}

Pedir(p) ==
    /\ pc[p] = "libre"
    /\ \/ \E d \in Previo(p) : Responde(p, d)
       \/ /\ Previo(p) = {} /\ (Estorba(p) \/ SinReferido(p))
          /\ Niega(p, "rechazada")
       \/ /\ Previo(p) = {} /\ ~Estorba(p) /\ ~SinReferido(p)
          /\ leido' = [leido EXCEPT ![p].desde = resol[Serie(p)].desde,
                                    ![p].hasta = resol[Serie(p)].hasta]
          /\ Va(p, "cupo")
    /\ UNCHANGED <<resol, seq, docs, cupo, mes, fallas, cortes>>

-----------------------------------------------------------------------------
(* emitir *)

\* consumeDocument: the month's counter starts again, and then the month...
DelMes == IF cupo.mes = mes THEN cupo ELSE [cupo EXCEPT !.mes = mes, !.usados = 0]

Cobrar(p) ==
    /\ pc[p] = "cupo"
    /\ \/ /\ DelMes.usados < Base
          /\ cupo' = [DelMes EXCEPT !.usados = @ + 1]
          /\ leido' = [leido EXCEPT ![p].cobro = "monthly"] /\ Va(p, "folio")
       \/ /\ DelMes.usados >= Base
          /\ cupo' = DelMes /\ Va(p, "credito") /\ UNCHANGED leido
    /\ UNCHANGED <<resol, seq, docs, mes, fallas, cortes>>

\* ... or one of the credits bought.
CobrarCredito(p) ==
    /\ pc[p] = "credito"
    /\ \/ /\ cupo.creditos > 0
          /\ cupo' = [cupo EXCEPT !.usados = @ + 1, !.creditos = @ - 1]
          /\ leido' = [leido EXCEPT ![p].cobro = "credit"] /\ Va(p, "folio")
       \/ cupo.creditos = 0 /\ Lanza(p, "rechazada") /\ UNCHANGED cupo
    /\ UNCHANGED <<resol, seq, docs, mes, fallas, cortes>>

\* nextNumber, or the number that is printed.
Folio(p) ==
    LET s == Serie(p)
        n == leido[p].desde + seq[s]
        agotada == leido[p].hasta # 0 /\ n > leido[p].hasta
    IN  /\ pc[p] = "folio"
        /\ IF Papel[p] # 0
           THEN /\ leido' = [leido EXCEPT ![p].num = Papel[p]]
                /\ Va(p, "guardar") /\ UNCHANGED seq
           ELSE /\ seq' = [seq EXCEPT ![s] = @ + 1]
                /\ leido' = [leido EXCEPT ![p].num = IF agotada THEN 0 ELSE n,
                                          ![p].choque = IF agotada THEN "agotada" ELSE "no"]
                /\ Va(p, IF agotada THEN "reembolsar" ELSE "guardar")
        /\ UNCHANGED <<resol, docs, cupo, mes, fallas, cortes>>

Documento(p) ==
    [tipo |-> Tipo[p], venta |-> VentaDe[p], origen |-> Origen[p],
     prefijo |-> Prefijo[Serie(p)], num |-> leido[p].num, cont |-> p \in Contingencia]

\* Mutant: the index that excludes POS and invoice of one sale is missing.
ChoquesSinExclusion(p) ==
    LET d == Documento(p) IN
    {c \in {"consecutivo", "venta"} :
       \E e \in docs :
         \/ c = "consecutivo" /\ e.prefijo = d.prefijo /\ e.num = d.num
         \/ c = "venta" /\ d.tipo # "nota" /\ e.venta = d.venta /\ e.tipo = d.tipo
         \/ c = "venta" /\ d.tipo = "nota" /\ e.tipo = "nota" /\ e.origen = d.origen}

\* The unique indexes: number, kind and sale (or operation), and sale.
Choques(p) ==
    LET d == Documento(p) IN
    {c \in {"consecutivo", "venta", "exclusion"} :
       \E e \in docs :
         \/ c = "consecutivo" /\ e.prefijo = d.prefijo /\ e.num = d.num
         \/ c = "venta" /\ d.tipo # "nota" /\ e.venta = d.venta /\ e.tipo = d.tipo
         \/ c = "venta" /\ d.tipo = "nota" /\ e.tipo = "nota" /\ e.origen = d.origen
         \/ c = "exclusion" /\ d.tipo # "nota" /\ e \in FiscalesDe(d.venta)}

Guardar(p) ==
    /\ pc[p] = "guardar"
    /\ \/ /\ Choques(p) = {} /\ Bien
          /\ docs' = docs \cup {Documento(p)}
          /\ leido' = [leido EXCEPT ![p].doc = Documento(p), ![p].cobro = "no"]
          /\ Va(p, "auditar")
       \/ \E c \in Choques(p) :
            /\ leido' = [leido EXCEPT ![p].choque = c] /\ Va(p, "reembolsar")
            /\ Bien /\ UNCHANGED docs
       \/ /\ Falla("guardar") /\ leido' = [leido EXCEPT ![p].choque = "otro"]
          /\ Va(p, "reembolsar") /\ UNCHANGED docs
    /\ UNCHANGED <<resol, seq, cupo, mes, cortes>>

\* The document exists whatever the audit answers.
Auditar(p) ==
    /\ pc[p] = "auditar"
    /\ \/ Bien /\ Responde(p, leido[p].doc)
       \/ Falla("auditar") /\ Lanza(p, "error")
    /\ UNCHANGED <<resol, seq, docs, cupo, mes, cortes>>

\* Mutant: a refund of the month gives no credit back.
DevueltoAlMes(p) ==
    IF cupo.mes = mes /\ cupo.usados > 0 THEN [cupo EXCEPT !.usados = @ - 1] ELSE cupo

\* refundDocument: it undoes what was charged, in the month it is now.
Devuelto(p) ==
    LET delMes == cupo.mes = mes /\ cupo.usados > 0
        menos == IF delMes THEN [cupo EXCEPT !.usados = @ - 1] ELSE cupo
    IN  IF leido[p].cobro = "credit" THEN [menos EXCEPT !.creditos = @ + 1] ELSE menos

\* What follows the refund, by what the number or the insertion answered.
TrasReembolso(p) ==
    LET c == leido[p].choque IN
    CASE c = "agotada" \/ (c = "otro" /\ Papel[p] # 0) -> "error"
      [] c = "consecutivo" /\ Papel[p] # 0 -> "rechazada"
      [] c = "consecutivo" /\ Papel[p] = 0 ->
           IF leido[p].intento < MAX_INTENTOS THEN "mayor" ELSE "sinNumero"
      [] c \in {"venta", "exclusion"} /\ Papel[p] # 0 -> "existente"
      [] OTHER -> "devolver"

Reembolsar(p) ==
    /\ pc[p] = "reembolsar"
    /\ cupo' = Devuelto(p)
    /\ IF TrasReembolso(p) \in Finales
       THEN Lanza(p, TrasReembolso(p))
       ELSE Va(p, TrasReembolso(p)) /\ leido' = [leido EXCEPT ![p].cobro = "no"]
    /\ UNCHANGED <<resol, seq, docs, mes, fallas, cortes>>

\* devolverFolio: the number goes back only if nobody took another one.
Devolver(p) ==
    LET s == Serie(p) IN
    /\ pc[p] = "devolver"
    /\ seq' = [seq EXCEPT ![s] =
         IF @ = leido[p].num - leido[p].desde + 1 THEN @ - 1 ELSE @]
    /\ IF leido[p].choque = "otro" THEN Lanza(p, "error") ELSE Va(p, "existente") /\ UNCHANGED leido
    /\ UNCHANGED <<resol, docs, cupo, mes, fallas, cortes>>

\* The document that won, or the conflict with the other kind.
Existente(p) ==
    /\ pc[p] = "existente"
    /\ \/ \E d \in Existentes(p) : Responde(p, d)
       \/ Existentes(p) = {} /\ leido[p].choque = "exclusion" /\ Niega(p, "rechazada")
       \/ Existentes(p) = {} /\ leido[p].choque = "venta" /\ Lanza(p, "error")
    /\ UNCHANGED <<resol, seq, docs, cupo, mes, fallas, cortes>>

\* subirContador: what was issued with the prefix is read...
LeerMayor(p) ==
    /\ pc[p] = "mayor"
    /\ leido' = [leido EXCEPT ![p].mayor = MayorEmitido(Serie(p))]
    /\ Va(p, "subir")
    /\ UNCHANGED <<resol, seq, docs, cupo, mes, fallas, cortes>>

\* ... and the counter never goes down; then it tries again.
Subir(p) ==
    LET s == Serie(p) IN
    /\ pc[p] = "subir"
    /\ seq' = IF leido[p].mayor < leido[p].desde THEN seq
              ELSE [seq EXCEPT ![s] = Max({@, leido[p].mayor - leido[p].desde + 1})]
    /\ leido' = [leido EXCEPT ![p].intento = @ + 1, ![p].num = 0, ![p].mayor = 0,
                              ![p].choque = "no"]
    /\ Va(p, "cupo")
    /\ UNCHANGED <<resol, docs, cupo, mes, fallas, cortes>>

\* emitirNota: the note may be there although its issue failed.
Revisar(p) ==
    /\ pc[p] = "revisar"
    /\ \/ \E d \in NotasDe(Origen[p]) : Responde(p, d)
       \/ NotasDe(Origen[p]) = {} /\ Niega(p, leido[p].choque)
    /\ UNCHANGED <<resol, seq, docs, cupo, mes, fallas, cortes>>

-----------------------------------------------------------------------------
(* registerResolution: the first number is after what was issued; the sede is    *)
(* saved and then the counter.                                                 *)

Renovar(r) ==
    LET n == RangoNuevo[r]
        empezarEn == Max({n.desde, MayorEmitido(n.serie) + 1})
    IN  /\ pc[r] = "libre"
        /\ IF empezarEn > n.hasta
           THEN Niega(r, "rechazada")
           ELSE leido' = [leido EXCEPT ![r].num = empezarEn] /\ Va(r, "sede")
        /\ UNCHANGED <<resol, seq, docs, cupo, mes, fallas, cortes>>

GuardarSede(r) ==
    LET n == RangoNuevo[r] IN
    /\ pc[r] = "sede"
    /\ resol' = [resol EXCEPT ![n.serie] = [desde |-> n.desde, hasta |-> n.hasta]]
    /\ Va(r, "contador")
    /\ UNCHANGED <<seq, docs, cupo, mes, leido, fallas, cortes>>

FijarContador(r) ==
    LET n == RangoNuevo[r] IN
    /\ pc[r] = "contador"
    /\ seq' = [seq EXCEPT ![n.serie] = leido[r].num - n.desde]
    /\ Niega(r, "emitida")
    /\ UNCHANGED <<resol, docs, cupo, mes, fallas, cortes>>

-----------------------------------------------------------------------------
NuevoMes ==
    /\ mes < MaxMes /\ mes' = mes + 1
    /\ UNCHANGED <<resol, seq, docs, cupo, pc, leido, fallas, cortes>>

Corte(a) ==
    /\ pc[a] \in Cortan /\ cortes < MaxCortes
    /\ cortes' = cortes + 1 /\ Va(a, "cortada")
    /\ UNCHANGED <<resol, seq, docs, cupo, mes, leido, fallas>>

Emite(p) ==
    \/ Cobrar(p) \/ CobrarCredito(p) \/ Folio(p) \/ Guardar(p) \/ Auditar(p) \/ Reembolsar(p) \/ Devolver(p)
    \/ Existente(p) \/ LeerMayor(p) \/ Subir(p) \/ Revisar(p)
Next ==
    \/ \E p \in Peticiones : Pedir(p) \/ Emite(p)
    \/ \E r \in Renovaciones : Renovar(r) \/ GuardarSede(r) \/ FijarContador(r)
    \/ \E a \in Actores : Corte(a)
    \/ NuevoMes

Spec == Init /\ [][Next]_vars

-----------------------------------------------------------------------------
(* Properties *)

\* POS and invoice exclude each other (D1) and an operation has one note: all who
\* were answered for a sale, or for an operation, were answered with one document.
UnDocumentoPorVenta ==
    \A p, q \in Peticiones :
      pc[p] = "emitida" /\ pc[q] = "emitida" =>
        /\ leido[p].doc \in docs
        /\ Tipo[p] # "nota" /\ Tipo[q] # "nota" /\ VentaDe[p] = VentaDe[q]
             => leido[p].doc = leido[q].doc
        /\ Tipo[p] = "nota" /\ Tipo[q] = "nota" /\ Origen[p] = Origen[q]
             => leido[p].doc = leido[q].doc

\* "If the insertion fails it NEVER leaves the quota charged" (emitir): what the
\* month has charged is what was issued and what is being issued, and of that the
\* credits paid what the plan did not; nobody pays twice or issues for nothing.
CupoCuadra ==
    LET enCurso(k) == Cardinality({p \in Peticiones : leido[p].cobro \in k})
        deCreditos == Creditos - cupo.creditos - enCurso({"credit"})
        emitidos == Cardinality(docs)
    IN  /\ deCreditos \in 0..emitidos
        /\ mes = 1 => /\ cupo.usados = emitidos + enCurso({"monthly", "credit"})
                      /\ emitidos - deCreditos <= Base

\* "Raise it to the last one issued and try again": nobody is left without a number
\* for having fallen behind what was issued.
NadieSinNumero == \A p \in Peticiones : pc[p] # "sinNumero"

=============================================================================
