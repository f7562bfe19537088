---------------------------- MODULE CobroVenta ----------------------------
(***************************************************************************)
(* The checkout, SalesService.create: the lock of an idempotency key, the  *)
(* stock, the number, the sale, its charge and its entry, each in an await *)
(* of its own and with compensations instead of a transaction; and what    *)
(* void does to a sale, which another user can start as soon as it exists. *)
(*                                                                         *)
(* The sale a request persists is named after the request.  Several        *)
(* requests of one key are a double click or a retry of the same charge.   *)
(***************************************************************************)
EXTENDS Integers, FiniteSets, Functions

CONSTANTS
    Peticiones,
    Llaves, LlaveDe,   \* the key each request carries, or SinLlave
    SinLlave, Nadie,
    Cuanto,            \* units each request sells
    Medio,             \* "contado", "saldo" (in favour) or "fiado" (on credit)
    Existencias,       \* units in stock at the start
    Anuladores,
    Lentas,            \* may a request outlive LLAVE_STALE_MS (2 min)?
    Fallan,            \* steps whose call may fail
    Cortan,            \* steps where the process may be killed
    MaxFallas,         \* bound on failed calls
    MaxCortes          \* bound on killed processes

ASSUME CobroAssumption ==
    /\ LlaveDe \in [Peticiones -> Llaves \cup {SinLlave}] /\ SinLlave \notin Llaves
    /\ Nadie \notin Peticiones /\ Peticiones \cap Anuladores = {}
    /\ Peticiones # {} /\ IsFiniteSet(Peticiones)
    /\ Peticiones \cap {"ninguna", "error", "en_proceso"} = {}
    /\ Cuanto \in [Peticiones -> Nat \ {0}]
    /\ Medio \in [Peticiones -> {"contado", "saldo", "fiado"}]
    /\ Existencias \in Nat /\ Lentas \in BOOLEAN
    /\ MaxFallas \in Nat /\ MaxCortes \in Nat

VARIABLES
    candado,      \* the counter idem:key; its owner is history, the code keeps none
    consecutivo,  \* the counter sale:sede
    numero,       \* the number each request took
    venta,        \* the sale each request persisted
    stock,
    neto,         \* history: times the units of each request went out less times they came back
    pago,         \* the balance it consumed, or the receivable it left
    asiento,      \* the entry of the sale
    respuesta,    \* the sale each request answers with, or its error
    pc,           \* the next await of each actor
    obj,          \* the sale a void is working on
    fallas, cortes

vars == <<candado, consecutivo, numero, venta, stock, neto, pago, asiento, respuesta,
          pc, obj, fallas, cortes>>

Actores == Peticiones \cup Anuladores

\* create and tomarLlave, before the lock; crear, with it.
PasosLlave == {"previa", "candado", "robar", "ganadora"}
PasosCrear == {"revisar", "validar", "vender", "numerar", "persistir", "consumir",
    "deshacer", "cxc", "asentar", "compensar", "compensarDup", "buscarGanadora", "soltar"}
PasosVoid == {"flip", "creditoV", "stockV", "restaurarV", "deshacerV", "libroV", "saldoV"}

Candado == [dueno: Peticiones \cup {Nadie}, viejo: BOOLEAN]
Libre == [dueno |-> Nadie, viejo |-> FALSE]
ConLlave(p) == LlaveDe[p] # SinLlave
MismaLlave(p, q) == ConLlave(p) /\ LlaveDe[p] = LlaveDe[q]

TypeOK ==
    /\ candado \in [Llaves -> Candado]
    /\ consecutivo \in Nat /\ numero \in [Peticiones -> Nat]
    /\ venta \in [Peticiones -> {"no", "completa", "anulada"}]
    /\ stock \in Int /\ neto \in [Peticiones -> Int]
    /\ pago \in [Peticiones -> {"no", "si", "devuelto"}]
    /\ asiento \in [Peticiones -> {"no", "vivo", "reversado"}]
    /\ respuesta \in [Peticiones -> {"ninguna", "error", "en_proceso"} \cup Peticiones]
    /\ pc \in [Actores -> {"libre", "fin"} \cup PasosLlave \cup PasosCrear \cup PasosVoid]
    /\ obj \in [Anuladores -> Peticiones]
    /\ fallas \in 0..MaxFallas /\ cortes \in 0..MaxCortes

Init ==
    /\ candado = [k \in Llaves |-> Libre]
    /\ consecutivo = 0 /\ numero = [p \in Peticiones |-> 0]
    /\ venta = [p \in Peticiones |-> "no"]
    /\ stock = Existencias /\ neto = [p \in Peticiones |-> 0]
    /\ pago = [p \in Peticiones |-> "no"] /\ asiento = [p \in Peticiones |-> "no"]
    /\ respuesta = [p \in Peticiones |-> "ninguna"]
    /\ pc = [p \in Actores |-> "libre"]
    /\ obj = [v \in Anuladores |-> CHOOSE p \in Peticiones : TRUE]
    /\ fallas = 0 /\ cortes = 0

-----------------------------------------------------------------------------
Va(p, paso) == pc' = [pc EXCEPT ![p] = paso]
Falla(paso) == paso \in Fallan /\ fallas < MaxFallas /\ fallas' = fallas + 1
Bien == UNCHANGED fallas

\* The answer is decided; with a key, the finally releases the lock first.
Responde(p, r) ==
    /\ respuesta' = [respuesta EXCEPT ![p] = r]
    /\ Va(p, IF ConLlave(p) THEN "soltar" ELSE "fin")

\* Mutant: a sale that was voided does not count.
PorLlaveVigente(p) == {q \in Peticiones : venta[q] = "completa" /\ MismaLlave(p, q)}

\* ventaPorLlave
PorLlave(p) == {q \in Peticiones : venta[q] # "no" /\ MismaLlave(p, q)}

Salen(p) == stock' = stock - Cuanto[p] /\ neto' = [neto EXCEPT ![p] = @ + 1]
Vuelven(p) == stock' = stock + Cuanto[p] /\ neto' = [neto EXCEPT ![p] = @ - 1]

-----------------------------------------------------------------------------
(* create and tomarLlave *)

\* A charge is sent, or sent again after "it is already being registered".
Pedir(p) ==
    /\ pc[p] = "libre"
    /\ Va(p, IF ConLlave(p) THEN "previa" ELSE "validar")
    /\ UNCHANGED <<candado, consecutivo, numero, venta, stock, neto, pago, asiento,
                   respuesta, obj, fallas, cortes>>

\* Before the lock: the key may have its sale already.
Previa(p) ==
    /\ pc[p] = "previa"
    /\ \/ /\ \E q \in PorLlave(p) : respuesta' = [respuesta EXCEPT ![p] = q]
          /\ Va(p, "fin")
       \/ PorLlave(p) = {} /\ Va(p, "candado") /\ UNCHANGED respuesta
    /\ UNCHANGED <<candado, consecutivo, numero, venta, stock, neto, pago, asiento,
                   obj, fallas, cortes>>

\* Mutant: the insertion does not mind a lock that is there.
TomarCandadoSiempre(p) ==
    /\ pc[p] = "candado"
    /\ candado' = [candado EXCEPT ![LlaveDe[p]] = [dueno |-> p, viejo |-> FALSE]]
    /\ Va(p, "revisar")
    /\ UNCHANGED <<consecutivo, numero, venta, stock, neto, pago, asiento, respuesta,
                   obj, fallas, cortes>>

\* counterModel.create of idem:key, unique.
TomarCandado(p) ==
    /\ pc[p] = "candado"
    /\ IF candado[LlaveDe[p]].dueno = Nadie
       THEN /\ candado' = [candado EXCEPT ![LlaveDe[p]] = [dueno |-> p, viejo |-> FALSE]]
            /\ Va(p, "revisar")
       ELSE UNCHANGED candado /\ Va(p, "robar")
    /\ UNCHANGED <<consecutivo, numero, venta, stock, neto, pago, asiento, respuesta,
                   obj, fallas, cortes>>

\* Mutants: an old lock is never taken, or one of any age is.
RobarNunca(p) ==
    /\ pc[p] = "robar" /\ Va(p, "ganadora")
    /\ UNCHANGED <<candado, consecutivo, numero, venta, stock, neto, pago, asiento,
                   respuesta, obj, fallas, cortes>>
RobarSinEdad(p) ==
    /\ pc[p] = "robar"
    /\ candado' = [candado EXCEPT ![LlaveDe[p]] = [dueno |-> p, viejo |-> FALSE]]
    /\ Va(p, "revisar")
    /\ UNCHANGED <<consecutivo, numero, venta, stock, neto, pago, asiento, respuesta,
                   obj, fallas, cortes>>

\* A lock older than LLAVE_STALE_MS is taken over.
Robar(p) ==
    /\ pc[p] = "robar"
    /\ IF candado[LlaveDe[p]].viejo
       THEN /\ candado' = [candado EXCEPT ![LlaveDe[p]] = [dueno |-> p, viejo |-> FALSE]]
            /\ Va(p, "revisar")
       ELSE UNCHANGED candado /\ Va(p, "ganadora")
    /\ UNCHANGED <<consecutivo, numero, venta, stock, neto, pago, asiento, respuesta,
                   obj, fallas, cortes>>

\* Who has the lock may be done: its sale, or 409 and the client waits and retries.
Ganadora(p) ==
    /\ pc[p] = "ganadora"
    /\ \/ /\ \E q \in PorLlave(p) : respuesta' = [respuesta EXCEPT ![p] = q]
          /\ Va(p, "fin")
       \/ /\ PorLlave(p) = {}
          /\ respuesta' = [respuesta EXCEPT ![p] = "en_proceso"] /\ Va(p, "libre")
    /\ UNCHANGED <<candado, consecutivo, numero, venta, stock, neto, pago, asiento,
                   obj, fallas, cortes>>

-----------------------------------------------------------------------------
(* crear *)

\* With the lock, the key is looked up again.
Revisar(p) ==
    /\ pc[p] = "revisar"
    /\ \/ \E q \in PorLlave(p) : Responde(p, q)
       \/ PorLlave(p) = {} /\ Va(p, "validar") /\ UNCHANGED respuesta
    /\ UNCHANGED <<candado, consecutivo, numero, venta, stock, neto, pago, asiento,
                   obj, fallas, cortes>>

\* Drawer, debtor, balance and stock are checked before touching anything.
Validar(p) ==
    /\ pc[p] = "validar"
    /\ \/ stock >= Cuanto[p] /\ Va(p, "vender") /\ UNCHANGED respuesta /\ Bien
       \/ stock < Cuanto[p] /\ Responde(p, "error") /\ Bien
       \/ Falla("validar") /\ Responde(p, "error")
    /\ UNCHANGED <<candado, consecutivo, numero, venta, stock, neto, pago, asiento,
                   obj, cortes>>

\* Mutant: the units go out without looking at what is left.
VenderSinCondicion(p) ==
    /\ pc[p] = "vender" /\ Salen(p) /\ Va(p, "numerar")
    /\ UNCHANGED <<candado, consecutivo, numero, venta, pago, asiento, respuesta, obj,
                   fallas, cortes>>

\* stock.sell, a transaction of its own: it fails whole if the units do not suffice.
Vender(p) ==
    /\ pc[p] = "vender"
    /\ \/ stock >= Cuanto[p] /\ Salen(p) /\ Va(p, "numerar") /\ UNCHANGED respuesta /\ Bien
       \/ stock < Cuanto[p] /\ Responde(p, "error") /\ UNCHANGED <<stock, neto>> /\ Bien
       \/ Falla("vender") /\ Responde(p, "error") /\ UNCHANGED <<stock, neto>>
    /\ UNCHANGED <<candado, consecutivo, numero, venta, pago, asiento, obj, cortes>>

\* nextSaleNumber
Numerar(p) ==
    /\ pc[p] = "numerar"
    /\ \/ /\ consecutivo' = consecutivo + 1
          /\ numero' = [numero EXCEPT ![p] = consecutivo + 1]
          /\ Va(p, "persistir") /\ Bien
       \/ Falla("numerar") /\ Va(p, "compensar") /\ UNCHANGED <<consecutivo, numero>>
    /\ UNCHANGED <<candado, venta, stock, neto, pago, asiento, respuesta, obj, cortes>>

TrasPersistir(p) ==
    CASE Medio[p] = "saldo" -> "consumir" [] Medio[p] = "fiado" -> "cxc"
      [] OTHER -> "asentar"

\* Mutant: offlineId has no unique index.
PersistirSinIndice(p) ==
    /\ pc[p] = "persistir"
    /\ \/ venta' = [venta EXCEPT ![p] = "completa"] /\ Va(p, TrasPersistir(p)) /\ Bien
       \/ Falla("persistir") /\ Va(p, "compensar") /\ UNCHANGED venta
    /\ UNCHANGED <<candado, consecutivo, numero, stock, neto, pago, asiento, respuesta,
                   obj, cortes>>

\* saleModel.create; its offlineId, the key, is unique.
Persistir(p) ==
    /\ pc[p] = "persistir"
    /\ \/ /\ PorLlave(p) = {}
          /\ venta' = [venta EXCEPT ![p] = "completa"] /\ Va(p, TrasPersistir(p)) /\ Bien
       \/ PorLlave(p) # {} /\ Va(p, "compensarDup") /\ UNCHANGED venta /\ Bien
       \/ Falla("persistir") /\ Va(p, "compensar") /\ UNCHANGED venta
    /\ UNCHANGED <<candado, consecutivo, numero, stock, neto, pago, asiento, respuesta,
                   obj, cortes>>

\* The balance in favour is charged with the sale persisted.
Consumir(p) ==
    /\ pc[p] = "consumir"
    /\ \/ pago' = [pago EXCEPT ![p] = "si"] /\ Va(p, "asentar") /\ Bien
       \/ Falla("consumir") /\ Va(p, "deshacer") /\ UNCHANGED pago
    /\ UNCHANGED <<candado, consecutivo, numero, venta, stock, neto, asiento, respuesta,
                   obj, cortes>>

\* A rejected charge deletes the sale, whatever its status; if it cannot, the
\* sale stays without its charge (CONCILIAR).
Deshacer(p) ==
    /\ pc[p] = "deshacer"
    /\ \/ /\ venta' = [venta EXCEPT ![p] = "no"]
          /\ Va(p, "compensar") /\ UNCHANGED respuesta /\ Bien
       \/ Falla("deshacer") /\ Responde(p, "error") /\ UNCHANGED venta
    /\ UNCHANGED <<candado, consecutivo, numero, stock, neto, pago, asiento, obj, cortes>>

\* Mutant: the sale on credit goes on without its receivable.
CrearCxcSinEsperar(p) ==
    /\ pc[p] = "cxc"
    /\ \/ pago' = [pago EXCEPT ![p] = "si"] /\ Bien
       \/ Falla("cxc") /\ UNCHANGED pago
    /\ Va(p, "asentar")
    /\ UNCHANGED <<candado, consecutivo, numero, venta, stock, neto, asiento, respuesta,
                   obj, cortes>>

\* Mutant: a receivable that failed is left in a status nobody resumes.
CrearCxcPendiente(p) ==
    /\ pc[p] = "cxc"
    /\ \/ pago' = [pago EXCEPT ![p] = "si"] /\ Bien
       \/ Falla("cxc") /\ pago' = [pago EXCEPT ![p] = "pendiente"]
    /\ Va(p, "asentar")
    /\ UNCHANGED <<candado, consecutivo, numero, venta, stock, neto, asiento, respuesta,
                   obj, cortes>>

\* The receivable of a sale on credit; its failure leaves the sale as it is.
CrearCxc(p) ==
    /\ pc[p] = "cxc"
    /\ \/ pago' = [pago EXCEPT ![p] = "si"] /\ Va(p, "asentar") /\ UNCHANGED respuesta /\ Bien
       \/ Falla("cxc") /\ Responde(p, "error") /\ UNCHANGED pago
    /\ UNCHANGED <<candado, consecutivo, numero, venta, stock, neto, asiento, obj, cortes>>

\* postSale never throws: a failure goes to the reconciliation list.
Asentar(p) ==
    /\ pc[p] = "asentar"
    /\ \/ asiento' = [asiento EXCEPT ![p] = "vivo"] /\ Bien
       \/ Falla("asentar") /\ UNCHANGED asiento
    /\ Responde(p, p)
    /\ UNCHANGED <<candado, consecutivo, numero, venta, stock, neto, pago, obj, cortes>>

\* rollbackSoldStock swallows its own failure.
Compensar(p) ==
    /\ pc[p] = "compensar"
    /\ \/ Vuelven(p) /\ Bien
       \/ Falla("compensar") /\ UNCHANGED <<stock, neto>>
    /\ Responde(p, "error")
    /\ UNCHANGED <<candado, consecutivo, numero, venta, pago, asiento, obj, cortes>>

\* rollbackSoldStock of the charge that found the key taken.
CompensarDup(p) ==
    /\ pc[p] = "compensarDup"
    /\ \/ Vuelven(p) /\ Bien
       \/ Falla("compensar") /\ UNCHANGED <<stock, neto>>
    /\ Va(p, "buscarGanadora")
    /\ UNCHANGED <<candado, consecutivo, numero, venta, pago, asiento, respuesta, obj, cortes>>

\* The duplicate answers the sale that won; with none it falls through to the
\* compensation of a sale that was not persisted.
BuscarGanadora(p) ==
    /\ pc[p] = "buscarGanadora"
    /\ \/ \E q \in PorLlave(p) : Responde(p, q)
       \/ PorLlave(p) = {} /\ Va(p, "compensar") /\ UNCHANGED respuesta
    /\ UNCHANGED <<candado, consecutivo, numero, venta, stock, neto, pago, asiento,
                   obj, fallas, cortes>>

\* The finally deletes the lock of the key, whoever has it by now.
SoltarLlave(p) ==
    /\ pc[p] = "soltar"
    /\ \/ candado' = [candado EXCEPT ![LlaveDe[p]] = Libre] /\ Bien
       \/ Falla("soltar") /\ UNCHANGED candado
    /\ Va(p, "fin")
    /\ UNCHANGED <<consecutivo, numero, venta, stock, neto, pago, asiento, respuesta,
                   obj, cortes>>

-----------------------------------------------------------------------------
(* void, in what it shares with the checkout. *)

ElegirVenta(v) ==
    /\ v \in Anuladores /\ pc[v] = "libre"
    /\ \E p \in Peticiones : venta[p] = "completa" /\ obj' = [obj EXCEPT ![v] = p]
    /\ Va(v, "flip")
    /\ UNCHANGED <<candado, consecutivo, numero, venta, stock, neto, pago, asiento,
                   respuesta, fallas, cortes>>

TomarVenta(v) ==
    /\ pc[v] = "flip"
    /\ IF venta[obj[v]] = "completa"
       THEN venta' = [venta EXCEPT ![obj[v]] = "anulada"] /\ Va(v, "creditoV")
       ELSE UNCHANGED venta /\ Va(v, "libre")
    /\ UNCHANGED <<candado, consecutivo, numero, stock, neto, pago, asiento, respuesta,
                   obj, fallas, cortes>>

\* cancelCredit voids the receivable of the sale, if it has one.
CancelarCredito(v) ==
    /\ pc[v] = "creditoV"
    /\ \/ /\ pago' = [pago EXCEPT ![obj[v]] =
                        IF Medio[obj[v]] = "fiado" /\ @ = "si" THEN "devuelto" ELSE @]
          /\ Va(v, "stockV") /\ Bien
       \/ Falla("creditoV") /\ Va(v, "deshacerV") /\ UNCHANGED pago
    /\ UNCHANGED <<candado, consecutivo, numero, venta, stock, neto, asiento, respuesta,
                   obj, cortes>>

\* The void note, just before, and reverseSale fail to the same place.
ReponerVenta(v) ==
    /\ pc[v] = "stockV"
    /\ \/ Vuelven(obj[v]) /\ Va(v, "libroV") /\ Bien
       \/ Falla("stockV") /\ Va(v, "restaurarV") /\ UNCHANGED <<stock, neto>>
    /\ UNCHANGED <<candado, consecutivo, numero, venta, pago, asiento, respuesta, obj, cortes>>

\* restoreCredit: the receivable this void voided is open again.
RestaurarCredito(v) ==
    /\ pc[v] = "restaurarV"
    /\ pago' = [pago EXCEPT ![obj[v]] =
                  IF Medio[obj[v]] = "fiado" /\ @ = "devuelto" THEN "si" ELSE @]
    /\ Va(v, "deshacerV")
    /\ UNCHANGED <<candado, consecutivo, numero, venta, stock, neto, asiento, respuesta,
                   obj, fallas, cortes>>

\* Mutant: the flip is not undone.
DeshacerFlipNunca(v) ==
    /\ pc[v] = "deshacerV" /\ Va(v, "libre")
    /\ UNCHANGED <<candado, consecutivo, numero, venta, stock, neto, pago, asiento,
                   respuesta, obj, fallas, cortes>>

DeshacerFlip(v) ==
    /\ pc[v] = "deshacerV"
    /\ venta' = [venta EXCEPT ![obj[v]] = IF @ = "anulada" THEN "completa" ELSE @]
    /\ Va(v, "libre")
    /\ UNCHANGED <<candado, consecutivo, numero, stock, neto, pago, asiento, respuesta,
                   obj, fallas, cortes>>

\* reverseBySource: with no entry there is nothing to reverse.
ReversarLibro(v) ==
    /\ pc[v] = "libroV"
    /\ asiento' = [asiento EXCEPT ![obj[v]] = IF @ = "vivo" THEN "reversado" ELSE @]
    /\ Va(v, "saldoV")
    /\ UNCHANGED <<candado, consecutivo, numero, venta, stock, neto, pago, respuesta,
                   obj, fallas, cortes>>

\* revertirConsumo: nor is there a charge to give back.
RevertirSaldo(v) ==
    /\ pc[v] = "saldoV"
    /\ pago' = [pago EXCEPT ![obj[v]] =
                  IF Medio[obj[v]] = "saldo" /\ @ = "si" THEN "devuelto" ELSE @]
    /\ Va(v, "libre")
    /\ UNCHANGED <<candado, consecutivo, numero, venta, stock, neto, asiento, respuesta,
                   obj, fallas, cortes>>

-----------------------------------------------------------------------------
(* A lock gets old when its owner is gone, or before if requests are slow. *)
Envejece(k) ==
    /\ candado[k].dueno # Nadie /\ ~candado[k].viejo
    /\ Lentas \/ pc[candado[k].dueno] = "fin"
    /\ candado' = [candado EXCEPT ![k].viejo = TRUE]
    /\ UNCHANGED <<consecutivo, numero, venta, stock, neto, pago, asiento, respuesta,
                   pc, obj, fallas, cortes>>

\* The process is killed: its finally does not run and nobody is answered.
Corte(p) ==
    /\ pc[p] \in Cortan /\ cortes < MaxCortes
    /\ cortes' = cortes + 1
    /\ Va(p, IF p \in Peticiones THEN "fin" ELSE "libre")
    /\ respuesta' = [q \in Peticiones |-> IF q = p THEN "ninguna" ELSE respuesta[q]]
    /\ UNCHANGED <<candado, consecutivo, numero, venta, stock, neto, pago, asiento,
                   obj, fallas>>

Sigue(p) ==
    \/ Previa(p) \/ TomarCandado(p) \/ Robar(p) \/ Ganadora(p) \/ Revisar(p)
    \/ Validar(p) \/ Vender(p) \/ Numerar(p) \/ Persistir(p) \/ Consumir(p)
    \/ Deshacer(p) \/ CrearCxc(p) \/ Asentar(p) \/ Compensar(p) \/ CompensarDup(p)
    \/ BuscarGanadora(p) \/ SoltarLlave(p)

Anula(v) ==
    \/ TomarVenta(v) \/ CancelarCredito(v) \/ ReponerVenta(v) \/ RestaurarCredito(v)
    \/ DeshacerFlip(v) \/ ReversarLibro(v) \/ RevertirSaldo(v)

Next ==
    \/ \E p \in Peticiones : Pedir(p) \/ Sigue(p)
    \/ \E v \in Anuladores : ElegirVenta(v) \/ Anula(v)
    \/ \E k \in Llaves : Envejece(k)
    \/ \E p \in Actores : Corte(p)

Spec == Init /\ [][Next]_vars

(* A request in flight goes on, a client told to wait retries, and time passes. *)
FairSpec ==
    /\ Spec
    /\ \A p \in Peticiones : WF_vars(Sigue(p)) /\ WF_vars(respuesta[p] = "en_proceso" /\ Pedir(p))
    /\ \A k \in Llaves : WF_vars(Envejece(k))

-----------------------------------------------------------------------------
(* Properties *)

\* Two requests of one key are never past the lock together: the lock of a
\* request that died is taken over, the one of a live request is not.
LlaveExcluye ==
    \A p, q \in Peticiones :
        p # q /\ MismaLlave(p, q) => pc[p] \notin PasosCrear \/ pc[q] \notin PasosCrear

\* A key never has two sales, even when its lock is taken from a live request.
UnaVentaPorLlave ==
    \A p, q \in Peticiones :
        p # q /\ MismaLlave(p, q) => venta[p] = "no" \/ venta[q] = "no"

\* The units of a request are out exactly while it is on its way to a sale, or
\* its sale stands, or a void has taken the sale and not yet put them back.
EnMano(p) == pc[p] \in {"numerar", "persistir", "compensar", "compensarDup"}
Anulandose(p) ==
    \E v \in Anuladores :
        obj[v] = p /\ pc[v] \in {"creditoV", "stockV", "restaurarV", "deshacerV"}
StockRespaldado ==
    \A p \in Peticiones :
        neto[p] = IF EnMano(p) \/ venta[p] = "completa" \/ Anulandose(p) THEN 1 ELSE 0

\* Every request of a key that is answered with a sale is answered with the
\* same one, and that sale is there.
RespuestaUnica ==
    \A p, q \in Peticiones :
        /\ respuesta[p] \in Peticiones => venta[respuesta[p]] # "no"
        /\ {respuesta[p], respuesta[q]} \subseteq Peticiones /\ MismaLlave(p, q)
             => respuesta[p] = respuesta[q]

\* "The normal series cannot have gaps": each number given is on a sale or on
\* its way to one.
SinHuecos ==
    \A n \in 1..consecutivo :
        \E p \in Peticiones : numero[p] = n /\ (venta[p] # "no" \/ pc[p] = "persistir")

\* A charge told to wait does not wait for ever: not for a request that died
\* with the lock.
SeResponde == \A p \in Peticiones : respuesta[p] = "en_proceso" ~> respuesta[p] # "en_proceso"

\* Refinement: what is in hand is still available to the promise.
EnCamino == {p \in Peticiones : EnMano(p) \/ Anulandose(p)}
Disponible == stock + SumFunctionOnSet(Cuanto, EnCamino)
Promesa == INSTANCE CobroPromesa WITH disponible <- Disponible

\* The steps of the checkout and of the void implement the atomic promise: the
\* last unit is not sold twice, and no unit is lost or made on the way.
CumplePromesa == Promesa!Spec

\* What is charged, sold and accounted agrees whatever fails: no charge is left
\* of a sale that was deleted, and no entry of a charge that was not taken.
CobroYAsiento ==
    \A p \in Peticiones :
        /\ pago[p] # "no" => venta[p] # "no"
        /\ asiento[p] # "no" /\ Medio[p] # "contado" => pago[p] # "no"
=============================================================================
