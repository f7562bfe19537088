# BookiPos backend: verification project

TLA+ models of the BookiPos backend (a NestJS service over MongoDB: point of
sale, inventory, payroll, accounting and electronic invoicing for Colombian
businesses), the TLC runs that check them and the TLAPS proofs about them.

The backend runs as serverless functions (at most 300 s each) against one
Mongo database per company. Almost no operation is wrapped in a transaction: a
sale, a return or a void is a chain of awaits over several collections, and what
keeps the data consistent are conditional updates, unique indexes, checks
repeated after writing, marks left after each step, compensations, and sweeps of
a daily cron. Those protocols are what this project models. One await is one
action; between two of them anything else may happen, and the process may be lost.

## 1. Inventory

| Component | State | Operations | What is hard | What makes it correct |
|---|---|---|---|---|
| Checkout (`sales.service.ts` create) | sales, `idem:` locks and `sale:` counters, stock | create: lock the key, sell the stock, number, persist, charge, account | double click and retry of one charge; process lost between stock and sale; charge refused after persisting | one sale and one answer per key; stock out = sales; no gaps in the series |
| Void (`sales.service.ts` void) | status of the sale, the reversals | count returns, flip, recount, cancel what it left on credit, note, stock, ledger, treasury, balance, drawer | two voids; a return at the same time; lost after the flip | reversed exactly once, and never next to a return |
| Returns and rebates (`sale-returns.service.ts`) | `sale_returns` with turn and marks | create, createRebaja, resume, complete by hand, sweep | concurrent partial returns; retries; sweep against request; rounding | no more comes back than was sold or paid; complete means all moved once; nothing stays half done |
| Balance in favour (`saldo-favor.service.ts`) | balance row, auxiliary of movements | credit, charge, give back, sweep, report | claim then move; crash between; sweep against request | each movement once; never negative; the report explains every difference |
| Receivables (`finance.service.ts`) | accounts with payments and adjustments | pay, lower with a return, cancel and restore with the void | a payment read before an adjustment, amount and status in two writes | amount - paid is what is owed; no payment is lost; a return lowers the debt once |
| Notes without reference (`notas-sin-referencia.service.ts`) | notes with turn and marks | create, repeat, sweep | a payment while several receivables are lowered one by one; lost between steps | given once and in full, or leaves nothing |
| Offline sales (`offline-sales.service.ts`) | blocks of numbers, claims by uuid, tray of conflicts, missing units | reserve, synchronise, authorise, take the missing units out | repeated sync, claim taken over, drawer closed; a void during the late stock movement | stock out once per uuid; missing units leave once, and not for a voided sale |
| Orders and tables (`orders.service.ts`) | accounts with lines, units paid and `paymentSeq` | open, update, charge in parts, void | waiters charging one account, a failing sale that gives its part back, edits of what was read | nothing charged twice; closed means paid |
| Cash drawer (`caja.service.ts`) | sessions and movements | open, move, close with count | close against an open account or a sale in flight | no account open when it closes; expected cash = movements of the session |
| Documents of sales (`einvoicing.service.ts`) | documents, counters, resolutions, quota of the plan | issue an invoice, a POS document, a transcription or a note; renew a resolution | refusal by a unique index after quota and number were taken; two series with one prefix | one document per sale, one note per operation, quota charged = issued |
| Transmission to the DIAN (`transmision-dian.service.ts`) | state of the document, lock, XML in the bucket | sign, send, consult, declare a contingency, cron | unknown outcome of a send; late answers; the same number signed twice | what was sent is recorded; the verdict is the authority's; the XML kept is the validated one |
| Subscriptions (`billing.service.ts`, Wompi) | subscription, payments, access and credits | subscribe, buy, cancel, webhook, daily cycle | webhook against sweep against query; approval applied in steps | each charge applied once; a period is not charged twice; who paid uses it |
| Payroll (`payroll.service.ts`) | runs, slips, deductions | create, recalculate, delete, close; record and decide a deduction | bulk updates against decisions; the void of a sale that is being discounted | a deduction is discounted once, and the entry says what the slips say |
| Stock by lots (`stock.service.ts`) | items, lots, movements | sell FEFO, reverse, transfer, count | each is one transaction; what crosses is what its callers read; a void gives back to lots that moved since | items = sum of lots; nothing owed; value only changes with what is posted |
| Ledger (`core-ledger`) | entries, pending reconciliations, closed periods | post idempotent by source, reverse in two writes, rebuild | posting never throws: failures go to a reconciliation list that a script works off | an expense counts once, with what it says, or is left pending |
| Delivery platforms (`platform-settlements.service.ts`) | settlements, the settlement of each order | settle, annul a settlement | two settlements of one order; a void in between; an annulment lost halfway | an order is collected once, and never held for ever |
| Restaurant (`restaurant.service.ts`) | comandas, tables | open, send, cancel | check and then save, with no protocol | a table has one comanda |
| Annual closing (`cierre-anual.service.ts`) | the entries of closing and transfer of each year | close, reopen | two entries, two writes each to reverse; two requests; years out of order | a closing takes its year, once; 3705 has what it took |
| Daily cron and sweeps | time budget, companies | walk the companies, run each sweep | budget exhausted, two instances | every company is eventually swept |
| Production (`production.service.ts`) | orders, with what they cost | start, close, cancel | two closes at once; materials sold after they were checked; lost halfway | consumes and enters once; costed at what its lot is worth |
| Purchasing (`purchasing.service.ts`) | orders with units received and receipts | receive, cancel | receptions that cross or are repeated, sharing the tax of a line | goods in once; owed and posted = what came in |
| Identity, tenancy, control plane; catalogue, customers, sedes, employees, attendance, delivery; reports, taxes, parameters, audit, scanning, storage; scripts | documents of their own | CRUD, look-ups, computations | little cross-step protocol | not in the plan |

Interactions. Checkout, returns and void call the stock (a transaction of its
own), the ledger (never throws), treasury (never throws), the drawer, the balance
in favour, the receivables and payroll, and the documents. The sweep
`devoluciones-varadas.barrido.ts` calls `completarVaradas` of returns and notes
and `aplicarPendientes` of the balance. Production and purchasing call the stock and
the ledger; a settlement marks sales that a void flips. Offline sales and accounts of tables end
in the same `SalesService.create`. The void reads the returns and the returns
read the sale: that crossing has no lock, only checks on both sides.

## 2. Files

    SaldoFavor.tla          the balance in favour, step by step
    SaldoFavorPromesa.tla   what it promises, atomically
    DevolucionVenta.tla     returns, rebates and the void of one sale
    CobroVenta.tla          the checkout, with a void in the middle of it
    CobroPromesa.tla        what it promises, atomically
    Cartera.tla             the receivable of a sale: payments, returns, void
    NotaSinReferencia.tla   a discount over the receivables of a customer
    VentaOffline.tla        sales charged without network, and their missing units
    CuentaMesa.tla          the account of a table charged in parts
    Emision.tla             the issue of the documents of a sale
    TransmisionDian.tla     the transmission of one document
    Suscripcion.tla         the subscription of a company and its charges
    Nomina.tla              payroll runs and deductions
    Libro.tla               the ledger of the expenses, and its reconstruction
    CierreAnual.tla         the annual closing of the ledger and its reopening
    Existencias.tla         the stock by lots, and the production orders over it
    Recepcion.tla           the reception of a purchase order
    Liquidacion.tla         the settlement of a delivery platform
    SaldoFavorProofs, DevolucionVentaProofs, CobroVentaProofs, CarteraProofs,
    CuentaMesaProofs, LibroProofs, TransmisionDianProofs   the theorems of each; those
                            of seven more modules are at the end of some (section 8)
    Sumas.tla               lemmas on sums over finite sets, which they cite
    MCDevoluciones, MCCobros, MCOperacion, MCVive   the scenarios of the four runs
    MCAlmacen               the scenarios of the last four, part of MCOperacion
    MCSaldoFavor, MCDevolucionVenta, MCCobroVenta,  single instances, used by those
    MCCartera, MCNomina, MCSuscripcion,             and by the runs that find a
    MCTransmisionDian                               violation

Run one with `tlc -config Cobros.cfg MCCobros`; check a proof with
`tlapm CobroVentaProofs.tla`. PROJECT.json maps each definition to the lines it
stands for, and gives for each property a mutant: a plausible bug (an operator
whose comment says *Mutant*) that makes TLC find the property violated.

Definitions keep the code's Spanish. An actor is a request, a cashier, a sweep
or a void; `pc` is the await it is about to do, and between two awaits any other
actor may move. `Corte` kills the process of an actor there: nothing after it
runs, the `finally` neither. `Falla` and `Rechazo` are calls that throw or that
are refused; `Fallan` and `Cortan` are the steps where they may, `MaxFallas` and
`MaxCortes` how many times. Histories (`veces`, `entradas`, `salidas`,
`anulado`, `neto`, `avances`, `pisada`, `cruce`...) count effects; no action reads them.

## 3. SaldoFavor: the balance in favour

One customer. `saldo` is the row of `saldo_favor_clientes`; `mov` is the
auxiliary, one document per `<<tipo, origen>>` (its unique index) that is absent,
pending (`aplicado: false`) or applied; `venta` is the sale that pays with it.

| Action | Code |
|---|---|
| `PedirAbono`, `Verificar`, `PedirConsumo`, `PedirReverso` | the callers: completar of returns and notes, the unprotected check of crear, finalizeSale, void |
| `Reservar` | reservar: insert, or "already there" by duplicate key |
| `Reclamar`, `Mover`, `Desmarcar` | aplicar: claim (`aplicado` false to true), conditional `$inc`, undo of the claim whose failure is swallowed |
| `Soltar`, `BorrarVenta` | soltar after a rejected movement; the deletion of the sale |
| `BuscarConsumo` | revertirConsumo looks for the charge |
| `BarridoLee`, `BarridoSigue` | aplicarPendientes: one find of those older than ten minutes, then one by one |
| `Descuadre` | the difference reporte computes |

The age of a stranded movement is modelled by its consequence: functions last at
most 300 s, so a movement older than ten minutes has no request behind it
(`Varado`). The mutant `VaradoSinEdad` shows what that constant protects.

`SaldoFavorPromesa` is the abstract specification: a movement moves the balance
once, atomically, and never below zero. `CumplePromesa` is the refinement: only
`Mover`'s success is a step of it, everything else stutters.

## 4. DevolucionVenta: returns, rebates and void of one sale

One sale of one product (`Vendido` units, `Pagado` pesos of which
`PagadoConSaldo` with balance). `reg[k]` is the document of `sale_returns` of
operation k with its turn, its refund (`monto`), its part to the balance and the
marks of each step. Operations carry an idempotency key, which names them.

| Action | Code |
|---|---|
| `Pedir`, `Buscar`, `Leer`, `Crear` | create / createRebaja up to the insert of the record, with the plan computed from what was read |
| `RevisarEstado`, `RevisarSuma`, `Retirar` | the checks repeated after writing, and the deletion when one fails |
| `EmitirNota`, `Dividir`, `Guardar` | the fiscal note (fails closed), parteASaldoFavor, save |
| `CompletarPendiente`, `BarrerVarada`, `TomarTurno`, `EmitirNotaC` | resuming: by hand, by the sweep, or by a retry with the same key; the turn |
| `ReponerStock` .. `Cerrar`, `SoltarTurno` | completar: stock, drawer, balance and ledger, each movement followed by its mark |
| `ContarDevoluciones` .. `SacarAnulacion` | void |

Rounding is the code's: `Parte` is the accumulated share rounded half up and
`Reembolso` what corresponds to the accumulated units less what already left.
In the runs two units were paid 3 pesos, so half a sale does not divide evenly.

A turn lasts five minutes, a function at most 300 s, and a turn is taken after its
function started; the sweep, moreover, only takes records older than ten minutes.
So a turn expires only after its owner is gone.
`Corte` therefore frees it at once; that is the state the next actor would find.

What a reader may miss: a sale on credit (its receivable, abonarCartera and
cancelCredit: Cartera), the tip, a return to waste, and
operations without a key (their record cannot be resumed by a retry, only by
hand or by the sweep, so they are the operations with one client). The fiscal
note, the stock and the drawer are external steps that succeed whole or refuse;
the ledger, the treasury and the balance do not throw (safePost, safeReverse).

## 5. CobroVenta: the checkout

`candado` is the counter `idem:<key>` and `consecutivo` the counter `sale:<sede>`;
`venta[p]` is the sale that request p persisted, `pago` its charge to the balance
or its receivable, `asiento` its entry. The owner of a lock is history: the code
keeps none, and `SoltarLlave` deletes whatever lock is there.

| Action | Code |
|---|---|
| `Previa`, `TomarCandado`, `Robar`, `Ganadora` | create and tomarLlave: the sale may exist, insert of the lock, take over of one older than LLAVE_STALE_MS, sale of the winner or 409 |
| `Revisar`, `Validar`, `Vender`, `Numerar` | crear: look again with the lock, check, stock.sell, nextSaleNumber |
| `Persistir`, `CompensarDup`, `BuscarGanadora` | the insert with its unique key, and what a duplicate does |
| `Consumir`, `Deshacer`, `CrearCxc`, `Asentar` | finalizeSale: charge with balance, or deletion of the sale; receivable; entry |
| `Compensar`, `SoltarLlave` | rollbackSoldStock; the finally of create |
| `ElegirVenta` .. `RevertirSaldo` | void as far as it shares state with the checkout, with restoreCredit and the undo of its flip |

`Lentas` says whether a live request may outlive two minutes, the age at which
its lock is taken over. The platform allows it (300 s), so the runs that say
what holds in general set it TRUE; those with FALSE say what holds if requests
are fast. `CobroPromesa` is the abstract sale: units taken and sale created in
one step, once per key, only if there are units. The mapping counts as still
available what is in the hands of a request or a void.

Left out: deductions to employees (they undo like the balance), treasury and
platform orders; an offline sale is VentaOffline. A throw inside restoreCredit or the undo of a
flip is a `Corte` there: in both cases nothing after it runs.

## 6. The other components

**Cartera**: `cxc` is the receivable of one sale, with its payments and the
adjustment of each return.

| Action | Code |
|---|---|
| `LeerPago`, `EscribirPago`, `Asentar` | registerReceivablePayment: check against what was read, update conditioned on `paidAmount` and `status` (three attempts), entry |
| `Pedir`, `Crear`, `Revisar`, `Leer`, `Escribir`, `Guardar`, `Nota`, `Completar` | a return as far as its abonarCartera goes: adjustment and amount in one update, its mark |
| `Rendirse`, `Revertir`, `Revertir2`, `RevertirFalla`, `Borrar` | revertirAbono (amount, then status; its failure is only logged, `FallaRevertir`) and the deletion of a return refused |
| `Reanudar` | continuar, by a cashier or the sweep |
| `Contar`, `Flip`, `Recontar`, `Cancelar`, `Reversar`, `Restaurar`, `DeshacerFlip` | void with cancelCredit and restoreCredit |

**NotaSinReferencia**: one customer; `cxc` are the receivables from the oldest.
`Crear`, `Leer`, `Abonar`, `Sigue`, `GuardarCartera` lower them one by one;
`Nota`, `Revertir`, `Revertir2`, `Borrar` are the note and what its refusal undoes;
`Caja`, `Favor`, `Libro` and their marks pay the rest; `Reanudar` is a repeated
key or completarVaradas; `Pagar` a payment beside. The cap of the note and its
sharing among the invoices are left out: a note is emitted or refused. So is the failure
that revertirCartera swallows (section 9).

**VentaOffline**: one product. `Reservar` and `Cobrar` are the block of numbers
and the terminal; `Enviar` .. `Resolver` are sync (ventaPrevia, tomarCandado, the
sale, the tray of conflicts); `Regularizar` .. `AbrirCerrojo` are
regularizarFaltantes with its lock and the marks 'consumiendo',
'asiento_pendiente', 'regularizado'; `Anular` .. `AnularFaltante` the void. Left
out: prices and totals as charged, dates, whose tray it is, the document.

**CuentaMesa**: `cuenta` has the units ordered and paid, `paymentSeq` and mongoose's
`__v`. `Leer`, `Tomar`, `Vender`, `Enlazar`, `Devolver` are checkout: plan the part
(`Cabe`, `Parte`, `Salda`), take it under the condition on `paymentSeq`, sell, link
or give it back; `LeerEdicion`, `Guardar` are update (`Recorta` is buildLines);
`LeerAnulacion`, `Anular` void; `Contar`, `Cerrar`, `Abrir` the drawer. checkout writes
`lines.i.paidQty` by the position of the line, and here a line is its product: the same
as long as an edit does not reorder the lines of a charge under way.

**Emision**: `Pedir` looks for the document there is, `Cobrar` and `CobrarCredito`
take the quota, `Folio` the number, `Guardar` inserts under the unique indexes
(`Choques`), and what follows a refusal is `Reembolsar`, `Devolver`, `Existente`,
`LeerMayor`, `Subir`, up to MAX_INTENTOS. `Revisar` is the note that looks again
after it was refused; `Renovar`, `GuardarSede`, `FijarContador` the renewal
of a resolution. Contents, CUFE and amounts are left out.

**TransmisionDian**: `Tomar` and `Soltar` are the lock with its age, `Firmar`,
`Marcar`, `Enviar`, `Consultar`, `Guardar`, `Entregar` the send of one XML,
`Declarar`, `Reemplazar`, `Declarada` the contingency after INTENTOS sends without
an answer, `Restaurar` the return to the original, `Barrer` the cron. The authority
is external: it decides once per XML, accepts at most one, answers "already
processed" after that, and requests and answers may be lost or late (`Llega`).

**Suscripcion**: a day is the unit of time. `Alta`, `Comprar`, `Cancelar`; `Aviso` is
the webhook and the owner's query; `Reservar` .. `Liberar` apply an approval under a
lease, effect by effect; `Barrer` with its phases `Reconciliar`, `Retomar`,
`CobrarVencida`, `CobrarMora`, `Retirar` is runBillingCycle; `CrearPago`, `Transar`,
`Anotar` chargeRenewal. `Guardado` writes only the paths a copy changed, as
mongoose does. The bank is external (`Decide`). Amounts, add-ons and cards are left out.

**Nomina**: one employee. `Crear` .. `Construir` and `Guardar` are createRun and
recalcRun, `Borrar` removeRun, `Cuadrar`, `Arrastrar`, `Cerrar`, `Asentar` closeRun with
the balance carried over; `Registrar`, `Decidir` the deductions; `Cancelar`,
`MirarOtra`, `Anulada` cancelSaleDeduction and its undo. A bulk update is one step.
What a slip computes is left out.

**Libro**: the journal (`asientos`, never edited), the marks of reversed originals
(`marcados`, apart because the mark is another write), the movement in the bank and
the pending reconciliations (`pend`) of some expenses.

| Action | Code |
|---|---|
| `Crear`, `Editar`, `Guardar`, `Borrar`, `Borrado`, `Quitar`, `Mover`, `FallaBanco` | createExpense, updateExpense, deleteExpense, and their movement in the bank |
| `Buscar`, `Postear` | safePost and post, under the unique index of the live source |
| `Mirar`, `Tomar`, `Contra`, `Marcar` | safeReverse, reverseBySource, reverse: counter-entry under its unique index, mark, and the repair of a mark that is missing |
| `AMano` | an entry reversed from the ledger |
| `FallaLibro`, `Registra` | what safePost and safeReverse do with a failure |
| `Reconstruir`, `Remedio`, `Resolver` | reconstruirAsientos: what it makes of an expense, and which pending operations it closes |

An expense is paid through the bank; `version` stands for the amount, tax and date that
enter the entry. The expenses of recurring templates (finance.service.ts 797-840), which
post to the ledger and not to the bank, are left out, and so are manual entries and
closed months.

**CierreAnual**: `asiento` has the last closing and the last transfer of each year: its
mark of reversed (`vivo`), its counter-entry (`contra`) and its amount. `Cerrar`,
`Pendientes`, `Armar`, `Postear`, `MirarTraslado`, `Trasladar` are cerrar and trasladar;
`Reabrir`, `Siguiente`, `Buscar` reabrir, and `Contra`, `Marcar` its two reversals. `Mover`
is an automatic entry with the date of a past year, which post accepts; `tarde`
counts those that came after a later year was closed. The result of a year is one number.

**Existencias**: each operation of the stock is one transaction, and one action (on a
standalone MongoDB withTransaction goes on without a session, `stock.service.ts` 105-128,
and an operation may stop halfway: a development setup, not modelled). `Toma`
says what a consumption takes from each lot (sortFefo, consume), `Llega` where a
portion lands in the other branch. `Vender`, `AnularVenta`, `Trasladar`, `Ajustar` are
sell, reverseSale, transfer, adjust; `Contar` is the read of applyCount, before its adjust.
`Leer`, `Mirar`, `Reservar`, `Consumir`, `Ingresar`, `Guardar`, `Asentar` are complete;
`LeerEstado`, `GuardarEstado` start and cancel. Fractions, recipes of several lines and
what a sale does around its stock are left out.

**Recepcion**: one purchase order. `Renglon` is the conditional advance of a line with
its part of the tax (`ParteIva`), `Entrar` stock.entry, `Deber` the payable, `Recibo` the
receipt and the status, `Asentar` the entry; `LeerAnular`, `GuardarAnular` cancel. Every
line is of a product, and a unit costs one peso: what is abstracted is the price.

**Liquidacion**: `pedido` is the state of the sale of an order and its settlementId.
`Pedir`, `Crear`, `Reservar` (one order at a time, as updateMany writes), `Contar`, `Soltar`,
`Borrar`, `FallaSoltar`, `Asentar`, `Depositar` are create; `Tomar`, `Reversar`, `Retirar`,
`Liberar`, `Cerrar` void, resumable; `Anular`, `Voltear`, `Reponer` the void of a sale
as far as the settlement goes. Amounts, which validateSettlement checks, are left out.

## 7. Runs

Each run of several components has a variable (`escenario` or `parte`) that its
initial state chooses: a behaviour is about one component or one scenario, and the
variables of the others do not move (in Operacion they are 0, and the scenarios of
MCAlmacen share theirs). A property of such a run joins what its component promises. Every run uses CHECK_DEADLOCK FALSE: when all
requests are answered the system rests. Symmetry is used over actors that
nothing tells apart, and only in runs without liveness.

**DevolucionVenta** (what follows a sale):
- *rebaja*: a return in cash, a later rebate, two voids, a sweep, one cut. A void
  and a return exclude each other, units and pesos are bounded, a void is
  complete or undone, what moved keeps its record.
- *dos*: two returns that do not fit together, a double click, a cashier. The turn
  excludes; a complete return moved exactly its part.
- *fiada* and *fiadaDos* (Cartera): two payments, a return of more than is owed, a
  void and a lost process; a payment, a void and two returns that give the whole
  credit back. No payment is lost or posted twice, the debt goes down once per
  return by what its record says, a voided sale leaves no debt.

**Cobros** (the sale and what charges it):
- *contado*, *saldo*, *lento*, *anulado* (CobroVenta): a double click in cash against
  a sale on credit of the last units and a void; a double click charged to the
  balance; two sends that outlive their lock; the same charged to the balance.
  The lock excludes, units are backed, no gaps, one answer, charge and entry agree,
  the atomic promise is implemented. In *lento* and *anulado*, where the lock is taken
  from a live request, a key still has one sale (`EnCadaEscenario`).
- *sedes*, *papel* (Emision): four documents of three series, two with one prefix, and a
  renewal; two sales written on paper with one number by mistake and two requests
  for one note, while the month ends. One document per sale, one note per
  operation, quota charged = issued, nobody left without a number.
- *red*, *faltante* (VentaOffline): two sales of a terminal with one number, sent twice
  with claims that outlive their time; a sale registered with one unit too few, two
  requests for the missing unit, a purchase and a void.
- *partes*, *ronda* (CuentaMesa): three waiters over one account, a void and a
  closing; two waiters while the table orders another round and sends one back.
  What the account says is paid is what was sold, an account closed is paid, and
  only a charge that failed or an edit writes over what is paid.

**Operacion** (what runs beside the sale):
- *saldo* (SaldoFavor): 1 credit, 2 sales, 2 sweeps, 1 failure, 1 cut anywhere; it
  also implements its promise.
- *nomina*, *consumos* (Nomina): the runs of two months over a consumption larger than
  the salary, two admins, the void of its sale, a lost process; one run over two
  consumptions of different amounts. A closed run discounts each once, and says so.
- *dian* (TransmisionDian): a user and the cron, up to four requests or answers lost or late,
  a lost process, up to the contingency.
- *avisos*, *barridos*, *documentos* (Suscripcion): a subscription over five days with its
  cancellation, with a webhook beside the sweep; with two sweeps; with a package
  bought meanwhile.
- *altas* (Suscripcion): the owner subscribes twice beside a sweep, the second time
  at any moment of the first or of a renewal.
- *descuento*, *descuentos* (NotaSinReferencia): one discount beside a payment, a cashier
  and the sweep; two over the same receivables.
- *asientos*, *reconstruccion* (Libro): two requests over one expense, that may cross,
  with a reversal by hand and a failure; a request that edits twice beside the script,
  with two failures and a lost process. An expense counts once, and the last to
  work alone on it leaves it right, or pending.
- *produccion*, *bodega* (Existencias): two orders closed by two requests each at most,
  beside a sale, a start, a cancellation and a lost process; one order beside two
  sales with their voids, transfers both ways and a count, over three lots of flour of which
  two are one lot in two branches. The lots are the stock, an order produces once, and
  the inventory is worth what its ledger says.
- *compra* (Recepcion): three receptions of an order of 3 and 1 units with a tax of 2
  pesos (so that thirds do not divide evenly), a cancellation, and one call that fails or
  process that is lost, anywhere.
- *plataforma* (Liquidacion): two settlements of the same two orders, an annulment, a void,
  one failure and one lost process. With two annulments (623 thousand states) it also passes.
- *anual* (CierreAnual): two years, two requests that close, one that reopens, late
  entries, a lost process. With two that reopen and two late entries of each year
  (7.4 million states) it also passes. The whole run has 1.33 million states.

**Vive** (liveness, under FairSpec): a credit answered as done reaches the balance, a
return in course ends, a charge told to wait is answered, the return of a sale on
credit ends, a document in flight or in contingency gets its verdict. One call fails
(two in Cartera, up to four requests or answers in TransmisionDian), at any step, and
two processes (one in TransmisionDian) are lost, at any step but one window of
SaldoFavor: between the claim of a movement and the balance, or the claim undone
(`CortesSaldo`), where what was promised does not end (section 9).

Eight runs find a violation; each is a finding in PROJECT.json, with the comment
of the code it contradicts:

- **DevueltaYAnulada**. A return is cut between writing its record and looking at
  the sale again while a void recounted before that record. `continuar` resumes
  the record without looking at the status of the sale: the units and the money
  of a sale already reversed come back twice.
- **SaldoDeDosDevoluciones**. parteASaldoFavor reads what other records gave
  back and writes its own part later, with no check repeated: two returns at
  once give back more balance than was paid with. (What leaves in total stays
  bounded: the rest would have left in cash.)
- **MoraConPagado**. The owner subscribes again and pays while a renewal is in
  flight; the renewal is declined, its retries run out, and runBillingCycle
  suspends the company with the period it paid ahead (`motivo` says which path
  suspended it: that the period ended, the retries, or a sweep over what it had read
  before another wrote).
- **CobroSinVenta**. The first look of a retry, before the lock, answers with a sale
  whose request has not charged the balance yet; refused, that sale is deleted.
- **AbonoSobreDevolucion**. A payment is conditioned on what was paid and the
  status, not on the amount: read before a return and written after it, more is
  paid than is owed.
- **AnuladaYDescontada**. A run applies a consumption between the two looks of the
  void and releases it before the second: the void takes it for cancelled.
- **XmlDeOtroEnvio**. The answer to a contingency document is lost, the next send is
  told "already processed", and the original XML replaces the validated one.
- **AccesoSinRetirar**. The mark of an access withdrawn is never cleared: a company
  that came back and cancels again keeps its plan.

Why the bounds are enough. The hazards are about two actors crossing (two
requests, request and sweep, return and void) with one thing going wrong; each
scenario has the actors of its hazard, one more that may interfere, and one
failure and one cut (two where a recovery may itself be cut). Units and pesos are
the smallest that make an operation not fit, or not divide evenly. Every action
is taken in some run, and every property is broken by its mutant.

What the safety scenarios leave out, because the code states or leaves those
windows open (section 9): cuts between a movement of stock or drawer and its
mark, between the insert and the recheck of a return, and in the steps of a
void; cuts with the units out and no sale yet; Nomina with two requests over one
run or deduction at once (`Cruces`, `EnMedio` FALSE); a cancellation that meets
another request of its subscription (`Cruces` FALSE); failures after a 04/08 is
declared (`Fallas` empty in *dian*; Vive has them all); a failure of revertirAbono
(`FallaRevertir`, only in Vive); a regularisation that
outlives its lock (`Lentas` has only the sends); cuts in Emision but after the insert; a start
or cancellation that crosses the close or the reception of its order, the annulment of a
settlement still being created, a reopening or a late entry in the middle of a closing
(`Cruces` FALSE in Existencias, Recepcion, Liquidacion and CierreAnual).

Fairness (`FairSpec`). Weak, on three things: a request in flight goes on; the
sweep runs again and again (daily cron); and locks get old, a client told to
wait retries (the POS retries a 409). Nobody is forced to start a request, to
retry a failed one or to complete a return by hand, and cuts may happen, up to
their bound. Under it, liveness is the recovery: that of the sweep for the
returns and the balance, that of the takeover for the lock, that of the cron for
the documents.

## 8. Proofs

TLAPS checks every theorem for any number of actors, operations and keys, any
amounts, and any bound on failures and cuts; the assumptions on constants are
the ASSUME of each module or its `Supuestos` (amounts are numbers, kinds of actors
disjoint), which the type invariants of the runs check of theirs. A hypothesis
beyond those names something the code leaves open: without it TLC finds the
property violated, in a run of section 7 or in a limit of section 9.

**Sumas.** Lemmas on SumFunctionOnSet over a finite set: it is an integer, an element
can be taken out, it is monotone, changes by what one element changes, splits over
disjoint sets, and is 0 over zeros. `HayMaximo`: a finite set of numbers has a greatest one. They would follow by induction on the set,
which is out of reach here; instead each takes a smallest subset on which it
fails (`Menores`, from the well-foundedness of strict inclusion) and shows that
there is a smaller one.

**SaldoFavorProofs.** `TiposSiempre`, `NuncaNegativo`, `UnEfectoPorMovimiento`
and `ImplementaPromesa`, all from one inductive invariant `IInv`. EfectoUnico is
not inductive: nothing in it says that who is about to move the balance is alone.
IInv adds that a claimed movement is applied and has not moved (`ReclamoFresco`),
that nobody else has the claim (`ReclamoUnico`), that no sweep knows of a
movement its request still holds (`SinBarridoEncima`, where the age of stranded
movements is used), that a movement in hand has had no effect
(`EnManosSinEfecto`), and that what a sweep read is still in the auxiliary
(`BarridoConocido`). For the refinement, only a successful `Mover` changes
`Movidos`, and by exactly the movement claimed. `SaldoCuadraSiempre` builds on it:
every step of the promise adds its movement to the balance, so the balance is the
sum of what moved it (`SaldoEsLaSuma`); what moved it is in the auxiliary, so the
difference that the report shows is the sum of the movements half done.

**DevolucionVentaProofs.** `TiposSiempre`; `ExclusivoSiempre`, from `ConDueno`
(who works on a record has its turn); `LoMovidoQueda`, from `MovidoConRegistro`
(what moved has a record and is past the steps that may delete it), with cuts
anywhere; and `AnuladaODevueltaSiempre`: once a void is past its recount, every
record is still to be rechecked (`SoloRevisando`) and will be withdrawn, with
one void at a time past the flip (`UnaAnula`). Its hypothesis is that nothing is
cut at the recheck of the status or at the withdrawal, which is exactly the
window that the run DevueltaYAnulada shows to be open.
- `ReversadaSiempre`, if no void is cut after its flip: a void sale has a void
  between the flip and the stock, or its stock came back once and what follows,
  which does not throw, is done or under way (`Reversada`).
- `CompletaSiempre`, if nothing is cut at a mark: at each step of who has the turn
  the marks of the record say what moved (`Cuentas`), so the one that closes it
  moved each thing once and money for its amount, cash and balance together.
- `NadaDeMasSiempre`, with both hypotheses: of the returns that passed their second
  sum, units and pesos together fit in the sale (`AdmitidoCabe`). It is the second sum
  that admits a return, it counts every record written before it, and an admitted
  record stays with its amount; what moved was admitted; and none moves beside a void
  that reverses (`AnuladaODevuelta`). The first sum, that of the plan, is not needed.

**CobroVentaProofs.**
- `LlaveSiempreExcluye`, if no live request outlives its lock (`~Lentas`): who
  works on a key owns its lock, and only the lock of the dead gets old (`ConDueno`).
- `UnaVentaSiempre`, with no hypothesis: the unique index alone gives it.
- `RespuestaSiempreUnica`, without charges to the balance: then no sale is
  deleted (`Etapas`), and an answer is one's own sale or one of the key (`Respondidas`).
- `StockSiempreRespaldado` (`SinMermas`: a sale is deleted beside no void and no
  duplicate, because there are no charges to the balance, or nobody voids and no
  request outlives its lock; no cut with units in hand; the compensation does not
  fail): at most one void works on a sale (`AnulacionesVivas`), and a duplicate
  finds the sale that won (`DuplicadoConGanadora`), so it never compensates twice.
- `ImplementaPromesa` (`SinMermas` too): the promise sees as available what is on the
  shelf and what is in the hands of a request or of a void (`Disponible`), so the
  insert of the sale is its Vende, the flip of a void and the deletion are its Retira,
  the flip undone its Restaura, and taking, returning or compensating units is a stutter
  (`CaminoPeticion`, `CaminoQuieto`, `CaminoAnulacion`, with the lemmas of Sumas).
  That Vende and Restaura find enough is that the shelf is never below zero and
  their own units are among those in hand.
- `SerieSiempreSinHuecos` (`~Lentas`, a numbered charge is persisted): between
  the second look-up and the insert, the key has no sale (`SinGanadora`).
- `CobroYAsientoSiempre`, with no hypothesis: a charge to the balance or a receivable has
  its sale, and the entry of a sale charged so has that charge. The converse is not
  claimed: posting may fail, and leaves its entry to the reconciliation.

The hypotheses name what the code leaves open: the run
DevueltaYAnulada and the limits of section 9 are what happens without them.

**CuentaMesaProofs**. The hypothesis is `Supuestos` (the shape of the constants:
amounts are units, kinds of actors disjoint), which the runs check of theirs.
`TiposSiempre`; `CobrosNoSePisan`: nobody writes over what is paid unless a charge
has failed or an edit was saved; `CerradaSiemprePagada`: an account nobody wrote
over is closed only when it is paid. The invariant adds `LecturaVale` (a charge about to
take its part that read the `paymentSeq` there is read the account there is, until
somebody fails or edits) and `PedidoCabe` (what it asks for fits in what it read). That
the premise is needed is the first limit of CuentaMesa in section 9.
`CuentaSiempreCuadra`: the units paid are the sum of what each charge contributes, its
part while it is under way and what it sold afterwards (`PagadoEsLoTomado`), and a charge
has sold nothing before its sale (`SinVender`). The properties are parts of `MesaCuadra`.

**LibroProofs**. `TiposSiempre` and `UnSoloEfectoSiempre`, with no hypothesis: whoever races,
fails or is killed, an expense has at most one original that no counter-entry
cancels, and no original has two. UnSoloEfecto is not inductive: the index of the live
source looks at the marks, and the property at the counter-entries. The invariant
joins them: one unmarked original of each source (`UnVivo`), a mark only on an original that
has its counter-entry (`MarcadoTieneContra`), one counter-entry of each original
(`UnaReversa`), after it and saying the same (`Orden`), and whoever is about to mark
holds an original whose counter-entry is there (`ReversaVale`).
`LibroSiempreAlDia`, when the script's own reversals do not fail (`ScriptReversa`; section 9
has what happens when they do): of an expense whose last request worked alone, the
entry says what the expense says, or a reconciliation is pending. The property speaks
only of requests that ended, so the invariant says what holds at each step of one
that works alone (`AlDiaVale`: what it still has to do, `Tarea`; what is noted,
`Anotado`; what the script may close, `Remediado`), that each is at a step of its own
operation and reverses an entry of its own expense (`RutaVale`), and that nothing is
known of an expense that was not created (`SinRegistro`).

**CarteraProofs**. `TiposSiempre`; `AbonosSiempreCompletos`, with no more than `Supuestos`: a
payment adds itself and its amount in one write, on the condition that what was paid is
still what it read, so the sum of the payments moves with what was paid, and each is posted under the position it got
(`AbonoEnSuSitio`). `AjusteSiempreSegunRegistro` and `AnuladaSiempreSinDeuda`, if no process is lost
while a return looks at the sale again (the same window as above) and giving the debt back
does not fail (`~FallaRevertir`): who works on a return has
its turn (`EnTurno`), what it carries agrees with what it has lowered at each step
(`AlDia`, `Lleva`), and one void at a time is past the flip, where a void that
cancels found no return standing (`Anulacion`).

**TransmisionDianProofs**. `UnoTransmiteSiempre`: whoever is past the lock holds it (`Cerrojo`),
since the lock of the dead alone gets old. `VeredictoSiempreDeLaDian` and
`EnviadoSiempreRegistrado`, with no more than `Supuestos`: at each step the document has
the status its owner left (`Estado`), and what an actor was answered the authority said
(`Dicho`). `XmlSiempreElValidado`, if nothing fails in a contingency already declared
(`SinFallas`): there is one XML that the authority has accepted or may still accept, the
original while the document waits in the queue of the contingency and the one in the
bucket otherwise (`Validado`), and only what was declared is sent as a
contingency (`Contingente`). Each of the four
failures alone breaks it; the run XmlDeOtroEnvio has one.

**The smaller components.** The theorems about a module that is small beside its
neighbour are at the end of the neighbour's proofs, over an instance of it with constants
of its own: `E == INSTANCE Emision` in TransmisionDianProofs, `O == INSTANCE VentaOffline`
in CuentaMesaProofs, `L == INSTANCE Liquidacion` and `R == INSTANCE Recepcion` in
CarteraProofs, `C == INSTANCE CierreAnual` in LibroProofs, `N == INSTANCE
NotaSinReferencia` in DevolucionVentaProofs and `G == INSTANCE Suscripcion` in
SaldoFavorProofs. Each invariant was checked by TLC on the
instances of its run before it was proved.

- *Emision*: `UnDocumentoSiempre` and `CupoSiempreCuadra`, with no more than `Supuestos`. What is
  looked up before issuing does not matter; it is the indexes that leave one document of
  a sale, of an operation and of a number (`Unicos`), and an answer carries a document
  of the base that is its own (`Respondido`). The quota is charged by who is at a step
  that gives it back or issues (`Rutas`, `CupoVale`), never by who was answered.
- *VentaOffline*: `StockSiempreCuadra` with no more than `Supuestos`, from what each send has
  in hand at its step (`Envio`), a registered sale that has all its units, gone or
  missing (`Completa`), one void past the flip of each sale (`Volteos`), and the
  sum of all (`Suma`). `FaltanteSiempreUnaVez` if no regularisation outlives its lock
  (`Lentas` has no regularisation): who works on the missing units owns their lock
  (`Cerrojos`), so that what it took and posted is what the mark says (`Sacan`, `Faltas`), and
  the crossing with a void that the property excepts is the only one (`Cruzadas`).
- *Liquidacion*: `CobradoSiempreUnaVez`, if no settlement is annulled while its creation is
  under way (`~Cruces`). The property holds because of the order of the steps: an order
  is held before the entry (`Creacion`), freed after its reversal (`AnulacionDeL`), and
  the sale of an order that has a settlement stands (`Pedida`).
- *Recepcion*: `CompraSiempreCuadra`, if no cancellation crosses a reception (`~Cruces`). A
  line does not pass what was ordered, and a reception knows and carries no more than was
  advanced (`Tope`, `Sabe`); what was advanced is in the stock or on its way, and in what each reception
  has added, unless one was left halfway (`Bodegas`, `Caja`). The tax is to the
  peso because what a reception adds is the difference of two accumulated shares.
- *CierreAnual*: `AnioSiempreCuadra`, if no reopening and no late entry crosses a closing
  (`~Cruces`). Which years the two may work on at once (`Exclusion`, `Cierran`,
  `Reabren`), that a year closes after those before it (`Atras`), what a closing carries
  (`Lleva`), and that a transfer has a closing of its amount (`Pareja`).
- *NotaSinReferencia*: `DescuentoSiempreCuadra`, if no process is lost between the cash and its
  mark ("marcaCaja" is not in `Cortan`). A record has one worker (`Turnos`), who carries
  what the receivables went down at each step (`Cargas`), the record says what was done
  (`Registros`), and a receivable is its debt less its adjustments (`Rebajadas`).
- *Suscripcion*: `SuscripcionTipos`, with no more than `Supuestos`, and
  `CobroSeAplicaUnaVez` (AplicadoUnaVez, a part of CobradoSeUsa), if no process is lost
  between a period and its mark ("marcar" is not in `Cortan`; section 9 has what happens
  then). Only who creates a charge sends it, so what the bank decided stays and what is
  approved came from it (`Decidido`). An approval is applied under a lease in the payment
  itself: nobody else may take, free or close it meanwhile (`Arriendo`), so what its worker
  read of the effects done is what the payment says (`Marcas`). A period moved has its mark
  or a worker about to write it, and a closed payment has its mark (`Periodos`); a package
  is credited through the set of payments the company keeps, in the write that adds it, so
  a repeated effect adds nothing (`Creditos`), which needs no hypothesis.

What stays with TLC. The liveness properties: fairness and ENABLED are out of the
prover's reach. SaldoHastaLoPagado and the other properties the violation runs refute.
NadieSinNumero, which is false for arbitrary constants: it needs fewer competitors
than attempts, and the greatest number of a series, step by step. CerradaCuadra of Nomina, which
is false when two deductions have the same amount (section 9), so a theorem
would have to assume that amounts tell them apart. What CobradoSeUsa says beyond
AplicadoUnaVez: that no two renewals of one period are taken, and what a company that
paid, or that is past due, may use. ExistenciasCuadran, which the plan takes up.

## 9. Limits met while modelling

What the code leaves open and no property covers; line numbers of
`sales.service.ts` (SV), `sale-returns.service.ts` (SR) and
`saldo-favor.service.ts` (SF).

- A void lost after its flip leaves the sale void with nothing reversed; its
  retry answers "already void" and nothing resumes it (SV 1721).
- Stock and drawer move in one write and are marked in another (SR 788): lost
  between both, the movement is repeated when the return is resumed.
- revertirConsumo gives back what the movement of the charge says, also when
  that charge was cut before it took anything (SF 141).
- A process lost between the claim of a movement and the balance, or before the claim is
  undone (SF 171-199): the movement says applied and the balance did not move. The
  retry finds its origin reserved and is answered as done, the sweep only takes what is not
  applied, and only the report shows it (the header of the service, lines 55-56, says so);
  DescuadreExplicado says the report shows exactly that.
- A charge rejected whose `soltar` fails leaves a movement that the sweep
  applies to a deleted sale (SF 318).
- A process lost between stock.sell and the insert of the sale leaves its units
  out (SV 968).
- A duplicate whose winner was deleted meanwhile compensates twice: at once and
  on falling through to the general compensation (SV 1052).
- A live request older than two minutes loses its lock (SV 354): both sends take a
  number, and the one that loses the unique index leaves a gap in the series.
- A retry of a sale on credit whose receivable failed is answered with it as
  registered (SV 1408).
- A void in the middle of a checkout reverses before the entry is posted: the
  entry stays live on a void sale (SV 1338).

The other components, by the behaviour TLC showed when the window was opened or
by the code the model abstracts:

- *Emision*. refundDocument compares the month it charged with the current one;
  a number is lost when another was taken after it, or when an exhausted
  nextNumber pushed the counter past it (the comment at `einvoicing.service.ts`
  341-342 says it never is); a process lost before the refund leaves the quota
  charged; an invoice may be issued for a sale voided meanwhile; the amounts of
  previous notes are read and not checked again at the insert. NadieSinNumero
  holds with fewer than MAX_INTENTOS competitors.
- *Cartera*. A failure of revertirAbono is only logged (SR 1202-1206): the return is
  withdrawn and the receivable stays lowered. The status is computed from what was read: a
  payment or a revertirAbono that crosses another change leaves the amounts right and the status
  of before ("partial" of a paid account, or the reverse) until the next payment.
- *NotaSinReferencia*. A failure of revertirCartera is only logged
  (`notas-sin-referencia.service.ts` 237-241): the discount is withdrawn, or resumed over
  receivables already lowered. A note refused on resuming leaves the receivable lowered
  (create, 128: "Sin nota no se mueve nada"); two notes of one period may exceed
  the invoices together; lost between caja.movement and its mark, the cash
  leaves again.
- *Suscripcion*. A past-due company is charged again while an earlier attempt is
  unresolved; an approval after a cancellation revives the subscription, and a
  cancellation read before an approval suspends who paid; lost between
  createTransaction and its id, the payment is never reconciled; lost between a
  period and its mark, or with a mark whose write fails (which is not modelled apart: the
  cut there has the same effect), the period is repeated; two approvals at once lose one; a sweep
  that read a subscription past due or cancelled suspends it over a payment applied meanwhile.
- *Nomina*. A run is recalculated or deleted by a request that read it as a draft
  while another closes it. closeRun looks at how many deductions are applied to the run
  and at their sum (`payroll.service.ts` 1775-1786, "deben estar marcados `applied` a ESTA
  corrida"), not at which: with two consumptions of one amount, a recalculation lost between
  applying and saving its slips, and a void, a run closes whose slips discount one that is not tied to it.
- *VentaOffline*. A void that flips between the lock of a regularisation and its
  first mark leaves the missing units out of a void sale (`cruce`, which the property
  excepts; `sales.service.ts` 1676-1681 and 1729 say it does not happen); the lock
  of a regularisation is of two minutes and its request may live five; a late
  guardarConflicto leaves the tray open for a registered sale; a failing
  compensation is only logged; 'consumiendo' after a cut waits for a person.
- *CuentaMesa*. A failing charge gives back by writing the `paidQty` it read and leaves
  `paymentSeq`: the part another waiter took meanwhile is wiped and charged
  twice, or a stale claim closes the account with a part never charged
  (`orders.service.ts` 305-306 says nobody charges on old data; `pisada` marks these
  behaviours). update rewrites the lines with what it read, on a closed account
  too; void saves over a checkout under way; the drawer closes while a claim has
  not sold yet; a product paid beyond what is ordered settles oddly.

- *Libro*. Two requests over one expense are not ordered: the second posts, finds the entry
  of the first and takes its own for posted (`ledger-posting.service.ts` 54), and
  the amount of the ledger or of the bank may be that of the first with nothing
  pending (`alDia` is then false). A process killed between the save and the entry leaves
  nothing pending either. The script closes a pending reversal when
  the entry lives and the expense exists (`reconstruir-asientos.ts` 382): if its own
  reversal fails, that entry is of the old version, and its header (line 31) says that
  only what is already right is closed; with `FallaScript` = {"contra"} TLC finds it.
  A movement of the bank that fails is only logged.
- *CierreAnual*. A reopening that crosses a closing leaves a transfer without its closing
  (of the same year) or a closing that takes two years' results (of the next); an
  automatic entry of an earlier year that arrives between the check and the sum is taken by
  the later year; a year is reopened when the one after it had no movements and the next
  is closed. A year whose result is exactly zero, and what other sourceTypes
  post to 3605, are left out.
- *Existencias*. start and cancel save the status they read the order with: over a close
  that reserved meanwhile, an order that consumed and produced is open again and may
  be closed twice, or is cancelled (`Cruces` = TRUE). Materials sold between the check and the
  consumption leave the order done with nothing moved (the code logs it: 571). A
  transfer that lands on a lot of the same code and date with another cost changes the
  value of the stock. A count adjusts by the difference it read: what is sold in between
  is missing from what was counted. Removing the sample stock (darDeBajaMuestra) is left out.
- *Recepcion*. A line refused after earlier ones entered, or a call that fails, leaves goods
  without payable nor entry (`rota`), and the repeat skips them; two receptions that cross leave
  a complete order as "partial", and its receipts list lines that were skipped; cancel
  saves over a reception under way; the edition of a draft rewrites its lines.
- *Liquidacion*. The annulment of a settlement whose create has not posted yet frees
  its orders, and the entry comes after: the same order may be collected again.

Not modelled: the restaurant (check-then-save races only: a cancelled comanda frees
the table of another, reconcile closes a comanda on a claim later reverted); the
movements and the count of the drawer (a sale written while close adds up is not in
its expected cash); the entries of what is not an expense, one idempotent step, taken as
atomic where they are called, as the stock is where Existencias is not the module at
hand; treasury, payables and suppliers. Identity, tenancy, catalogue, reports and scripts
have little protocol across steps: they are most of the lines of the repository. Each
is in PROJECT.json with its reason.

## 10. Plan

Done, in this order: SaldoFavor, DevolucionVenta and CobroVenta with their
theorems; Cartera; Nomina; TransmisionDian; Suscripcion; Emision;
NotaSinReferencia; VentaOffline; CuentaMesa with its theorems; Libro with its
theorems; Liquidacion, Recepcion, CierreAnual and Existencias; the lemmas on sums, and with
them the accounts of SaldoFavor, DevolucionVenta and CuentaMesa; the theorems of Cartera
and TransmisionDian; LibroAlDia; the refinement of the checkout; the theorems of Emision,
VentaOffline, Liquidacion, CierreAnual, Recepcion and NotaSinReferencia; that a charge of
Suscripcion is applied once.

Theorems next:
1. Existencias: the lots are the stock and the value is the ledger's, from the sums over lots.
2. Suscripcion: the rest of CobradoSeUsa, from what a cancellation and a sweep read.

Modules next: the drawer's movements and Existencias in place of the atomic steps used
by the checkout and the returns; the sample stock; the walk of the cron over the
companies; DevolucionVenta and CobroVenta composed with SaldoFavor in place of
their atomic balance.
