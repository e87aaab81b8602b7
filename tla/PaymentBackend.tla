----------------------------- MODULE PaymentBackend -----------------------------
(***************************************************************************)
(* The NestJS backend taking orders and charging cards: POST /transactions *)
(* (CreateTransactionUseCase) and POST /transactions/:id/pay               *)
(* (ProcessPaymentUseCase and PspPaymentGateway), over the PostgreSQL       *)
(* tables products, transactions and deliveries and an external payment     *)
(* service provider (PSP).                                                  *)
(*                                                                          *)
(* Node runs many requests at once and switches between them at every       *)
(* await, so each request is a process with a program counter, and there    *)
(* is one action per stretch of code between two awaits.  What a request    *)
(* read before an await it keeps in memory and uses after it.               *)
(*                                                                          *)
(* A request is named by what it generates: the create request t makes the  *)
(* transaction with id t, the pay request r makes the PSP charge r and the  *)
(* delivery r.  Txns and Pays bound how many requests ever arrive.          *)
(***************************************************************************)
EXTENDS Integers, FiniteSets, FiniteSetsExt

CONSTANTS ProductIds,         \* product ids a client may name
          ValidIds,           \* those the create DTO accepts (@IsUUID)
          Catalog,            \* those with a row in "products" at the start
          InitialStock,       \* [ProductIds -> Nat]
          Price,              \* [ProductIds -> Nat], price_in_cents
          Quantities,         \* quantities clients ask for (DTO: @IsInt @Min(1))
          MaxInt4,            \* the largest value of a PostgreSQL INTEGER
          Txns,               \* POST /transactions requests
          Pays,               \* POST /transactions/:id/pay requests
          MinPolls, MaxPolls, \* fewest and most polls before the 30 s deadline
          PspUniqueReference, \* does the PSP refuse a reference it has seen?
          None                \* null

ASSUME BackendAssumption ==
  /\ Catalog \subseteq ProductIds /\ ValidIds \subseteq ProductIds
  /\ InitialStock \in [ProductIds -> Nat]
  /\ Price \in [ProductIds -> Nat]
  /\ Quantities \subseteq Nat \ {0}
  /\ MaxInt4 \in Nat
  /\ MinPolls \in Nat \ {0} /\ MaxPolls \in Nat /\ MinPolls <= MaxPolls
  /\ PspUniqueReference \in BOOLEAN
  /\ None \notin Txns \union Pays \union ProductIds

VARIABLES catalog,     \* ids of the rows of "products"
          stock,       \* products.stock
          row,         \* "transactions", status "ABSENT" where there is no row
          deliveries,  \* "deliveries"
          create,      \* the create requests
          pay,         \* the pay requests
          psp          \* the PSP's charges, by the pay request that asked

dbVars == <<catalog, stock, row, deliveries>>
vars   == <<catalog, stock, row, deliveries, create, pay, psp>>

Finished == {"APPROVED", "DECLINED", "ERROR"}
TransactionStatus == Finished \union {"PENDING"}
PspTerminal == {"APPROVED", "DECLINED", "ERROR", "VOIDED"}
PspStatus   == PspTerminal \union {"PENDING"}

CreatePc == {"idle", "save", "done", "dropped"}
PayPc == {"idle", "load", "product", "tokenize", "submitted", "poll", "sleep",
          "settle", "saved", "done", "dropped"}

\* DomainExceptionFilter looks at the text of an unknown exception: a database
\* that is down (ECONNREFUSED, ENOTFOUND, timeout) is answered like the PSP.
DatabaseError == {"INTERNAL_ERROR", "PAYMENT_GATEWAY_ERROR"}
CreateReply == DatabaseError \union
               {"none", "CREATED", "PRODUCT_NOT_FOUND", "INSUFFICIENT_STOCK"}
PayReply == Finished \union DatabaseError \union
            {"none", "TRANSACTION_NOT_FOUND", "TRANSACTION_ALREADY_PROCESSED",
             "PRODUCT_NOT_FOUND", "INSUFFICIENT_STOCK"}

\* The process holds the request: it has arrived and has not been answered.
CreateLive(t) == create[t].pc = "save"
PayLive(r)    == pay[r].pc \notin {"idle", "done", "dropped"}

NoRow == [status |-> "ABSENT", product |-> None, qty |-> 0, psp |-> None]

Row == [status: TransactionStatus \union {"ABSENT"},
        product: ProductIds \union {None}, qty: Nat, psp: Pays \union {None}]
Delivery == [id: Pays, txn: Txns, product: ProductIds, qty: Nat]
Create == [pc: CreatePc, product: ProductIds \union {None}, qty: Nat,
           reply: CreateReply]
\* txn, product and qty are the request's in-memory Transaction, seen the stock
\* of its in-memory Product, known whether it holds a pspTransactionId, outcome
\* the result of paymentGateway.charge.
Pay == [pc: PayPc, txn: Txns \union {None}, product: ProductIds \union {None},
        qty: Nat, seen: Nat, known: BOOLEAN, polls: Nat,
        outcome: Finished \union {"none"}, reply: PayReply]

\* Types of the tables, the requests in memory and the PSP's charges; in
\* particular products.stock never goes below zero, and a transaction that
\* exists names a product and a quantity.
TypeOK ==
  /\ catalog \subseteq ProductIds
  /\ stock \in [ProductIds -> Nat]
  /\ row \in [Txns -> Row]
  /\ deliveries \subseteq Delivery
  /\ create \in [Txns -> Create]
  /\ pay \in [Pays -> Pay]
  /\ psp \in [Pays -> PspStatus \union {"none", "requested"}]

Init ==
  /\ catalog = Catalog
  /\ stock = InitialStock
  /\ row = [t \in Txns |-> NoRow]
  /\ deliveries = {}
  /\ create = [t \in Txns |->
       [pc |-> "idle", product |-> None, qty |-> 0, reply |-> "none"]]
  /\ pay = [r \in Pays |->
       [pc |-> "idle", txn |-> None, product |-> None, qty |-> 0, seen |-> 0,
        known |-> FALSE, polls |-> 0, outcome |-> "none", reply |-> "none"]]
  /\ psp = [r \in Pays |-> "none"]
--------------------------------------------------------------------------------
(* CreateTransactionUseCase                                                 *)

CreateAnswer(t, code) ==
  create' = [create EXCEPT ![t] = [@ EXCEPT !.pc = "done", !.reply = code]]

\* The product is read and its stock compared; nothing is reserved.
CreateFindProduct(t, p, q) ==
  /\ create[t].pc = "idle"
  /\ \/ \E code \in DatabaseError : CreateAnswer(t, code)
     \/ p \notin catalog /\ CreateAnswer(t, "PRODUCT_NOT_FOUND")
     \/ p \in catalog /\ stock[p] < q /\ CreateAnswer(t, "INSUFFICIENT_STOCK")
     \/ /\ p \in catalog /\ stock[p] >= q
        /\ create' = [create EXCEPT ![t] =
             [pc |-> "save", product |-> p, qty |-> q, reply |-> "none"]]
  /\ UNCHANGED <<dbVars, pay, psp>>

\* Mutant: the migration forgot the amount CHECK and uses BIGINT.
InsertableUnpriced(p, q) == p \in catalog

\* CHECK (amount_in_cents > 0) on an INTEGER column, and the foreign key.
Insertable(p, q) == p \in catalog /\ Price[p] * q \in 1..MaxInt4

CreateSave(t) ==
  LET c == create[t] IN
  /\ c.pc = "save"
  /\ Insertable(c.product, c.qty)
  /\ row' = [row EXCEPT ![t] = [status |-> "PENDING", product |-> c.product,
                                qty |-> c.qty, psp |-> None]]
  /\ CreateAnswer(t, "CREATED")
  /\ UNCHANGED <<catalog, stock, deliveries, pay, psp>>

\* The insert fails: a constraint, or the database connection.
CreateFails(t) ==
  /\ create[t].pc = "save"
  /\ \E code \in DatabaseError : CreateAnswer(t, code)
  /\ UNCHANGED <<dbVars, pay, psp>>
--------------------------------------------------------------------------------
(* ProcessPaymentUseCase: up to the charge                                  *)

PayAnswer(r, code) ==
  pay' = [pay EXCEPT ![r] = [@ EXCEPT !.pc = "done", !.reply = code]]

PayArrives(r, t) ==
  /\ pay[r].pc = "idle"
  /\ pay' = [pay EXCEPT ![r] = [@ EXCEPT !.pc = "load", !.txn = t]]
  /\ UNCHANGED <<dbVars, create, psp>>

\* Mutant: execute does not ask isFinished().
LoadAnyTransaction(r) ==
  LET found == row[pay[r].txn] IN
  /\ pay[r].pc = "load"
  /\ \/ found.status = "ABSENT" /\ PayAnswer(r, "TRANSACTION_NOT_FOUND")
     \/ /\ found.status # "ABSENT"
        /\ pay' = [pay EXCEPT ![r] = [@ EXCEPT !.pc = "product",
                     !.product = found.product, !.qty = found.qty]]
  /\ UNCHANGED <<dbVars, create, psp>>

\* Mutant: a payment is also turned away while another of the order is under way.
LoadTransactionUnlessPaying(r) ==
  LET found == row[pay[r].txn]
      paying == \E o \in Pays \ {r} : pay[o].txn = pay[r].txn /\ PayLive(o) IN
  /\ pay[r].pc = "load"
  /\ \/ found.status = "ABSENT" /\ PayAnswer(r, "TRANSACTION_NOT_FOUND")
     \/ /\ found.status \in Finished \/ paying
        /\ PayAnswer(r, "TRANSACTION_ALREADY_PROCESSED")
     \/ /\ found.status = "PENDING" /\ ~ paying
        /\ pay' = [pay EXCEPT ![r] = [@ EXCEPT !.pc = "product",
                     !.product = found.product, !.qty = found.qty]]
  /\ UNCHANGED <<dbVars, create, psp>>

LoadTransaction(r) ==
  LET found == row[pay[r].txn] IN
  /\ pay[r].pc = "load"
  /\ \/ found.status = "ABSENT" /\ PayAnswer(r, "TRANSACTION_NOT_FOUND")
     \/ /\ found.status \in Finished
        /\ PayAnswer(r, "TRANSACTION_ALREADY_PROCESSED")
     \/ /\ found.status = "PENDING"
        /\ pay' = [pay EXCEPT ![r] = [@ EXCEPT !.pc = "product",
                     !.product = found.product, !.qty = found.qty]]
  /\ UNCHANGED <<dbVars, create, psp>>

\* The stock is read here, before the charge, and not compared yet.
LoadProduct(r) ==
  LET p == pay[r].product IN
  /\ pay[r].pc = "product"
  /\ \/ p \notin catalog /\ PayAnswer(r, "PRODUCT_NOT_FOUND")
     \/ /\ p \in catalog
        /\ pay' = [pay EXCEPT ![r] = [@ EXCEPT !.pc = "tokenize", !.seen = stock[p]]]
  /\ UNCHANGED <<dbVars, create, psp>>
--------------------------------------------------------------------------------
(* PspPaymentGateway.charge                                                 *)

ChargeResult(r, status) ==
  pay' = [pay EXCEPT ![r] = [@ EXCEPT !.pc = "settle", !.outcome = status]]

\* The acceptance token and the card token are in: the charge is submitted.
Tokenized(r) ==
  /\ pay[r].pc = "tokenize"
  /\ pay' = [pay EXCEPT ![r] = [@ EXCEPT !.pc = "submitted"]]
  /\ psp' = [psp EXCEPT ![r] = "requested"]
  /\ UNCHANGED <<dbVars, create>>

\* The PSP's answer brings the pspTransactionId; polling starts.
ChargeCreated(r) ==
  /\ pay[r].pc = "submitted"
  /\ psp[r] \in PspStatus
  /\ pay' = [pay EXCEPT ![r] = [@ EXCEPT !.pc = "poll", !.known = TRUE]]
  /\ UNCHANGED <<dbVars, create, psp>>

\* Any call to the PSP may throw (refused, unreachable, over 10 s, or its
\* answer lost): the catch block makes it an ERROR, whatever the PSP did.
ChargeFails(r) ==
  /\ pay[r].pc \in {"tokenize", "submitted", "poll"}
  /\ ChargeResult(r, "ERROR")
  /\ UNCHANGED <<dbVars, create, psp>>

\* Mutant: a charge the PSP made and took back counts as paid.
MapStatusVoidedPaid(s) ==
  CASE s \in {"APPROVED", "VOIDED"} -> "APPROVED"
    [] s = "DECLINED"               -> "DECLINED"
    [] OTHER                        -> "ERROR"

MapStatus(s) ==
  CASE s = "APPROVED"               -> "APPROVED"
    [] s \in {"DECLINED", "VOIDED"} -> "DECLINED"
    [] OTHER                        -> "ERROR"

Poll(r) ==
  /\ pay[r].pc = "poll"
  /\ \/ psp[r] \in PspTerminal /\ ChargeResult(r, MapStatus(psp[r]))
     \/ /\ psp[r] \notin PspTerminal
        /\ pay' = [pay EXCEPT ![r] = [@ EXCEPT !.pc = "sleep", !.polls = pay[r].polls + 1]]
  /\ UNCHANGED <<dbVars, create, psp>>

\* Mutant: the deadline is computed anew inside the loop.
WakeForever(r) ==
  /\ pay[r].pc = "sleep"
  /\ pay' = [pay EXCEPT ![r] = [@ EXCEPT !.pc = "poll", !.polls = 0]]
  /\ UNCHANGED <<dbVars, create, psp>>

\* After POLL_INTERVAL_MS: once more round the loop, or past the deadline.
Wake(r) ==
  /\ pay[r].pc = "sleep"
  /\ \/ /\ pay[r].polls < MaxPolls
        /\ pay' = [pay EXCEPT ![r] = [@ EXCEPT !.pc = "poll"]]
     \/ pay[r].polls >= MinPolls /\ ChargeResult(r, "ERROR")
  /\ UNCHANGED <<dbVars, create, psp>>
--------------------------------------------------------------------------------
(* ProcessPaymentUseCase: after the charge                                  *)

Saved(r, code) ==
  pay' = [pay EXCEPT ![r] = [@ EXCEPT !.pc = "saved", !.reply = code]]

PspId(r) == IF pay[r].known THEN r ELSE None

\* Mutant: a payment that failed technically leaves the transaction payable.
EntityRetryable(r, status) ==
  [status |-> IF status = "ERROR" THEN "PENDING" ELSE status,
   product |-> pay[r].product, qty |-> pay[r].qty, psp |-> PspId(r)]

\* transactionRepository.save writes the whole in-memory entity, whatever the
\* row says by now.
Entity(r, status) == [status |-> status, product |-> pay[r].product,
                      qty |-> pay[r].qty, psp |-> PspId(r)]

\* product.decreaseStock on the Product read before the charge.
StockSeen(r) == pay[r].seen >= pay[r].qty

\* Mutant: the UPDATE has no "AND stock >= :qty".
StockUnguarded(r) == pay[r].product \in catalog

\* UPDATE products SET stock = stock - :qty WHERE id = ... AND stock >= :qty
StockGuard(r) == pay[r].product \in catalog /\ stock[pay[r].product] >= pay[r].qty

\* Mutant: deliveries.transaction_id is not UNIQUE.
DeliveryAlwaysFree(r) == TRUE

\* uq_deliveries_transaction
DeliveryFree(r) == \A d \in deliveries : d.txn # pay[r].txn

\* Mutant: the stock read before the charge is decremented and written back.
ShipOutStale(r) ==
  /\ stock' = [stock EXCEPT ![pay[r].product] = pay[r].seen - pay[r].qty]
  /\ row' = [row EXCEPT ![pay[r].txn] = Entity(r, "APPROVED")]
  /\ deliveries' = deliveries \union
       {[id |-> r, txn |-> pay[r].txn, product |-> pay[r].product,
         qty |-> pay[r].qty]}

\* Mutant: the delivery is left to be saved some other time.
ShipOutUndelivered(r) ==
  /\ stock' = [stock EXCEPT ![pay[r].product] = @ - pay[r].qty]
  /\ row' = [row EXCEPT ![pay[r].txn] = Entity(r, "APPROVED")]
  /\ UNCHANGED deliveries

ShipOut(r) ==
  /\ stock' = [stock EXCEPT ![pay[r].product] = @ - pay[r].qty]
  /\ row' = [row EXCEPT ![pay[r].txn] = Entity(r, "APPROVED")]
  /\ deliveries' = deliveries \union
       {[id |-> r, txn |-> pay[r].txn, product |-> pay[r].product,
         qty |-> pay[r].qty]}

\* approve, decreaseStock and saveApprovedPayment; each failure rolls the
\* database transaction back and leaves the row as it was.
SettleApproved(r) ==
  /\ pay[r].pc = "settle" /\ pay[r].outcome = "APPROVED"
  /\ \/ /\ ~ (StockSeen(r) /\ StockGuard(r))
        /\ PayAnswer(r, "INSUFFICIENT_STOCK")
        /\ UNCHANGED dbVars
     \/ /\ StockSeen(r) /\ StockGuard(r) /\ ~ DeliveryFree(r)
        /\ PayAnswer(r, "INTERNAL_ERROR")
        /\ UNCHANGED dbVars
     \/ /\ StockSeen(r) /\ StockGuard(r) /\ DeliveryFree(r)
        /\ ShipOut(r)
        /\ Saved(r, "APPROVED")
        /\ UNCHANGED catalog
  /\ UNCHANGED <<create, psp>>

\* decline or markAsError, then save; the foreign key must still hold.
SettleRejected(r) ==
  /\ pay[r].pc = "settle" /\ pay[r].outcome \in {"DECLINED", "ERROR"}
  /\ \/ /\ pay[r].product \in catalog
        /\ row' = [row EXCEPT ![pay[r].txn] = Entity(r, pay[r].outcome)]
        /\ Saved(r, pay[r].outcome)
        /\ UNCHANGED <<catalog, stock, deliveries>>
     \/ /\ pay[r].product \notin catalog
        /\ PayAnswer(r, "INTERNAL_ERROR")
        /\ UNCHANGED dbVars
  /\ UNCHANGED <<create, psp>>

\* A statement fails or the connection breaks; an open transaction rolls back.
DatabaseFails(r) ==
  /\ \/ pay[r].pc \in {"load", "product"}
     \/ /\ pay[r].pc = "settle"
        /\ pay[r].outcome = "APPROVED" => StockSeen(r)
  /\ \E code \in DatabaseError : PayAnswer(r, code)
  /\ UNCHANGED <<dbVars, create, psp>>

Respond(r) ==
  /\ pay[r].pc = "saved"
  /\ pay' = [pay EXCEPT ![r] = [@ EXCEPT !.pc = "done"]]
  /\ UNCHANGED <<dbVars, create, psp>>
--------------------------------------------------------------------------------
(* The process and the PSP                                                  *)

\* The container stops and is started again (restart: unless-stopped, or a
\* deploy): every request in flight is gone, the tables and charges are not.
Restart ==
  /\ (\E t \in Txns : CreateLive(t)) \/ (\E r \in Pays : PayLive(r))
  /\ create' = [t \in Txns |-> IF CreateLive(t)
                  THEN [create[t] EXCEPT !.pc = "dropped"] ELSE create[t]]
  /\ pay' = [r \in Pays |-> IF PayLive(r)
               THEN [pay[r] EXCEPT !.pc = "dropped"] ELSE pay[r]]
  /\ UNCHANGED <<dbVars, psp>>

\* The charge request reaches the PSP, maybe after the backend gave up on it.
PspAccept(r) ==
  /\ psp[r] = "requested"
  /\ PspUniqueReference =>
       \A o \in Pays \ {r} : pay[o].txn = pay[r].txn => psp[o] \notin PspStatus
  /\ psp' = [psp EXCEPT ![r] = "PENDING"]
  /\ UNCHANGED <<dbVars, create, pay>>

PspDecide(r) ==
  /\ psp[r] = "PENDING"
  /\ \E s \in PspTerminal : psp' = [psp EXCEPT ![r] = s]
  /\ UNCHANGED <<dbVars, create, pay>>

\* The continuations of requests the process holds.
CreateStep(t) == CreateSave(t) \/ CreateFails(t)
PayStep(r) ==
  \/ LoadTransaction(r) \/ LoadProduct(r)
  \/ Tokenized(r) \/ ChargeCreated(r) \/ ChargeFails(r) \/ Poll(r) \/ Wake(r)
  \/ SettleApproved(r) \/ SettleRejected(r) \/ DatabaseFails(r) \/ Respond(r)

\* Everything but the arrival of a pay request.
Work ==
  \/ \E t \in Txns : \E p \in ValidIds, q \in Quantities :
       CreateFindProduct(t, p, q)
  \/ \E t \in Txns : CreateStep(t)
  \/ \E r \in Pays : PayStep(r)
  \/ Restart
  \/ \E r \in Pays : PspAccept(r) \/ PspDecide(r)

Next == Work \/ \E r \in Pays, t \in Txns : PayArrives(r, t)

Spec == Init /\ [][Next]_vars

\* Every await ends: axios gives a PSP call 10 s, the database answers or
\* fails, setTimeout fires.  Nothing is asked of clients, the PSP or restarts.
Fairness == /\ \A t \in Txns : WF_vars(CreateStep(t))
            /\ \A r \in Pays : WF_vars(PayStep(r))

FairSpec == Spec /\ Fairness
--------------------------------------------------------------------------------
(* Properties                                                               *)

\* How many units the deliveries in ds took.
Units(ds) == MapThenSumSet(LAMBDA d : d.qty, ds)

\* Goods are conserved: what a product has left and what its deliveries took
\* add up to what it had, through every race, rollback and restart; so no two
\* payments ever ship the same unit (saveApprovedPayment).
StockConserved ==
  \A p \in ProductIds :
    stock[p] + Units({d \in deliveries : d.product = p}) = InitialStock[p]

\* A transaction is shipped at most once, however many pay requests race on it
\* (the stock decrement, the row and the delivery stand or fall together).
OneDeliveryPerTransaction ==
  \A d, e \in deliveries : d.txn = e.txn => d = e

\* No goods without money: each delivery was made by a pay request for its own
\* transaction whose charge the PSP has approved.
DeliveryIsPaid ==
  \A d \in deliveries : /\ psp[d.id] = "APPROVED"
                         /\ pay[d.id].txn = d.txn

\* An APPROVED transaction has its delivery, of the product and quantity the
\* customer ordered: the three writes of saveApprovedPayment are never seen apart.
ApprovedIsDelivered ==
  \A t \in Txns : row[t].status = "APPROVED" =>
    \E d \in deliveries : d.txn = t /\ d.product = row[t].product
                                    /\ d.qty = row[t].qty

\* What a pay request answers is what it did: it answers APPROVED exactly when
\* it made a delivery, and any error or rejection means it shipped nothing.
RepliesAreHonest ==
  \A r \in Pays : pay[r].pc = "done" =>
    (pay[r].reply = "APPROVED" <=> \E d \in deliveries : d.id = r)

\* A pay request turned away as TRANSACTION_ALREADY_PROCESSED charged nobody,
\* and the transaction still is in a final status whenever the client asks.
AlreadyProcessedIsSettled ==
  \A r \in Pays : pay[r].reply = "TRANSACTION_ALREADY_PROCESSED" =>
    /\ psp[r] = "none"
    /\ row[pay[r].txn].status \in Finished

\* Every transaction that exists is for a product the store has, and its amount
\* is one the PSP can be asked for: positive, and within the INTEGER column.
OrdersArePriced ==
  \A t \in Txns : row[t].status # "ABSENT" =>
    /\ row[t].product \in catalog
    /\ Price[row[t].product] * row[t].qty \in 1..MaxInt4

\* Stock, deliveries and approvals move together: no step changes the stock or
\* the deliveries except by booking one delivery, taking exactly its quantity
\* from its product and leaving its transaction APPROVED.
GoodsMoveTogether ==
  stock' # stock \/ deliveries' # deliveries =>
    \E d \in deliveries' :
      /\ d \notin deliveries /\ deliveries' = deliveries \union {d}
      /\ stock' = [stock EXCEPT ![d.product] = @ - d.qty]
      /\ row'[d.txn].status = "APPROVED"

GoodsAlwaysMoveTogether == [][GoodsMoveTogether]_vars

\* No step reopens a transaction: once final it never is PENDING again, so a
\* finished purchase cannot be paid once more by a request that arrives later.
NeverReopened ==
  [][\A t \in Txns : row[t].status \in Finished => row'[t].status \in Finished]_vars

\* Every accepted pay request is answered, or lost with the process: the poll
\* loop of a PSP that never decides ends at its deadline.
PaysAreAnswered ==
  \A r \in Pays : pay[r].pc = "load" ~> pay[r].pc \in {"done", "dropped"}

\* The backend implements the promise of PaymentLedger.
Ledger == INSTANCE PaymentLedger WITH
  shelf   <- stock,
  order   <- [t \in Txns |-> [status |-> row[t].status, product |-> row[t].product,
                              qty |-> row[t].qty]],
  shipped <- {d.txn : d \in deliveries}

ImplementsLedger == Ledger!LedgerSpec
--------------------------------------------------------------------------------
(* Why the invariants above are inductive                                   *)

\* The request holds a Transaction it loaded and will write back.
Holding == {"product", "tokenize", "submitted", "poll", "sleep", "settle"}

\* A row exists only once its create request is past the insert; a create
\* request about to insert names what the DTO let through.
CreatesOK ==
  \A t \in Txns :
    /\ create[t].pc \in {"idle", "save"} => row[t].status = "ABSENT"
    /\ create[t].pc = "save" =>
         create[t].product \in ProductIds /\ create[t].qty \in Quantities
    /\ row[t].status # "ABSENT" => row[t].product \in ProductIds

\* The transaction that the pay request r, in state x, holds in memory exists and
\* has that quantity.  The request learns APPROVED from the PSP alone, and charges
\* only once it holds a transaction.
PayOK(r, x) ==
  /\ x.pc # "idle" => x.txn \in Txns
  /\ x.pc \in Holding => /\ row[x.txn].status # "ABSENT"
                         /\ x.qty = row[x.txn].qty
  /\ x.outcome = "APPROVED" => psp[r] = "APPROVED"
  /\ x.pc \in {"idle", "load", "product", "tokenize"} => psp[r] = "none"
  /\ x.pc \in Holding \union {"idle", "load"} => x.reply = "none"
  /\ x.reply = "APPROVED" <=> \E d \in deliveries : d.id = r

PaysOK == \A r \in Pays : PayOK(r, pay[r])

\* A delivery copies the product and quantity of its transaction's row.
DeliveriesMatchRows ==
  \A d \in deliveries :
    /\ row[d.txn].status # "ABSENT"
    /\ d.product = row[d.txn].product /\ d.qty = row[d.txn].qty

\* What holds even when the ids of products are rewritten under a request.
CoreInv == /\ TypeOK
           /\ CreatesOK
           /\ PaysOK
           /\ DeliveriesMatchRows
           /\ OneDeliveryPerTransaction
           /\ DeliveryIsPaid
           /\ ApprovedIsDelivered
           /\ AlreadyProcessedIsSettled

\* What a request that is about to save holds, under an id the store still has, is
\* the product of the row: the save does not turn the order into another one.
SavesItsOwn == \A r \in Pays :
  pay[r].pc = "settle" /\ pay[r].product \in catalog =>
    pay[r].product = row[pay[r].txn].product

\* The backend alone never changes the product of a row, so of what a request
\* holds only the status can have become stale.
PaysFresh == \A r \in Pays :
  pay[r].pc \in Holding => pay[r].product = row[pay[r].txn].product

IInv == CoreInv /\ PaysFresh
--------------------------------------------------------------------------------
(* What the documentation says and the code does not do                     *)

\* "On DECLINED/ERROR the stock is untouched" (transactions.controller.ts): a
\* transaction whose status is DECLINED or ERROR has shipped nothing.
RejectedLeavesStock ==
  \A t \in Txns : row[t].status \in {"DECLINED", "ERROR"} =>
    \A d \in deliveries : d.txn # t

\* "Transaction already processed (idempotency)" (transactions.controller.ts):
\* paying a transaction again never makes a second approved charge.
ChargedOnce ==
  \A r, o \in Pays :
    /\ psp[r] = "APPROVED" /\ psp[o] = "APPROVED"
    /\ pay[r].txn = pay[o].txn
    => r = o

\* "polls until a terminal status" (transactions.controller.ts): a payment that
\* was settled with the PSP's id was settled on the PSP's final word.
PolledToTheEnd ==
  \A r \in Pays : pay[r].pc = "saved" /\ pay[r].known => psp[r] \in PspTerminal

\* "On APPROVED the stock decrement and delivery assignment happen atomically"
\* (transactions.controller.ts): a pay request that learnt the PSP approved its
\* charge, and was answered without a database failure, has delivered.
ApprovedChargeIsDelivered ==
  \A r \in Pays :
    /\ pay[r].pc = "done" /\ pay[r].outcome = "APPROVED"
    /\ pay[r].reply \notin DatabaseError
    => \E d \in deliveries : d.id = r

\* PAYMENT_GATEWAY_ERROR is "proveedor de pagos no disponible" (README.md): the
\* answer is given only when the call to the PSP failed.
GatewayErrorIsGateways ==
  \A r \in Pays : pay[r].reply = "PAYMENT_GATEWAY_ERROR" => pay[r].outcome = "ERROR"
================================================================================
