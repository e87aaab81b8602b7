-------------------------- MODULE PaymentBackendProofs --------------------------
(* Theorems about PaymentBackend, for every value of its constants.         *)
EXTENDS PaymentBackend, FiniteSetTheorems, TLAPS

--------------------------------------------------------------------------------
(* Type correctness                                                         *)

\* The updates the actions make to one pay request keep its type
\* (ProcessPaymentUseCase.execute's local variables).
LEMMA PayFields ==
  ASSUME NEW y \in Pay, NEW c \in PayPc
  PROVE  /\ [y EXCEPT !.pc = c] \in Pay
         /\ \A code \in PayReply : [y EXCEPT !.pc = c, !.reply = code] \in Pay
         /\ \A t \in Txns : [y EXCEPT !.pc = c, !.txn = t] \in Pay
         /\ \A p \in ProductIds, n \in Nat :
              [y EXCEPT !.pc = c, !.product = p, !.qty = n] \in Pay
         /\ \A n \in Nat : [y EXCEPT !.pc = c, !.seen = n] \in Pay
         /\ [y EXCEPT !.pc = c, !.known = TRUE] \in Pay
         /\ \A n \in Nat : [y EXCEPT !.pc = c, !.polls = n] \in Pay
         /\ \A s \in Finished : [y EXCEPT !.pc = c, !.outcome = s] \in Pay
  BY DEF Pay

\* Replacing one pay request by a well-typed one keeps the table of requests
\* well-typed (the Node process holding its requests).
LEMMA PayTyped ==
  ASSUME TypeOK, NEW r \in Pays, NEW x \in Pay, pay' = [pay EXCEPT ![r] = x]
  PROVE  pay' \in [Pays -> Pay]
  BY DEF TypeOK

\* The same for create requests (CreateTransactionUseCase.execute).
LEMMA CreateAnswerTyped ==
  ASSUME TypeOK, NEW t \in Txns, NEW code \in CreateReply, CreateAnswer(t, code)
  PROVE  create' \in [Txns -> Create]
<1>1. create[t] \in Create
  BY DEF TypeOK
<1>2. [create[t] EXCEPT !.pc = "done", !.reply = code] \in Create
  BY <1>1 DEF Create, CreatePc
<1> QED
  BY <1>2 DEF CreateAnswer, TypeOK

\* The tables after the migrations, and no request, are well-typed (Init).
LEMMA TypeInit == Init => TypeOK
  BY BackendAssumption DEF Init, TypeOK, NoRow, Row, Delivery, Create, Pay,
     BackendAssumption, CreatePc, PayPc, CreateReply, PayReply, Finished

\* The two actions that write all three tables or one of them, taken apart from
\* the others (saveApprovedPayment and transactionRepository.save).
LEMMA EntityTyped ==
  ASSUME TypeOK, PaysOK, NEW r \in Pays, pay[r].pc = "settle",
         pay[r].product \in ProductIds, NEW s \in Finished
  PROVE  /\ pay[r].txn \in Txns /\ pay[r].qty \in Nat
         /\ Entity(r, s) \in Row
<1>1. pay[r] \in Pay
  BY DEF TypeOK
<1>2. pay[r].txn \in Txns /\ pay[r].qty \in Nat
  BY <1>1 DEF PaysOK, PayOK, Pay
<1> QED
  BY <1>1, <1>2 DEF Entity, PspId, Row, TransactionStatus

\* The three writes of saveApprovedPayment keep the tables' types; the stock
\* guard of the UPDATE keeps products.stock a natural number.
LEMMA TypeShipOut ==
  ASSUME TypeOK, PaysOK, NEW r \in Pays, pay[r].pc = "settle",
         StockGuard(r), ShipOut(r), Saved(r, "APPROVED"),
         UNCHANGED <<catalog, create, psp>>
  PROVE  TypeOK'
<1>1. pay[r] \in Pay /\ pay[r].product \in ProductIds
  BY DEF TypeOK, StockGuard
<1>2. pay[r].txn \in Txns /\ pay[r].qty \in Nat /\ Entity(r, "APPROVED") \in Row
  BY <1>1, EntityTyped DEF Finished
<1>3. row' \in [Txns -> Row]
  BY <1>2 DEF ShipOut, TypeOK
<1>4. deliveries' \subseteq Delivery
  BY <1>1, <1>2 DEF ShipOut, TypeOK, Delivery
<1>5. stock' \in [ProductIds -> Nat]
  BY <1>1, <1>2 DEF ShipOut, StockGuard, TypeOK
<1>6. pay' \in [Pays -> Pay]
  BY <1>1, PayFields, PayTyped DEF Saved, PayReply, PayPc, Finished
<1> QED
  BY <1>3, <1>4, <1>5, <1>6 DEF TypeOK

\* One turn of pollForResult: a terminal status, or one more poll counted.
LEMMA TypePoll ==
  ASSUME TypeOK, NEW r \in Pays, Poll(r)
  PROVE  TypeOK'
<1>1. pay[r] \in Pay /\ pay[r].polls + 1 \in Nat /\ {"sleep", "settle"} \subseteq PayPc
  BY DEF TypeOK, Pay, PayPc
<1>2. MapStatus(psp[r]) \in Finished
  BY DEF MapStatus, Finished
<1>3. [pay[r] EXCEPT !.pc = "sleep", !.polls = pay[r].polls + 1] \in Pay
  BY <1>1, PayFields
<1>4. [pay[r] EXCEPT !.pc = "settle", !.outcome = MapStatus(psp[r])] \in Pay
  BY <1>1, <1>2, PayFields
<1>5. pay' \in [Pays -> Pay]
  BY <1>3, <1>4, PayTyped DEF Poll, ChargeResult
<1> QED
  BY <1>5 DEF Poll, TypeOK, dbVars

\* Each await-to-await stretch of a pay request keeps the types
\* (ProcessPaymentUseCase.execute and PspPaymentGateway.charge).
LEMMA TypePayStep ==
  ASSUME TypeOK, CreatesOK, PaysOK, NEW r \in Pays, PayStep(r)
  PROVE  TypeOK'
<1>0. pay[r] \in Pay /\ pay[r].polls + 1 \in Nat
  BY DEF TypeOK, Pay
<1> USE DEF TypeOK, PayPc, PayReply, DatabaseError, Finished, dbVars
<1>1. CASE LoadTransaction(r)
  <2>1. CASE /\ row[pay[r].txn].status = "PENDING"
             /\ pay' = [pay EXCEPT ![r] = [@ EXCEPT !.pc = "product",
                          !.product = row[pay[r].txn].product,
                          !.qty = row[pay[r].txn].qty]]
    <3>1. pay[r].txn \in Txns
      BY <1>1 DEF LoadTransaction, PaysOK, PayOK
    <3>2. row[pay[r].txn].product \in ProductIds /\ row[pay[r].txn].qty \in Nat
      BY <2>1, <3>1 DEF CreatesOK, Row
    <3> QED
      <4> DEFINE x == [pay[r] EXCEPT !.pc = "product", !.product = row[pay[r].txn].product,
                                     !.qty = row[pay[r].txn].qty]
      <4>1. x \in Pay
        BY <1>0, <3>2, PayFields
      <4>2. pay' = [pay EXCEPT ![r] = x] /\ UNCHANGED <<dbVars, create, psp>>
        BY <1>1, <2>1 DEF LoadTransaction
      <4> HIDE DEF x
      <4>3. pay' \in [Pays -> Pay]
        BY <4>1, <4>2, PayTyped
      <4> QED
        BY <4>2, <4>3
  <2>2. CASE \E code \in PayReply : PayAnswer(r, code)
    BY <1>1, <2>2, <1>0, PayFields, PayTyped DEF LoadTransaction, PayAnswer
  <2> QED
    BY <1>1, <2>1, <2>2 DEF LoadTransaction
<1>2. CASE LoadProduct(r)
  BY <1>0, PayFields, PayTyped, <1>2, BackendAssumption
     DEF LoadProduct, PayAnswer, BackendAssumption
<1>3. CASE Tokenized(r)
  BY <1>3, <1>0, PayFields, PayTyped DEF Tokenized
<1>4. CASE ChargeCreated(r)
  BY <1>4, <1>0, PayFields, PayTyped DEF ChargeCreated
<1>5. CASE ChargeFails(r)
  BY <1>5, <1>0, PayFields, PayTyped DEF ChargeFails, ChargeResult
<1>6. CASE Poll(r)
  BY <1>6, TypePoll
<1>7. CASE Wake(r)
  BY <1>7, <1>0, PayFields, PayTyped DEF Wake, ChargeResult
<1>8. CASE SettleApproved(r)
  <2>1. CASE UNCHANGED dbVars /\ \E code \in PayReply : PayAnswer(r, code)
    BY <1>8, <2>1, <1>0, PayFields, PayTyped DEF SettleApproved, PayAnswer
  <2>2. CASE ShipOut(r) /\ Saved(r, "APPROVED") /\ StockGuard(r)
             /\ UNCHANGED catalog
    BY <1>8, <2>2, TypeShipOut DEF SettleApproved
  <2> QED
    BY <1>8, <2>1, <2>2 DEF SettleApproved
<1>9. CASE SettleRejected(r)
  <2>1. CASE pay[r].product \in catalog
    <3>1. pay[r].outcome \in Finished /\ pay[r].txn \in Txns
          /\ Entity(r, pay[r].outcome) \in Row
      BY <1>9, <2>1, EntityTyped DEF SettleRejected
    <3>2. /\ row' = [row EXCEPT ![pay[r].txn] = Entity(r, pay[r].outcome)]
          /\ UNCHANGED <<catalog, stock, deliveries>>
      BY <1>9, <2>1 DEF SettleRejected
    <3>3. pay' \in [Pays -> Pay]
      BY <1>9, <2>1, <3>1, <1>0, PayFields, PayTyped DEF SettleRejected, Saved
    <3> QED
      BY <1>9, <3>1, <3>2, <3>3 DEF SettleRejected
  <2>2. CASE pay[r].product \notin catalog
    BY <1>9, <2>2, <1>0, PayFields, PayTyped DEF SettleRejected, PayAnswer
  <2> QED
    BY <2>1, <2>2
<1>10. CASE DatabaseFails(r)
  BY <1>10, <1>0, PayFields, PayTyped DEF DatabaseFails, PayAnswer
<1>11. CASE Respond(r)
  BY <1>11, <1>0, PayFields, PayTyped DEF Respond
<1> QED
  BY <1>1, <1>2, <1>3, <1>4, <1>5, <1>6, <1>7, <1>8, <1>9, <1>10, <1>11
     DEF PayStep

\* So does every step of the backend: both use cases, a restart, the PSP.
LEMMA TypeStep ==
  ASSUME TypeOK, CreatesOK, PaysOK, [Next]_vars
  PROVE  TypeOK'
<1> USE BackendAssumption DEF TypeOK, BackendAssumption
<1>1. ASSUME NEW t \in Txns, NEW p \in ValidIds, NEW q \in Quantities,
             CreateFindProduct(t, p, q)
      PROVE  TypeOK'
  <2>1. CASE \E code \in CreateReply : CreateAnswer(t, code)
    BY <1>1, <2>1, CreateAnswerTyped DEF CreateFindProduct, dbVars
  <2>2. CASE create' = [create EXCEPT ![t] =
               [pc |-> "save", product |-> p, qty |-> q, reply |-> "none"]]
    <3>1. [pc |-> "save", product |-> p, qty |-> q, reply |-> "none"] \in Create
      BY DEF Create, CreatePc, CreateReply
    <3> QED
      BY <1>1, <2>2, <3>1 DEF CreateFindProduct, dbVars
  <2> QED
    BY <1>1, <2>1, <2>2 DEF CreateFindProduct, CreateReply, DatabaseError
<1>2. ASSUME NEW t \in Txns, CreateSave(t)
      PROVE  TypeOK'
  <2>1. create' \in [Txns -> Create]
    BY <1>2, CreateAnswerTyped DEF CreateSave, CreateReply
  <2>2. row' \in [Txns -> Row]
    BY <1>2 DEF CreateSave, CreatesOK, Row, TransactionStatus
  <2> QED
    BY <1>2, <2>1, <2>2 DEF CreateSave
<1>3. ASSUME NEW t \in Txns, CreateFails(t)
      PROVE  TypeOK'
  BY <1>3, CreateAnswerTyped DEF CreateFails, CreateReply, DatabaseError, dbVars
<1>4. ASSUME NEW r \in Pays, NEW t \in Txns, PayArrives(r, t)
      PROVE  TypeOK'
  <2>1. pay[r] \in Pay
    OBVIOUS
  <2> QED
    BY <1>4, <2>1, PayFields, PayTyped DEF PayArrives, PayPc, dbVars
<1>5. ASSUME NEW r \in Pays, PayStep(r)
      PROVE  TypeOK'
  BY <1>5, TypePayStep
<1>6. ASSUME Restart
      PROVE  TypeOK'
  <2>1. create' \in [Txns -> Create]
    <3>1. \A t \in Txns : create[t] \in Create /\ [create[t] EXCEPT !.pc = "dropped"] \in Create
      BY DEF Create, CreatePc
    <3> QED
      BY <1>6, <3>1 DEF Restart
  <2>2. pay' \in [Pays -> Pay]
    <3>1. \A r \in Pays : pay[r] \in Pay /\ [pay[r] EXCEPT !.pc = "dropped"] \in Pay
      BY PayFields DEF PayPc
    <3> QED
      BY <1>6, <3>1 DEF Restart
  <2> QED
    BY <1>6, <2>1, <2>2 DEF Restart, dbVars
<1>7. ASSUME NEW r \in Pays, PspAccept(r) \/ PspDecide(r)
      PROVE  TypeOK'
  BY <1>7 DEF PspAccept, PspDecide, PspStatus, dbVars
<1>8. CASE UNCHANGED vars
  BY <1>8 DEF vars
<1> QED
  BY <1>1, <1>2, <1>3, <1>4, <1>5, <1>6, <1>7, <1>8 DEF Next, Work, CreateStep

--------------------------------------------------------------------------------
(* The inductive invariant                                                  *)

\* The inductive invariant holds of a freshly migrated database.
LEMMA InvInit == Init => IInv
  BY TypeInit DEF Init, NoRow, IInv, CoreInv, PaysFresh, CreatesOK, PaysOK, PayOK, Holding,
     DeliveriesMatchRows, OneDeliveryPerTransaction, DeliveryIsPaid,
     ApprovedIsDelivered, AlreadyProcessedIsSettled

\* A step of one pay request that touches neither the tables nor the PSP keeps
\* the invariant if the request's new state fits the tables and the PSP
\* (every await of ProcessPaymentUseCase up to the save).
LEMMA PayUpdate ==
  ASSUME CoreInv, TypeOK', NEW r \in Pays, NEW x \in Pay,
         pay' = [pay EXCEPT ![r] = x], UNCHANGED <<dbVars, create, psp>>,
         PayOK(r, x), pay[r].pc = "idle" \/ x.txn = pay[r].txn,
         x.reply = "TRANSACTION_ALREADY_PROCESSED" =>
           psp[r] = "none" /\ row[x.txn].status \in Finished
  PROVE  CoreInv'
<1> USE DEF CoreInv, TypeOK, dbVars
<1>1. pay'[r] = x /\ \A o \in Pays \ {r} : pay'[o] = pay[o]
  OBVIOUS
<1>2. CreatesOK' /\ DeliveriesMatchRows' /\ OneDeliveryPerTransaction'
      /\ ApprovedIsDelivered'
  BY DEF CreatesOK, DeliveriesMatchRows, OneDeliveryPerTransaction,
         ApprovedIsDelivered
<1>3. PaysOK'
  BY <1>1 DEF PaysOK, PayOK
<1>4. DeliveryIsPaid'
  <2> SUFFICES ASSUME NEW d \in deliveries
               PROVE  psp[d.id] = "APPROVED" /\ pay'[d.id].txn = d.txn
    BY DEF DeliveryIsPaid
  <2>1. psp[d.id] = "APPROVED" /\ pay[d.id].txn = d.txn /\ d.id \in Pays
    BY DEF DeliveryIsPaid, Delivery
  <2>2. pay[d.id].pc # "idle"
    BY <2>1 DEF PaysOK, PayOK
  <2> QED
    BY <1>1, <2>1, <2>2
<1>5. AlreadyProcessedIsSettled'
  BY <1>1 DEF AlreadyProcessedIsSettled
<1> QED
  BY <1>2, <1>3, <1>4, <1>5

\* The pay requests' steps before the save, each an instance of PayUpdate.
LEMMA InvPayWait ==
  ASSUME CoreInv, TypeOK', NEW r \in Pays,
         \/ LoadTransaction(r) \/ LoadProduct(r) \/ ChargeCreated(r)
         \/ ChargeFails(r) \/ Poll(r) \/ Wake(r) \/ DatabaseFails(r) \/ Respond(r)
  PROVE  CoreInv'
<1> DEFINE x == pay'[r]
<1>1. /\ pay[r] \in Pay /\ PayOK(r, pay[r]) /\ x \in Pay
      /\ pay[r].txn \in Txns => row[pay[r].txn] \in Row
  BY DEF CoreInv, TypeOK, PaysOK
<1>2. UNCHANGED <<dbVars, create, psp>>
  BY DEF LoadTransaction, LoadProduct, ChargeCreated, ChargeFails, Poll, Wake,
         DatabaseFails, Respond
<1>3. pay[r].reply = "TRANSACTION_ALREADY_PROCESSED" =>
        psp[r] = "none" /\ row[pay[r].txn].status \in Finished
  BY DEF CoreInv, AlreadyProcessedIsSettled
<1>4. /\ pay' = [pay EXCEPT ![r] = x] /\ PayOK(r, x) /\ x.txn = pay[r].txn
      /\ x.reply = "TRANSACTION_ALREADY_PROCESSED" =>
           psp[r] = "none" /\ row[x.txn].status \in Finished
  <2> USE DEF PayOK, Holding, Finished, CoreInv, TypeOK
  <2>1. CASE LoadTransaction(r)
    <3> DEFINE found == row[pay[r].txn]
    <3>1. pay[r].pc = "load" /\ pay[r].reply = "none" /\ pay[r].txn \in Txns
          /\ psp[r] = "none"
      BY <1>1, <2>1 DEF LoadTransaction
    <3>2. CASE found.status = "ABSENT" /\ PayAnswer(r, "TRANSACTION_NOT_FOUND")
      BY <1>1, <3>1, <3>2 DEF PayAnswer, Pay
    <3>3. CASE /\ found.status \in Finished
               /\ PayAnswer(r, "TRANSACTION_ALREADY_PROCESSED")
      <4>1. pay' = [pay EXCEPT ![r] = x]
            /\ x = [pay[r] EXCEPT !.pc = "done",
                                  !.reply = "TRANSACTION_ALREADY_PROCESSED"]
        BY <1>1, <3>3 DEF PayAnswer
      <4>2. x.txn = pay[r].txn /\ x.pc = "done"
            /\ x.reply = "TRANSACTION_ALREADY_PROCESSED"
            /\ x.outcome = pay[r].outcome
        BY <1>1, <4>1 DEF Pay
      <4>3. PayOK(r, x)
        BY <1>1, <3>1, <4>2
      <4> QED
        BY <3>1, <3>3, <4>1, <4>2, <4>3
    <3>4. CASE /\ found.status = "PENDING"
               /\ pay' = [pay EXCEPT ![r] = [@ EXCEPT !.pc = "product",
                            !.product = found.product, !.qty = found.qty]]
      BY <1>1, <3>1, <3>4 DEF Pay
    <3> QED
      BY <2>1, <3>2, <3>3, <3>4 DEF LoadTransaction
  <2>2. CASE LoadProduct(r)
    <3>1. CASE PayAnswer(r, "PRODUCT_NOT_FOUND")
      BY <1>1, <2>2, <3>1 DEF LoadProduct, PayAnswer, Pay
    <3>2. CASE pay' = [pay EXCEPT ![r] = [@ EXCEPT !.pc = "tokenize",
                         !.seen = stock[pay[r].product]]]
      BY <1>1, <1>3, <2>2, <3>2 DEF LoadProduct, Pay
    <3> QED
      BY <2>2, <3>1, <3>2 DEF LoadProduct
  <2>3. CASE ChargeCreated(r)
    BY <1>1, <1>3, <2>3 DEF ChargeCreated, Pay
  <2>4. CASE ChargeFails(r)
    BY <1>1, <1>3, <2>4 DEF ChargeFails, ChargeResult, Pay
  <2>5. CASE Poll(r)
    <3>1. CASE psp[r] \in PspTerminal /\ ChargeResult(r, MapStatus(psp[r]))
      <4>1. MapStatus(psp[r]) = "APPROVED" => psp[r] = "APPROVED"
        BY DEF MapStatus
      <4> QED
        BY <1>1, <1>3, <2>5, <3>1, <4>1 DEF Poll, ChargeResult, Pay
    <3>2. CASE pay' = [pay EXCEPT ![r] = [@ EXCEPT !.pc = "sleep",
                         !.polls = pay[r].polls + 1]]
      BY <1>1, <1>3, <2>5, <3>2 DEF Poll, Pay
    <3> QED
      BY <2>5, <3>1, <3>2 DEF Poll
  <2>6. CASE Wake(r)
    <3>1. CASE pay' = [pay EXCEPT ![r] = [@ EXCEPT !.pc = "poll"]]
      BY <1>1, <1>3, <2>6, <3>1 DEF Wake, Pay
    <3>2. CASE ChargeResult(r, "ERROR")
      BY <1>1, <1>3, <2>6, <3>2 DEF Wake, ChargeResult, Pay
    <3> QED
      BY <2>6, <3>1, <3>2 DEF Wake
  <2>7. CASE DatabaseFails(r)
    BY <1>1, <1>3, <2>7 DEF DatabaseFails, PayAnswer, DatabaseError, Pay
  <2>8. CASE Respond(r)
    BY <1>1, <1>3, <2>8 DEF Respond, Pay
  <2> QED
    BY <2>1, <2>2, <2>3, <2>4, <2>5, <2>6, <2>7, <2>8
<1> HIDE DEF x
<1> QED
  BY <1>1, <1>2, <1>4, PayUpdate

\* A new pay request, and the submission of its charge to the PSP
\* (TransactionsController.pay; PspPaymentGateway.charge).
LEMMA InvPayArrives ==
  ASSUME CoreInv, TypeOK', NEW r \in Pays, NEW t \in Txns, PayArrives(r, t)
  PROVE  CoreInv'
<1> DEFINE x == pay'[r]
<1>1. pay[r] \in Pay /\ PayOK(r, pay[r]) /\ x \in Pay
  BY DEF CoreInv, TypeOK, PaysOK
<1>2. /\ pay' = [pay EXCEPT ![r] = x] /\ PayOK(r, x) /\ pay[r].pc = "idle"
      /\ x.reply = "none"
      /\ UNCHANGED <<dbVars, create, psp>>
  BY <1>1 DEF PayArrives, PayOK, Holding, Pay, CoreInv, TypeOK
<1> HIDE DEF x
<1> QED
  BY <1>1, <1>2, PayUpdate

\* Submitting the charge (createTransaction in PspPaymentGateway.charge): the
\* request holds its transaction by now and the PSP learns of it only here.
LEMMA InvTokenized ==
  ASSUME CoreInv, TypeOK', NEW r \in Pays, Tokenized(r)
  PROVE  CoreInv'
<1> USE DEF Tokenized, CoreInv, TypeOK, dbVars
<1>1. pay[r] \in Pay /\ PayOK(r, pay[r])
  BY DEF PaysOK
<1>2. pay[r].pc = "tokenize" /\ psp[r] = "none" /\ pay[r].reply = "none"
      /\ pay[r].outcome # "APPROVED"
  BY <1>1 DEF PayOK, Holding
<1>3. CreatesOK' /\ DeliveriesMatchRows' /\ OneDeliveryPerTransaction'
      /\ ApprovedIsDelivered'
  BY DEF CreatesOK, DeliveriesMatchRows, OneDeliveryPerTransaction,
         ApprovedIsDelivered
<1>4. /\ pay'[r] = [pay[r] EXCEPT !.pc = "submitted"]
      /\ \A o \in Pays \ {r} : pay'[o] = pay[o] /\ psp'[o] = psp[o]
  OBVIOUS
<1>5. PayOK(r, pay[r])'
  BY <1>1, <1>2, <1>4 DEF PayOK, Holding, Pay
<1>6. PaysOK'
  BY <1>4, <1>5 DEF PaysOK, PayOK
<1>7. DeliveryIsPaid'
  BY <1>2, <1>4 DEF DeliveryIsPaid, Delivery
<1>8. AlreadyProcessedIsSettled'
  BY <1>1, <1>2, <1>4 DEF AlreadyProcessedIsSettled, Pay
<1> QED
  BY <1>3, <1>6, <1>7, <1>8

\* The PSP's own steps: a charge that was asked for is accepted or decided, and
\* a decided one stays decided.
LEMMA InvPsp ==
  ASSUME CoreInv, TypeOK', NEW r \in Pays, PspAccept(r) \/ PspDecide(r)
  PROVE  CoreInv'
<1> USE DEF CoreInv, TypeOK, dbVars
<1>1. /\ UNCHANGED <<dbVars, create, pay>>
      /\ psp[r] \notin {"none", "APPROVED"}
      /\ \A o \in Pays \ {r} : psp'[o] = psp[o]
  BY DEF PspAccept, PspDecide
<1>2. CreatesOK' /\ DeliveriesMatchRows' /\ OneDeliveryPerTransaction'
      /\ ApprovedIsDelivered'
  BY <1>1 DEF CreatesOK, DeliveriesMatchRows, OneDeliveryPerTransaction,
              ApprovedIsDelivered
<1>3. PaysOK'
  BY <1>1 DEF PaysOK, PayOK
<1>4. DeliveryIsPaid'
  BY <1>1 DEF DeliveryIsPaid, Delivery
<1>5. AlreadyProcessedIsSettled'
  BY <1>1 DEF AlreadyProcessedIsSettled
<1> QED
  BY <1>2, <1>3, <1>4, <1>5

\* A restart forgets the requests in flight and nothing else.
LEMMA InvRestart ==
  ASSUME CoreInv, TypeOK', Restart
  PROVE  CoreInv'
<1> USE DEF CoreInv, TypeOK, dbVars
<1>1. /\ UNCHANGED <<dbVars, psp>>
      /\ \A r \in Pays : /\ pay'[r].txn = pay[r].txn
                         /\ pay'[r].product = pay[r].product
                         /\ pay'[r].qty = pay[r].qty
                         /\ pay'[r].outcome = pay[r].outcome
                         /\ pay'[r].reply = pay[r].reply
                         /\ \/ pay'[r].pc = pay[r].pc
                            \/ PayLive(r) /\ pay'[r].pc = "dropped"
  BY DEF Restart, Pay
<1>2. \A t \in Txns : \/ create'[t] = create[t]
                      \/ create[t].pc = "save" /\ create'[t].pc = "dropped"
  <2> TAKE t \in Txns
  <2>1. create[t] \in Create
    OBVIOUS
  <2>2. create'[t] = IF create[t].pc = "save"
                     THEN [create[t] EXCEPT !.pc = "dropped"] ELSE create[t]
    BY DEF Restart, CreateLive
  <2> QED
    BY <2>1, <2>2 DEF Create
<1>3. CreatesOK'
  BY <1>1, <1>2 DEF CreatesOK
<1>4. PaysOK'
  BY <1>1 DEF PaysOK, PayOK, Holding, PayLive
<1>5. DeliveryIsPaid' /\ AlreadyProcessedIsSettled'
  BY <1>1 DEF DeliveryIsPaid, AlreadyProcessedIsSettled, Delivery
<1>6. DeliveriesMatchRows' /\ OneDeliveryPerTransaction' /\ ApprovedIsDelivered'
  BY <1>1 DEF DeliveriesMatchRows, OneDeliveryPerTransaction, ApprovedIsDelivered
<1> QED
  BY <1>3, <1>4, <1>5, <1>6

\* Orders: an answer without a row, or a row where there was none
\* (CreateTransactionUseCase.execute).
LEMMA InvCreate ==
  ASSUME CoreInv, TypeOK', NEW t \in Txns,
         \/ \E p \in ValidIds, q \in Quantities : CreateFindProduct(t, p, q)
         \/ CreateStep(t)
  PROVE  CoreInv'
<1> USE DEF CoreInv, TypeOK, dbVars
<1>1. CASE CreateSave(t)
  <2> DEFINE c == create[t]
  <2>1. /\ c \in Create /\ c.pc = "save" /\ row[t].status = "ABSENT"
        /\ c.product \in ProductIds
        /\ row' = [row EXCEPT ![t] = [status |-> "PENDING",
                     product |-> c.product, qty |-> c.qty, psp |-> None]]
        /\ create' = [create EXCEPT ![t] = [@ EXCEPT !.pc = "done",
                                              !.reply = "CREATED"]]
        /\ UNCHANGED <<catalog, stock, deliveries, pay, psp>>
    BY <1>1 DEF CreateSave, CreateAnswer, CreatesOK
  <2>2. /\ row'[t].status = "PENDING" /\ row'[t].product = c.product
        /\ create'[t].pc = "done"
        /\ \A o \in Txns \ {t} : row'[o] = row[o] /\ create'[o] = create[o]
    BY <2>1 DEF Create
  <2>3. CreatesOK'
    BY <2>1, <2>2 DEF CreatesOK
  <2>4. PaysOK'
    BY <2>1, <2>2 DEF PaysOK, PayOK, Holding
  <2>5. DeliveriesMatchRows' /\ ApprovedIsDelivered'
    BY <2>1, <2>2 DEF DeliveriesMatchRows, ApprovedIsDelivered, Delivery
  <2>6. OneDeliveryPerTransaction' /\ DeliveryIsPaid'
    BY <2>1 DEF OneDeliveryPerTransaction, DeliveryIsPaid
  <2>7. AlreadyProcessedIsSettled'
    BY <2>1, <2>2 DEF AlreadyProcessedIsSettled, Finished
  <2> QED
    BY <2>3, <2>4, <2>5, <2>6, <2>7
<1>2. CASE \/ \E p \in ValidIds, q \in Quantities : CreateFindProduct(t, p, q)
           \/ CreateFails(t)
  <2>1. /\ UNCHANGED <<dbVars, pay, psp>>
        /\ \A o \in Txns \ {t} : create'[o] = create[o]
        /\ create[t].pc \in {"idle", "save"}
        /\ \/ create'[t].pc = "done"
           \/ create'[t].product \in ProductIds /\ create'[t].qty \in Quantities
    <3>1. CASE CreateFails(t)
      BY <3>1 DEF CreateFails, CreateAnswer, Create
    <3>2. ASSUME NEW p \in ValidIds, NEW q \in Quantities,
                 CreateFindProduct(t, p, q)
          PROVE  <2>1
      <4>1. CASE \E code \in CreateReply : CreateAnswer(t, code)
        <5>1. PICK code \in CreateReply : CreateAnswer(t, code)
          BY <4>1
        <5>2. create[t] \in Create /\ create'[t] = [create[t] EXCEPT !.pc = "done",
                                                             !.reply = code]
              /\ \A o \in Txns \ {t} : create'[o] = create[o]
          BY <5>1 DEF CreateAnswer
        <5>3. create'[t].pc = "done"
          BY <5>2 DEF Create
        <5> QED
          BY <3>2, <5>2, <5>3 DEF CreateFindProduct
      <4>2. CASE create' = [create EXCEPT ![t] =
                   [pc |-> "save", product |-> p, qty |-> q, reply |-> "none"]]
        BY <3>2, <4>2, BackendAssumption DEF CreateFindProduct, BackendAssumption
      <4> QED
        BY <3>2, <4>1, <4>2 DEF CreateFindProduct, CreateReply, DatabaseError
    <3> QED
      BY <1>2, <3>1, <3>2
  <2>2. CreatesOK'
    BY <2>1 DEF CreatesOK
  <2>3. PaysOK' /\ AlreadyProcessedIsSettled' /\ DeliveryIsPaid'
    BY <2>1 DEF PaysOK, PayOK, AlreadyProcessedIsSettled, DeliveryIsPaid
  <2>4. DeliveriesMatchRows' /\ OneDeliveryPerTransaction' /\ ApprovedIsDelivered'
    BY <2>1 DEF DeliveriesMatchRows, OneDeliveryPerTransaction, ApprovedIsDelivered
  <2> QED
    BY <2>2, <2>3, <2>4
<1> QED
  BY <1>1, <1>2 DEF CreateStep

\* A settlement that fails leaves the tables alone: the rollback of
\* saveApprovedPayment, decreaseStock's exception, a broken foreign key.
LEMMA InvSettleFails ==
  ASSUME CoreInv, TypeOK', NEW r \in Pays, pay[r].pc = "settle",
         UNCHANGED <<dbVars, create, psp>>,
         NEW code \in {"INSUFFICIENT_STOCK", "INTERNAL_ERROR"}, PayAnswer(r, code)
  PROVE  CoreInv'
<1> DEFINE x == pay'[r]
<1>1. pay[r] \in Pay /\ PayOK(r, pay[r]) /\ x \in Pay
  BY DEF CoreInv, TypeOK, PaysOK
<1>2. /\ pay' = [pay EXCEPT ![r] = x] /\ PayOK(r, x) /\ x.txn = pay[r].txn
      /\ x.reply # "TRANSACTION_ALREADY_PROCESSED"
  BY <1>1 DEF PayAnswer, PayOK, Holding, Pay, CoreInv, TypeOK
<1> HIDE DEF x
<1> QED
  BY <1>1, <1>2, PayUpdate

\* save writes the whole entity of request r, in status s, over its row.
Overwrites(r, s) == row' = [row EXCEPT ![pay[r].txn] = Entity(r, s)]

\* What a settlement does to the rows (the end of execute).
LEMMA SettleWrites ==
  ASSUME NEW r \in Pays, SettleApproved(r) \/ SettleRejected(r)
  PROVE  /\ pay[r].pc = "settle"
         /\ UNCHANGED row \/ /\ pay[r].product \in catalog
                             /\ \E s \in Finished : Overwrites(r, s)
<1>1. CASE SettleApproved(r)
  BY <1>1 DEF SettleApproved, ShipOut, StockGuard, Finished, Overwrites, dbVars
<1>2. CASE SettleRejected(r)
  <2>1. pay[r].pc = "settle"
    BY <1>2 DEF SettleRejected
  <2>2. UNCHANGED row \/ (pay[r].product \in catalog /\ Overwrites(r, pay[r].outcome)
                             /\ pay[r].outcome \in Finished)
    BY <1>2 DEF SettleRejected, Finished, Overwrites, dbVars
  <2> QED
    BY <2>1, <2>2
<1> QED
  BY <1>1, <1>2

\* A save replaces a row by one with the same product and quantity in a final
\* status, so everything that reads the row's identity is undisturbed.
LEMMA SavedRow ==
  ASSUME CoreInv, SavesItsOwn, NEW r \in Pays, pay[r].pc = "settle",
         pay[r].product \in catalog, NEW s \in Finished, Overwrites(r, s)
  PROVE  /\ pay[r] \in Pay /\ pay[r].txn \in Txns /\ pay[r].product \in ProductIds
         /\ pay[r].reply = "none" /\ row[pay[r].txn].status # "ABSENT"
         /\ pay[r].product = row[pay[r].txn].product
         /\ pay[r].qty = row[pay[r].txn].qty
         /\ row'[pay[r].txn].status = s
         /\ \A t \in Txns : /\ row'[t].product = row[t].product
                            /\ row'[t].qty = row[t].qty
                            /\ row'[t].status = "ABSENT" <=> row[t].status = "ABSENT"
                            /\ t # pay[r].txn => row'[t] = row[t]
<1>1. pay[r] \in Pay /\ PayOK(r, pay[r]) /\ row \in [Txns -> Row]
  BY DEF CoreInv, TypeOK, PaysOK
<1>2. /\ pay[r].txn \in Txns /\ pay[r].reply = "none"
      /\ row[pay[r].txn].status # "ABSENT"
      /\ pay[r].product = row[pay[r].txn].product
      /\ pay[r].qty = row[pay[r].txn].qty
  BY <1>1 DEF PayOK, Holding, SavesItsOwn
<1>3. pay[r].product \in ProductIds
  BY <1>2 DEF CoreInv, CreatesOK
<1>4. /\ row'[pay[r].txn] = Entity(r, s)
      /\ \A t \in Txns : t # pay[r].txn => row'[t] = row[t]
  BY <1>1, <1>2 DEF Overwrites
<1>5. /\ row'[pay[r].txn].status = s
      /\ row'[pay[r].txn].product = row[pay[r].txn].product
      /\ row'[pay[r].txn].qty = row[pay[r].txn].qty
  BY <1>2, <1>4 DEF Entity
<1> QED
  BY <1>1, <1>2, <1>3, <1>4, <1>5 DEF Finished

\* decline or markAsError and save, over whatever status the row has by now.
LEMMA InvRejected ==
  ASSUME CoreInv, SavesItsOwn, TypeOK', NEW r \in Pays, pay[r].pc = "settle",
         pay[r].product \in catalog, NEW s \in {"DECLINED", "ERROR"},
         row' = [row EXCEPT ![pay[r].txn] = Entity(r, s)], Saved(r, s),
         UNCHANGED <<catalog, stock, deliveries, create, psp>>
  PROVE  CoreInv'
<1> USE DEF CoreInv, TypeOK
<1>1. s \in Finished /\ s # "APPROVED"
  BY DEF Finished
<1>2. /\ pay[r] \in Pay /\ pay[r].reply = "none" /\ row'[pay[r].txn].status = s
      /\ \A t \in Txns : /\ row'[t].product = row[t].product
                         /\ row'[t].qty = row[t].qty
                         /\ row'[t].status = "ABSENT" <=> row[t].status = "ABSENT"
                         /\ t # pay[r].txn => row'[t] = row[t]
  <2> HIDE DEF CoreInv, TypeOK
  <2>1. Overwrites(r, s)
    BY DEF Overwrites
  <2> QED
    BY <1>1, <2>1, SavedRow
<1>3. /\ pay'[r] = [pay[r] EXCEPT !.pc = "saved", !.reply = s]
      /\ \A o \in Pays \ {r} : pay'[o] = pay[o]
  BY DEF Saved
<1>4. /\ pay'[r].pc = "saved" /\ pay'[r].reply = s /\ pay'[r].txn = pay[r].txn
      /\ pay'[r].outcome = pay[r].outcome
  BY <1>2, <1>3 DEF Pay
<1>5. CreatesOK'
  BY <1>2 DEF CreatesOK
<1>6. PaysOK'
  <2>1. PayOK(r, pay[r])'
    BY <1>1, <1>2, <1>4 DEF PaysOK, PayOK, Holding
  <2>2. ASSUME NEW o \in Pays \ {r}
        PROVE  PayOK(o, pay[o])'
    BY <1>2, <1>3 DEF PaysOK, PayOK, Holding
  <2> QED
    BY <2>1, <2>2 DEF PaysOK
<1>7. DeliveriesMatchRows'
  BY <1>2 DEF DeliveriesMatchRows, Delivery
<1>8. OneDeliveryPerTransaction'
  BY DEF OneDeliveryPerTransaction
<1>9. DeliveryIsPaid'
  <2>1. \A d \in deliveries : d.id \in Pays /\ pay'[d.id].txn = pay[d.id].txn
    BY <1>3, <1>4 DEF Delivery
  <2> QED
    BY <2>1 DEF DeliveryIsPaid
<1>10. ApprovedIsDelivered'
  BY <1>1, <1>2 DEF ApprovedIsDelivered
<1>11. AlreadyProcessedIsSettled'
  <2> SUFFICES ASSUME NEW o \in Pays,
                      pay'[o].reply = "TRANSACTION_ALREADY_PROCESSED"
               PROVE  psp[o] = "none" /\ row'[pay'[o].txn].status \in Finished
    BY DEF AlreadyProcessedIsSettled
  <2>1. o # r /\ pay'[o] = pay[o]
    BY <1>1, <1>3, <1>4 DEF Finished
  <2>2. pay[o].txn \in Txns
    BY <2>1 DEF PaysOK, PayOK, Holding
  <2>3. psp[o] = "none" /\ row[pay[o].txn].status \in Finished
    BY <2>1 DEF AlreadyProcessedIsSettled
  <2> QED
    BY <1>1, <1>2, <2>1, <2>2, <2>3 DEF Finished
<1> QED
  BY <1>5, <1>6, <1>7, <1>8, <1>9, <1>10, <1>11

\* The three writes of saveApprovedPayment, under the stock guard and the
\* unique constraint on deliveries.transaction_id.
LEMMA InvShipOut ==
  ASSUME CoreInv, SavesItsOwn, TypeOK', NEW r \in Pays, pay[r].pc = "settle",
         pay[r].product \in catalog, pay[r].outcome = "APPROVED", DeliveryFree(r), ShipOut(r),
         Saved(r, "APPROVED"), UNCHANGED <<catalog, create, psp>>
  PROVE  CoreInv'
<1> DEFINE new == [id |-> r, txn |-> pay[r].txn, product |-> pay[r].product,
                   qty |-> pay[r].qty]
<1> USE DEF CoreInv, TypeOK
<1>1. deliveries' = deliveries \union {new}
  BY DEF ShipOut
<1>2. /\ pay[r] \in Pay /\ pay[r].txn \in Txns /\ pay[r].product \in ProductIds
      /\ pay[r].reply = "none" /\ row[pay[r].txn].status # "ABSENT"
      /\ pay[r].product = row[pay[r].txn].product
      /\ pay[r].qty = row[pay[r].txn].qty
      /\ row'[pay[r].txn].status = "APPROVED"
      /\ \A t \in Txns : /\ row'[t].product = row[t].product
                         /\ row'[t].qty = row[t].qty
                         /\ row'[t].status = "ABSENT" <=> row[t].status = "ABSENT"
                         /\ t # pay[r].txn => row'[t] = row[t]
  <2> HIDE DEF CoreInv, TypeOK
  <2>1. Overwrites(r, "APPROVED") /\ "APPROVED" \in Finished
    BY DEF ShipOut, Overwrites, Finished
  <2> QED
    BY <2>1, SavedRow
<1>3. /\ pay'[r] = [pay[r] EXCEPT !.pc = "saved", !.reply = "APPROVED"]
      /\ \A o \in Pays \ {r} : pay'[o] = pay[o]
  BY DEF Saved
<1>4. /\ pay'[r].pc = "saved" /\ pay'[r].reply = "APPROVED"
      /\ pay'[r].txn = pay[r].txn /\ pay'[r].outcome = pay[r].outcome
  BY <1>2, <1>3 DEF Pay
<1>5. new.id = r /\ new.txn = pay[r].txn /\ new.product = pay[r].product
      /\ new.qty = pay[r].qty /\ psp[r] = "APPROVED"
  BY DEF PaysOK, PayOK
<1> HIDE DEF new
<1>6. CreatesOK'
  BY <1>2 DEF CreatesOK
<1>7. PaysOK'
  <2>1. PayOK(r, pay[r])'
    BY <1>1, <1>2, <1>4, <1>5 DEF PaysOK, PayOK, Holding
  <2>2. ASSUME NEW o \in Pays \ {r}
        PROVE  PayOK(o, pay[o])'
    BY <1>1, <1>2, <1>3, <1>5 DEF PaysOK, PayOK, Holding
  <2> QED
    BY <2>1, <2>2 DEF PaysOK
<1>8. DeliveriesMatchRows'
  BY <1>1, <1>2, <1>5 DEF DeliveriesMatchRows, Delivery
<1>9. OneDeliveryPerTransaction'
  BY <1>1, <1>5 DEF OneDeliveryPerTransaction, DeliveryFree
<1>10. DeliveryIsPaid'
  <2>1. psp[new.id] = "APPROVED" /\ pay'[new.id].txn = new.txn
    BY <1>4, <1>5
  <2>2. ASSUME NEW d \in deliveries
        PROVE  psp[d.id] = "APPROVED" /\ pay'[d.id].txn = d.txn
    <3>1. d.id \in Pays /\ psp[d.id] = "APPROVED" /\ pay[d.id].txn = d.txn
      BY DEF DeliveryIsPaid, Delivery
    <3>2. pay'[d.id].txn = pay[d.id].txn
      BY <1>3, <1>4, <3>1
    <3> QED
      BY <3>1, <3>2
  <2> QED
    BY <1>1, <2>1, <2>2 DEF DeliveryIsPaid
<1>11. ApprovedIsDelivered'
  BY <1>1, <1>2, <1>5 DEF ApprovedIsDelivered
<1>12. AlreadyProcessedIsSettled'
  <2> SUFFICES ASSUME NEW o \in Pays,
                      pay'[o].reply = "TRANSACTION_ALREADY_PROCESSED"
               PROVE  psp[o] = "none" /\ row'[pay'[o].txn].status \in Finished
    BY DEF AlreadyProcessedIsSettled
  <2>1. o # r /\ pay'[o] = pay[o]
    BY <1>3, <1>4 DEF Finished
  <2>2. pay[o].txn \in Txns
    BY <2>1 DEF PaysOK, PayOK, Holding
  <2>3. psp[o] = "none" /\ row[pay[o].txn].status \in Finished
    BY <2>1 DEF AlreadyProcessedIsSettled
  <2> QED
    BY <1>2, <2>1, <2>2, <2>3 DEF Finished
<1> QED
  BY <1>6, <1>7, <1>8, <1>9, <1>10, <1>11, <1>12

\* Everything execute does with the charge's result (lines after the await).
LEMMA InvSettle ==
  ASSUME CoreInv, SavesItsOwn, TypeOK', NEW r \in Pays,
         SettleApproved(r) \/ SettleRejected(r)
  PROVE  CoreInv'
<1>1. CASE SettleApproved(r)
  <2>1. CASE UNCHANGED dbVars
             /\ \E code \in {"INSUFFICIENT_STOCK", "INTERNAL_ERROR"} :
                  PayAnswer(r, code)
    BY <1>1, <2>1, InvSettleFails DEF SettleApproved
  <2>2. CASE StockGuard(r) /\ DeliveryFree(r) /\ ShipOut(r)
             /\ Saved(r, "APPROVED") /\ UNCHANGED catalog
    BY <1>1, <2>2, InvShipOut DEF SettleApproved, StockGuard
  <2> QED
    BY <1>1, <2>1, <2>2 DEF SettleApproved
<1>2. CASE SettleRejected(r)
  <2>1. CASE UNCHANGED dbVars /\ PayAnswer(r, "INTERNAL_ERROR")
    BY <1>2, <2>1, InvSettleFails DEF SettleRejected
  <2>2. CASE /\ pay[r].product \in catalog
             /\ row' = [row EXCEPT ![pay[r].txn] = Entity(r, pay[r].outcome)]
             /\ Saved(r, pay[r].outcome)
             /\ UNCHANGED <<catalog, stock, deliveries>>
    BY <1>2, <2>2, InvRejected DEF SettleRejected
  <2> QED
    BY <1>2, <2>1, <2>2 DEF SettleRejected
<1> QED
  BY <1>1, <1>2

\* The inductive step: every action of the backend preserves the invariant, even
\* if the products of requests that save nothing have changed their ids.
LEMMA CoreStep == CoreInv /\ SavesItsOwn /\ [Next]_vars => CoreInv'
<1> SUFFICES ASSUME CoreInv, SavesItsOwn, [Next]_vars PROVE CoreInv'
  OBVIOUS
<1>1. TypeOK'
  BY TypeStep DEF CoreInv
<1>2. CASE UNCHANGED vars
  BY <1>2 DEF vars, CoreInv, TypeOK, CreatesOK, PaysOK, PayOK, DeliveriesMatchRows,
     OneDeliveryPerTransaction, DeliveryIsPaid, ApprovedIsDelivered,
     AlreadyProcessedIsSettled
<1>3. CASE Next
  BY <1>1, <1>3, InvPayWait, InvPayArrives, InvTokenized, InvPsp, InvRestart,
     InvCreate, InvSettle DEF Next, Work, CreateStep, PayStep
<1> QED
  BY <1>2, <1>3

\* The backend never writes the catalog (TypeOrmProductRepository only reads it).
LEMMA CatalogStays == [Next]_vars => catalog' = catalog
  BY DEF Next, Work, CreateStep, PayStep, dbVars, vars, CreateFindProduct,
         CreateSave, CreateFails, PayArrives, LoadTransaction, LoadProduct,
         Tokenized, ChargeCreated, ChargeFails, Poll, Wake, SettleApproved,
         SettleRejected, DatabaseFails, Respond, Restart, PspAccept, PspDecide

\* Nothing but an insert and a settlement writes a row
\* (the calls of transactionRepository and paymentUnitOfWork).
LEMMA RowWriters ==
  [Next]_vars => \/ UNCHANGED row
                 \/ \E t \in Txns : CreateSave(t)
                 \/ \E r \in Pays : SettleApproved(r) \/ SettleRejected(r)
  BY DEF Next, Work, CreateStep, PayStep, dbVars, vars, CreateFindProduct,
         CreateFails, PayArrives, LoadTransaction, LoadProduct,
         Tokenized, ChargeCreated, ChargeFails, Poll, Wake,
         DatabaseFails, Respond, Restart, PspAccept, PspDecide

\* A row that exists keeps its product, its quantity and its existence through
\* every step (transactionRepository.save writes back what was read).
LEMMA RowsKeepGoods ==
  ASSUME CoreInv, SavesItsOwn, [Next]_vars, NEW t \in Txns, row[t].status # "ABSENT"
  PROVE  /\ row'[t].product = row[t].product
         /\ row'[t].qty = row[t].qty
         /\ row'[t].status # "ABSENT"
<1>1. CASE UNCHANGED row
  BY <1>1
<1>2. ASSUME NEW o \in Txns, CreateSave(o)
      PROVE  row'[t] = row[t]
  BY <1>2 DEF CreateSave, CoreInv, CreatesOK, TypeOK
<1>3. ASSUME NEW r \in Pays, SettleApproved(r) \/ SettleRejected(r)
      PROVE  \/ row' = row
             \/ /\ row'[t].product = row[t].product
                /\ row'[t].qty = row[t].qty
                /\ row'[t].status # "ABSENT"
  <2>1. \/ UNCHANGED row
        \/ /\ pay[r].pc = "settle" /\ pay[r].product \in catalog
           /\ \E s \in Finished : Overwrites(r, s)
    BY <1>3, SettleWrites
  <2> QED
    BY <2>1, SavedRow
<1> QED
  BY <1>1, <1>2, <1>3, RowWriters

\* Only the insert makes a row (CreateTransactionUseCase.execute).
LEMMA NewRow ==
  ASSUME CoreInv, SavesItsOwn, [Next]_vars, NEW t \in Txns,
         row[t].status = "ABSENT", row'[t].status # "ABSENT"
  PROVE  CreateSave(t)
<1>1. ASSUME NEW o \in Txns, o # t, CreateSave(o)
      PROVE  row'[t] = row[t]
  BY <1>1 DEF CreateSave, CoreInv, TypeOK
<1>2. ASSUME NEW r \in Pays, SettleApproved(r) \/ SettleRejected(r)
      PROVE  row'[t].status = "ABSENT"
  <2>1. \/ UNCHANGED row
        \/ /\ pay[r].pc = "settle" /\ pay[r].product \in catalog
           /\ \E s \in Finished : Overwrites(r, s)
    BY <1>2, SettleWrites
  <2> QED
    BY <2>1, SavedRow
<1> QED
  BY <1>1, <1>2, RowWriters

\* Request r is now at c; it pays for the same order and has polled as often.
Turned(r, c) ==
  /\ pay' = [pay EXCEPT ![r] = pay'[r]] /\ \A o \in Pays \ {r} : pay'[o] = pay[o]
  /\ pay'[r].pc = c /\ pay'[r].txn = pay[r].txn
  /\ pay'[r].product = pay[r].product /\ pay'[r].polls = pay[r].polls

\* What the most frequent updates of a pay request leave as it was (the answers, the end
\* of charge and the save of execute).
LEMMA PayTurns ==
  ASSUME TypeOK, NEW r \in Pays
  PROVE  /\ \A code : PayAnswer(r, code) => Turned(r, "done")
         /\ \A code : Saved(r, code) => Turned(r, "saved")
         /\ \A s : ChargeResult(r, s) => Turned(r, "settle")
         /\ \A c : pay' = [pay EXCEPT ![r] = [@ EXCEPT !.pc = c]] => Turned(r, c)
<1>1. pay \in [Pays -> Pay] /\ pay[r] \in Pay
  BY DEF TypeOK
<1>2. ASSUME NEW y, pay' = [pay EXCEPT ![r] = y], NEW c, y.pc = c, y.txn = pay[r].txn,
             y.product = pay[r].product, y.polls = pay[r].polls
      PROVE  Turned(r, c)
  BY <1>1, <1>2 DEF Turned
<1>3. ASSUME NEW code, PayAnswer(r, code) PROVE Turned(r, "done")
  <2> DEFINE y == [pay[r] EXCEPT !.pc = "done", !.reply = code]
  <2>1. /\ y.pc = "done" /\ y.txn = pay[r].txn
        /\ y.product = pay[r].product /\ y.polls = pay[r].polls
    BY <1>1 DEF Pay
  <2>2. pay' = [pay EXCEPT ![r] = y]
    BY <1>3 DEF PayAnswer
  <2> QED
    BY <1>2, <2>1, <2>2
<1>4. ASSUME NEW code, Saved(r, code) PROVE Turned(r, "saved")
  <2> DEFINE y == [pay[r] EXCEPT !.pc = "saved", !.reply = code]
  <2>1. /\ y.pc = "saved" /\ y.txn = pay[r].txn
        /\ y.product = pay[r].product /\ y.polls = pay[r].polls
    BY <1>1 DEF Pay
  <2>2. pay' = [pay EXCEPT ![r] = y]
    BY <1>4 DEF Saved
  <2> QED
    BY <1>2, <2>1, <2>2
<1>5. ASSUME NEW s, ChargeResult(r, s) PROVE Turned(r, "settle")
  <2> DEFINE y == [pay[r] EXCEPT !.pc = "settle", !.outcome = s]
  <2>1. /\ y.pc = "settle" /\ y.txn = pay[r].txn
        /\ y.product = pay[r].product /\ y.polls = pay[r].polls
    BY <1>1 DEF Pay
  <2>2. pay' = [pay EXCEPT ![r] = y]
    BY <1>5 DEF ChargeResult
  <2> QED
    BY <1>2, <2>1, <2>2
<1>6. ASSUME NEW c, pay' = [pay EXCEPT ![r] = [@ EXCEPT !.pc = c]] PROVE Turned(r, c)
  <2> DEFINE y == [pay[r] EXCEPT !.pc = c]
  <2>1. /\ y.pc = c /\ y.txn = pay[r].txn
        /\ y.product = pay[r].product /\ y.polls = pay[r].polls
    BY <1>1 DEF Pay
  <2>2. pay' = [pay EXCEPT ![r] = y]
    BY <1>6
  <2> QED
    BY <1>2, <2>1, <2>2
<1> QED
  BY <1>3, <1>4, <1>5, <1>6

\* The steps of a pay request that only turn to the next point of execute.
Straight ==
  {<<"load", "done">>, <<"product", "tokenize">>, <<"product", "done">>,
   <<"tokenize", "submitted">>, <<"tokenize", "settle">>,
   <<"submitted", "poll">>, <<"submitted", "settle">>,
   <<"poll", "settle">>, <<"sleep", "settle">>,
   <<"settle", "saved">>, <<"settle", "done">>, <<"saved", "done">>}

\* The two that do more: the row is read, and the PSP is asked once more in vain.
Loaded(r) ==
  /\ LoadTransaction(r) /\ row[pay[r].txn].status = "PENDING"
  /\ pay' = [pay EXCEPT ![r] = pay'[r]] /\ \A o \in Pays \ {r} : pay'[o] = pay[o]
  /\ pay[r].pc = "load" /\ pay'[r].pc = "product" /\ pay'[r].txn = pay[r].txn
  /\ pay'[r].product = row[pay[r].txn].product /\ pay'[r].polls = pay[r].polls
Polled(r) ==
  /\ pay' = [pay EXCEPT ![r] = pay'[r]] /\ \A o \in Pays \ {r} : pay'[o] = pay[o]
  /\ pay[r].pc = "poll" /\ pay'[r].pc = "sleep" /\ pay'[r].txn = pay[r].txn
  /\ pay'[r].product = pay[r].product /\ pay'[r].polls = pay[r].polls + 1

\* The ways of a pay request through execute, pollForResult and the save.
LEMMA PayWays ==
  ASSUME TypeOK, NEW r \in Pays, PayStep(r)
  PROVE  \/ \E d : <<pay[r].pc, d>> \in Straight /\ Turned(r, d)
         \/ Loaded(r) \/ Polled(r)
         \/ pay[r].pc = "sleep" /\ pay[r].polls < MaxPolls /\ Turned(r, "poll")
<1> DEFINE Goes(c, d) == pay[r].pc = c /\ Turned(r, d)
<1>0. pay \in [Pays -> Pay] /\ pay[r] \in Pay
  BY DEF TypeOK
<1>1. ASSUME NEW y, pay' = [pay EXCEPT ![r] = y], y.txn = pay[r].txn
      PROVE  /\ pay'[r] = y /\ pay' = [pay EXCEPT ![r] = pay'[r]]
             /\ \A o \in Pays \ {r} : pay'[o] = pay[o]
  BY <1>0, <1>1
<1>2. CASE LoadTransaction(r)
  <2> DEFINE y == [pay[r] EXCEPT !.pc = "product", !.product = row[pay[r].txn].product,
                                 !.qty = row[pay[r].txn].qty]
  <2>1. CASE \E code : PayAnswer(r, code)
    BY <1>2, <2>1, PayTurns DEF LoadTransaction, Straight
  <2>2. CASE row[pay[r].txn].status = "PENDING" /\ pay' = [pay EXCEPT ![r] = y]
    <3>1. /\ y.pc = "product" /\ y.txn = pay[r].txn
          /\ y.product = row[pay[r].txn].product /\ y.polls = pay[r].polls
      BY <1>0 DEF Pay
    <3>2. pay[r].pc = "load"
      BY <1>2 DEF LoadTransaction
    <3> HIDE DEF y
    <3> QED
      BY <1>1, <1>2, <2>2, <3>1, <3>2 DEF Loaded
  <2> QED
    BY <1>2, <2>1, <2>2 DEF LoadTransaction
<1>3. CASE LoadProduct(r)
  <2> DEFINE y == [pay[r] EXCEPT !.pc = "tokenize", !.seen = stock[pay[r].product]]
  <2>1. CASE \E code : PayAnswer(r, code)
    BY <1>3, <2>1, PayTurns DEF LoadProduct, Straight
  <2>2. CASE pay' = [pay EXCEPT ![r] = y]
    <3>1. /\ y.pc = "tokenize" /\ y.txn = pay[r].txn
          /\ y.product = pay[r].product /\ y.polls = pay[r].polls
      BY <1>0 DEF Pay
    <3>2. pay[r].pc = "product"
      BY <1>3 DEF LoadProduct
    <3> HIDE DEF y
    <3>3. Turned(r, "tokenize")
      BY <1>1, <2>2, <3>1 DEF Turned
    <3> QED
      BY <3>2, <3>3 DEF Straight
  <2> QED
    BY <1>3, <2>1, <2>2 DEF LoadProduct
<1>4. CASE Tokenized(r)
  <2>1. pay[r].pc = "tokenize" /\ pay' = [pay EXCEPT ![r] = [@ EXCEPT !.pc = "submitted"]]
    BY <1>4 DEF Tokenized
  <2>2. Turned(r, "submitted")
    BY <2>1, PayTurns
  <2> QED
    BY <2>1, <2>2 DEF Straight
<1>5. CASE ChargeCreated(r)
  <2> DEFINE y == [pay[r] EXCEPT !.pc = "poll", !.known = TRUE]
  <2>1. /\ y.pc = "poll" /\ y.txn = pay[r].txn
        /\ y.product = pay[r].product /\ y.polls = pay[r].polls
    BY <1>0 DEF Pay
  <2>2. pay[r].pc = "submitted" /\ pay' = [pay EXCEPT ![r] = y]
    BY <1>5 DEF ChargeCreated
  <2> HIDE DEF y
  <2>3. Turned(r, "poll")
    BY <1>1, <2>1, <2>2 DEF Turned
  <2> QED
    BY <2>2, <2>3 DEF Straight
<1>6. CASE ChargeFails(r)
  BY <1>6, PayTurns DEF ChargeFails, Straight
<1>7. CASE Poll(r)
  <2> DEFINE y == [pay[r] EXCEPT !.pc = "sleep", !.polls = pay[r].polls + 1]
  <2>1. pay[r].pc = "poll"
    BY <1>7 DEF Poll
  <2>2. CASE ChargeResult(r, MapStatus(psp[r]))
    BY <2>1, <2>2, PayTurns DEF Straight
  <2>3. CASE pay' = [pay EXCEPT ![r] = y]
    <3>1. /\ y.pc = "sleep" /\ y.txn = pay[r].txn
          /\ y.product = pay[r].product /\ y.polls = pay[r].polls + 1
      BY <1>0 DEF Pay
    <3> HIDE DEF y
    <3> QED
      BY <1>1, <2>1, <2>3, <3>1 DEF Polled
  <2> QED
    BY <1>7, <2>2, <2>3 DEF Poll
<1>8. CASE Wake(r)
  BY <1>8, PayTurns DEF Wake, Straight
<1>9. CASE SettleApproved(r) \/ SettleRejected(r)
  <2>1. /\ pay[r].pc = "settle"
        /\ (\E code : PayAnswer(r, code)) \/ (\E code : Saved(r, code))
    BY <1>9 DEF SettleApproved, SettleRejected
  <2> QED
    BY <2>1, PayTurns DEF Straight
<1>10. CASE DatabaseFails(r)
  <2>1. pay[r].pc \in {"load", "product", "settle"} /\ \E code : PayAnswer(r, code)
    BY <1>10 DEF DatabaseFails
  <2> QED
    BY <2>1, PayTurns DEF Straight
<1>11. CASE Respond(r)
  <2>1. pay[r].pc = "saved" /\ pay' = [pay EXCEPT ![r] = [@ EXCEPT !.pc = "done"]]
    BY <1>11 DEF Respond
  <2>2. Turned(r, "done")
    BY <2>1, PayTurns
  <2> QED
    BY <2>1, <2>2 DEF Straight
<1> QED
  BY <1>2, <1>3, <1>4, <1>5, <1>6, <1>7, <1>8, <1>9, <1>10, <1>11 DEF PayStep

\* What a pay request holds changes only when it loads its transaction, and it
\* keeps its transaction once it has arrived (the locals of execute).
LEMMA HeldChanges ==
  ASSUME TypeOK, [Next]_vars, NEW r \in Pays
  PROVE  /\ pay[r].pc # "idle" => pay'[r].txn = pay[r].txn
         /\ pay'[r].pc \in Holding =>
              \/ /\ pay[r].pc \in Holding
                 /\ pay'[r].product = pay[r].product
              \/ /\ LoadTransaction(r) /\ row[pay[r].txn].status = "PENDING"
                 /\ pay'[r].product = row[pay[r].txn].product
<1>1. pay[r] \in Pay /\ pay \in [Pays -> Pay]
  BY DEF TypeOK
<1>2. CASE pay'[r] = pay[r]
  BY <1>2
<1>3. CASE PayStep(r)
  <2>1. CASE \E d : <<pay[r].pc, d>> \in Straight /\ Turned(r, d)
    BY <2>1 DEF Turned, Straight, Holding
  <2>2. CASE Loaded(r)
    BY <2>2 DEF Loaded
  <2>3. CASE Polled(r) \/ (pay[r].pc = "sleep" /\ Turned(r, "poll"))
    BY <2>3 DEF Polled, Turned, Holding
  <2> QED
    BY <1>3, <2>1, <2>2, <2>3, PayWays
<1>4. CASE \E t \in Txns : PayArrives(r, t)
  BY <1>1, <1>4 DEF PayArrives, Holding, Pay
<1>5. CASE Restart
  BY <1>1, <1>5 DEF Restart, PayLive, Holding, Pay
<1>6. ASSUME NEW o \in Pays, o # r, PayStep(o) \/ \E t \in Txns : PayArrives(o, t)
      PROVE  pay'[r] = pay[r]
  <2>1. CASE PayStep(o)
    BY <1>6, <2>1, PayWays DEF Turned, Loaded, Polled
  <2>2. CASE \E t \in Txns : PayArrives(o, t)
    BY <1>1, <1>6, <2>2 DEF PayArrives
  <2> QED
    BY <1>6, <2>1, <2>2
<1>7. \/ pay'[r] = pay[r] \/ Restart
      \/ \E o \in Pays : PayStep(o) \/ \E t \in Txns : PayArrives(o, t)
  BY DEF Next, Work, CreateStep, vars, CreateFindProduct, CreateSave, CreateFails,
     PspAccept, PspDecide
<1> QED
  BY <1>2, <1>3, <1>4, <1>5, <1>6, <1>7

\* What is fresh is saved to its own row.
LEMMA SavesOwn == IInv => CoreInv /\ SavesItsOwn
  BY DEF IInv, PaysFresh, SavesItsOwn, Holding

\* The backend alone: what was read of the row stays what the row says.
LEMMA FreshStep == IInv /\ [Next]_vars => PaysFresh'
<1> SUFFICES ASSUME IInv, [Next]_vars, NEW r \in Pays, pay'[r].pc \in Holding
             PROVE  pay'[r].product = row'[pay'[r].txn].product
  BY DEF PaysFresh
<1>1. CoreInv /\ SavesItsOwn /\ TypeOK /\ PayOK(r, pay[r])
  BY SavesOwn DEF CoreInv, PaysOK
<1>2. /\ pay[r].pc # "idle" /\ pay[r].txn \in Txns
      /\ row[pay[r].txn].status # "ABSENT"
      /\ pay'[r].product = row[pay[r].txn].product
  BY <1>1, HeldChanges DEF PayOK, LoadTransaction, IInv, PaysFresh, Holding
<1> QED
  BY <1>1, <1>2, HeldChanges, RowsKeepGoods

\* The inductive step of the whole invariant.
LEMMA InvStep == IInv /\ [Next]_vars => IInv'
  BY SavesOwn, CoreStep, FreshStep DEF IInv

\* The invariant holds of the backend, whatever the number of products, orders
\* and pay requests (the two use cases, the unit of work and the PSP gateway).
THEOREM Invariance == Spec => []IInv
  BY InvInit, InvStep, PTL DEF Spec

--------------------------------------------------------------------------------
(* What follows from it                                                     *)

\* Every table, request and charge has its type in every reachable state; no
\* product's stock is ever negative (products.stock, CHECK (stock >= 0)).
THEOREM TypeCorrect == Spec => []TypeOK
<1>1. IInv => TypeOK
  BY DEF IInv, CoreInv
<1> QED
  BY Invariance, <1>1, PTL

\* No transaction is shipped twice, by however many racing pay requests
\* (TypeOrmPaymentUnitOfWork.saveApprovedPayment).
THEOREM ShippedOnce == Spec => []OneDeliveryPerTransaction
<1>1. IInv => OneDeliveryPerTransaction
  BY DEF IInv, CoreInv
<1> QED
  BY Invariance, <1>1, PTL

\* Nothing is delivered that the PSP did not approve (ProcessPaymentUseCase).
THEOREM PaidBeforeShipped == Spec => []DeliveryIsPaid
<1>1. IInv => DeliveryIsPaid
  BY DEF IInv, CoreInv
<1> QED
  BY Invariance, <1>1, PTL

\* An APPROVED row always has its delivery, of the product and quantity ordered
\* (TypeOrmPaymentUnitOfWork.saveApprovedPayment).
THEOREM ApprovedMeansDelivered == Spec => []ApprovedIsDelivered
<1>1. IInv => ApprovedIsDelivered
  BY DEF IInv, CoreInv
<1> QED
  BY Invariance, <1>1, PTL

\* A client is told APPROVED exactly when its request made a delivery
\* (ProcessPaymentUseCase.execute's return value and its exceptions).
THEOREM HonestReplies == Spec => []RepliesAreHonest
<1>1. IInv => RepliesAreHonest
  BY DEF IInv, CoreInv, PaysOK, PayOK, RepliesAreHonest
<1> QED
  BY Invariance, <1>1, PTL

\* TRANSACTION_ALREADY_PROCESSED is answered without a charge, for a transaction
\* that is and stays final (ProcessPaymentUseCase.execute, isFinished).
THEOREM TurnedAwayUncharged == Spec => []AlreadyProcessedIsSettled
<1>1. IInv => AlreadyProcessedIsSettled
  BY DEF IInv, CoreInv
<1> QED
  BY Invariance, <1>1, PTL

\* What one step may do to the goods, and to a finished row.
LEMMA GoodsStep ==
  CoreInv /\ SavesItsOwn /\ [Next]_vars => [GoodsMoveTogether]_vars
<1> SUFFICES ASSUME CoreInv, SavesItsOwn, [Next]_vars,
                    stock' # stock \/ deliveries' # deliveries
             PROVE  GoodsMoveTogether
  BY DEF GoodsMoveTogether
<1>1. PICK r \in Pays : /\ SettleApproved(r)
                        /\ stock' # stock \/ deliveries' # deliveries
  BY DEF Next, Work, CreateStep, PayStep, dbVars, vars, CreateFindProduct,
         CreateSave, CreateFails, PayArrives, LoadTransaction, LoadProduct,
         Tokenized, ChargeCreated, ChargeFails, Poll, Wake, SettleRejected,
         DatabaseFails, Respond, Restart, PspAccept, PspDecide
<1>2. /\ pay[r].pc = "settle" /\ pay[r].product \in catalog
      /\ DeliveryFree(r) /\ ShipOut(r)
  BY <1>1 DEF SettleApproved, StockGuard, dbVars
<1>3. row'[pay[r].txn].status = "APPROVED"
  <2>1. Overwrites(r, "APPROVED") /\ "APPROVED" \in Finished
    BY <1>2 DEF ShipOut, Overwrites, Finished
  <2> QED
    BY <1>2, <2>1, SavedRow
<1> DEFINE new == [id |-> r, txn |-> pay[r].txn, product |-> pay[r].product,
                   qty |-> pay[r].qty]
<1>4. /\ new \notin deliveries /\ deliveries' = deliveries \union {new}
      /\ stock' = [stock EXCEPT ![new.product] = @ - new.qty]
      /\ new.txn = pay[r].txn
  BY <1>2 DEF DeliveryFree, ShipOut
<1> HIDE DEF new
<1> QED
  BY <1>3, <1>4 DEF GoodsMoveTogether

\* A settlement writes a final status (approve, decline, markAsError), and
\* nothing else writes a row that exists.
LEMMA FinishedStep ==
  CoreInv /\ SavesItsOwn /\ [Next]_vars =>
    \A t \in Txns : row[t].status \in Finished => row'[t].status \in Finished
<1> SUFFICES ASSUME CoreInv, SavesItsOwn, [Next]_vars, NEW t \in Txns, row[t].status \in Finished
             PROVE  row'[t].status \in Finished
  OBVIOUS
<1>1. CASE UNCHANGED row
  BY <1>1
<1>2. ASSUME NEW o \in Txns, CreateSave(o)
      PROVE  row'[t] = row[t]
  BY <1>2 DEF CreateSave, CoreInv, CreatesOK, TypeOK, Finished
<1>3. ASSUME NEW r \in Pays, SettleApproved(r)
      PROVE  row'[t] = row[t] \/ row'[t].status \in Finished
  BY <1>3, SettleWrites, SavedRow
<1>4. ASSUME NEW r \in Pays, SettleRejected(r)
      PROVE  row'[t] = row[t] \/ row'[t].status \in Finished
  BY <1>4, SettleWrites, SavedRow
<1> QED
  BY <1>1, <1>2, <1>3, <1>4, RowWriters

\* Stock leaves the shelf only with a delivery of that very quantity, in the
\* step that makes the transaction APPROVED (the database transaction of
\* saveApprovedPayment).
THEOREM GoodsTogether == Spec => GoodsAlwaysMoveTogether
  BY Invariance, SavesOwn, GoodsStep, PTL DEF Spec, GoodsAlwaysMoveTogether

\* A final status may be overwritten by another, never by PENDING
\* (TypeOrmTransactionRepository.save).
THEOREM NotReopened == Spec => NeverReopened
  BY Invariance, SavesOwn, FinishedStep, PTL DEF Spec, NeverReopened

--------------------------------------------------------------------------------
(* Sums over finite sets of deliveries, and the conservation of stock.  The   *)
(* sum of the community modules is a recursive function on the subsets; that  *)
(* there is such a function, and that the order of summing does not matter,   *)
(* is shown by induction over finite sets, each time as the existence of a    *)
(* smallest counterexample.                                                   *)

\* A property of sets (being in G) that a set has if it has it without any one of
\* its elements, all subsets of a finite set have.
LEMMA SubsetInduction ==
  ASSUME NEW S, IsFiniteSet(S), NEW G,
         \A T \in SUBSET S : (\A x \in T : T \ {x} \in G) => T \in G
  PROVE  SUBSET S \subseteq G
<1> DEFINE Bad == (SUBSET S) \ G
<1> SUFFICES ASSUME Bad # {} PROVE FALSE
  OBVIOUS
<1>1. IsWellFoundedOn(StrictSubsetOrdering(S), FiniteSubsetsOf(S))
  BY FS_StrictSubsetOrderingWellFounded
<1>2. Bad \subseteq FiniteSubsetsOf(S)
  BY FS_FiniteSubsetsOfFinite
<1>3. \E T \in Bad : \A U \in Bad : <<U, T>> \notin StrictSubsetOrdering(S)
  <2> HIDE DEF Bad
  <2> QED
    BY <1>1, <1>2, WFMin
<1>4. PICK T \in Bad : \A U \in Bad : <<U, T>> \notin StrictSubsetOrdering(S)
  BY <1>3
<1>5. ASSUME NEW x \in T PROVE T \ {x} \in G
  <2>1. T \in SUBSET S /\ T \ {x} \in SUBSET S /\ T \ {x} # T
    OBVIOUS
  <2>2. <<T \ {x}, T>> \in StrictSubsetOrdering(S)
    BY <2>1 DEF StrictSubsetOrdering
  <2> QED
    BY <1>4, <2>1, <2>2
<1> QED
  BY <1>4, <1>5

\* f sums up the quantities of every subset of S, the chosen element first.
Chosen(s) == CHOOSE x \in s : TRUE
SumsUp(f, S) ==
  f = [s \in SUBSET S |->
         IF s = {} THEN 0 ELSE Chosen(s).qty + f[s \ {Chosen(s)}]]

\* What is chosen of a set is in it.
LEMMA ChosenIn == \A s : s # {} => Chosen(s) \in s
  BY DEF Chosen

\* Two such functions agree where both are defined.
LEMMA SumsAgree ==
  ASSUME NEW S, IsFiniteSet(S), NEW T \in SUBSET S, NEW U \in SUBSET S,
         NEW f, NEW g, SumsUp(f, T), SumsUp(g, U)
  PROVE  \A s \in SUBSET (T \cap U) : f[s] = g[s]
<1> DEFINE G == {s \in SUBSET S : s \subseteq T \cap U => f[s] = g[s]}
<1>1. ASSUME NEW s \in SUBSET S, \A x \in s : s \ {x} \in G PROVE s \in G
  <2> SUFFICES ASSUME s \subseteq T \cap U PROVE f[s] = g[s]
    OBVIOUS
  <2>1. CASE s = {}
    BY <2>1 DEF SumsUp
  <2>2. CASE s # {}
    <3>1. f[s \ {Chosen(s)}] = g[s \ {Chosen(s)}]
      BY <1>1, <2>2, ChosenIn
    <3>2. /\ f[s] = Chosen(s).qty + f[s \ {Chosen(s)}]
          /\ g[s] = Chosen(s).qty + g[s \ {Chosen(s)}]
      BY <2>2 DEF SumsUp
    <3> QED
      BY <3>1, <3>2
  <2> QED
    BY <2>1, <2>2
<1>2. SUBSET S \subseteq G
  <2> HIDE DEF G
  <2> QED
    BY <1>1, SubsetInduction
<1> QED
  BY <1>2

\* There is such a function for every finite set: below the set itself it is
\* pieced together of those for smaller sets.
LEMMA SumsExist ==
  ASSUME NEW S, IsFiniteSet(S)
  PROVE  \A T \in SUBSET S : \E f : SumsUp(f, T)
<1> DEFINE G == {T \in SUBSET S : \E f : SumsUp(f, T)}
<1>1. ASSUME NEW T \in SUBSET S, \A x \in T : T \ {x} \in G PROVE T \in G
  <2> DEFINE part(s) == CHOOSE f : SumsUp(f, s)
             rest(s) == s \ {Chosen(s)}
             val(s)  == IF s = {} THEN 0 ELSE Chosen(s).qty + part(rest(s))[rest(s)]
             whole   == [s \in SUBSET T |-> val(s)]
  <2>1. ASSUME NEW s \in SUBSET T, s # T PROVE SumsUp(part(s), s)
    <3>1. PICK y \in T : y \notin s
      BY <2>1
    <3>2. PICK g : SumsUp(g, T \ {y})
      BY <1>1
    <3> DEFINE below == [u \in SUBSET s |-> g[u]]
    <3>3. ASSUME NEW u \in SUBSET s
          PROVE  below[u] = IF u = {} THEN 0 ELSE Chosen(u).qty + below[rest(u)]
      <4>1. u \in SUBSET (T \ {y}) /\ rest(u) \in SUBSET s
        BY <3>1
      <4>2. g[u] = IF u = {} THEN 0 ELSE Chosen(u).qty + g[rest(u)]
        BY <3>2, <4>1 DEF SumsUp
      <4> QED
        BY <4>1, <4>2
    <3>4. SumsUp(below, s)
      BY <3>3 DEF SumsUp
    <3> QED
      BY <3>4
  <2>2. ASSUME NEW s \in SUBSET T, s # T PROVE part(s)[s] = val(s)
    <3> SUFFICES part(s)[s] = IF s = {} THEN 0 ELSE Chosen(s).qty + part(rest(s))[rest(s)]
      OBVIOUS
    <3>0. SumsUp(part(s), s)
      BY <2>1, <2>2
    <3>1. CASE s = {}
      <4> HIDE DEF part, rest
      <4> QED
        BY <3>0, <3>1 DEF SumsUp
    <3>2. CASE s # {}
      <4>1. rest(s) \in SUBSET T /\ rest(s) # T /\ rest(s) \in SUBSET (s \cap rest(s))
        BY <3>2, ChosenIn
      <4>2. SumsUp(part(s), s) /\ SumsUp(part(rest(s)), rest(s))
        BY <2>1, <2>2, <4>1
      <4>3. s \in SUBSET S /\ rest(s) \in SUBSET S
        OBVIOUS
      <4> HIDE DEF part, rest
      <4>4. part(s)[rest(s)] = part(rest(s))[rest(s)]
        BY <4>1, <4>2, <4>3, SumsAgree
      <4>5. part(s)[s] = Chosen(s).qty + part(s)[rest(s)]
        BY <3>2, <4>2 DEF SumsUp, rest
      <4> QED
        BY <3>2, <4>4, <4>5
    <3> QED
      BY <3>1, <3>2
  <2>3. ASSUME NEW s \in SUBSET T
        PROVE  whole[s] = IF s = {} THEN 0 ELSE Chosen(s).qty + whole[rest(s)]
    <3>1. CASE s = {}
      BY <3>1
    <3>2. CASE s # {}
      <4>1. rest(s) \in SUBSET T /\ rest(s) # T
        BY <3>2, ChosenIn
      <4>2. part(rest(s))[rest(s)] = whole[rest(s)]
        <5> DEFINE r == rest(s)
        <5>1. r \in SUBSET T /\ r # T
          BY <4>1
        <5> HIDE DEF r, part
        <5>2. part(r)[r] = val(r)
          BY <2>2, <5>1
        <5>3. whole[r] = val(r)
          <6> HIDE DEF val
          <6> QED
            BY <5>1
        <5> QED
          BY <5>2, <5>3 DEF r
      <4>3. whole[s] = val(s)
        OBVIOUS
      <4> HIDE DEF whole
      <4> QED
        BY <3>2, <4>2, <4>3
    <3> QED
      BY <3>1, <3>2
  <2>4. SumsUp(whole, T)
    <3> HIDE DEF val
    <3> QED
      BY <2>3 DEF SumsUp
  <2> QED
    BY <2>4
<1>2. SUBSET S \subseteq G
  <2> HIDE DEF G
  <2> QED
    BY <1>1, SubsetInduction
<1> QED
  BY <1>2

\* Units sums up so.
LEMMA UnitsSumUp == \A S : Units(S) = (CHOOSE f : SumsUp(f, S))[S]
  BY DEF Units, MapThenSumSet, MapThenFoldSet, SumsUp, Chosen

\* No deliveries take no units; others take those of the chosen one and the rest.
LEMMA UnitsOfChosen ==
  ASSUME NEW S, IsFiniteSet(S)
  PROVE  Units(S) = IF S = {} THEN 0 ELSE Chosen(S).qty + Units(S \ {Chosen(S)})
<1> DEFINE F(T) == CHOOSE f : SumsUp(f, T)
           R == S \ {Chosen(S)}
<1>1. SumsUp(F(S), S) /\ SumsUp(F(R), R)
  BY SumsExist
<1>2. Units(S) = F(S)[S] /\ Units(R) = F(R)[R]
  BY UnitsSumUp
<1>3. S \in SUBSET S /\ R \in SUBSET S /\ R \in SUBSET (S \cap R)
  OBVIOUS
<1> HIDE DEF F
<1>4. F(S)[S] = IF S = {} THEN 0 ELSE Chosen(S).qty + F(S)[R]
  BY <1>1 DEF SumsUp
<1> HIDE DEF R
<1>5. F(S)[R] = F(R)[R]
  BY <1>1, <1>3, SumsAgree
<1> QED
  BY <1>2, <1>4, <1>5 DEF R

\* What has quantities that are natural numbers.
Counted(S) == \A d \in S : d.qty \in Nat

\* The sum is a natural number.
LEMMA UnitsTyped ==
  ASSUME NEW S, IsFiniteSet(S), Counted(S)
  PROVE  \A T \in SUBSET S : Units(T) \in Nat
<1> DEFINE G == {T \in SUBSET S : Units(T) \in Nat}
<1>1. ASSUME NEW T \in SUBSET S, \A x \in T : T \ {x} \in G PROVE T \in G
  <2>1. IsFiniteSet(T)
    BY FS_Subset
  <2>2. Units(T) = IF T = {} THEN 0 ELSE Chosen(T).qty + Units(T \ {Chosen(T)})
    BY <2>1, UnitsOfChosen
  <2>3. T # {} => Chosen(T).qty \in Nat /\ Units(T \ {Chosen(T)}) \in Nat
    BY <1>1, ChosenIn DEF Counted
  <2>4. Units(T) \in Nat
    <3> DEFINE m == Chosen(T).qty
               n == Units(T \ {Chosen(T)})
    <3>1. T # {} => m \in Nat /\ n \in Nat
      BY <2>3
    <3>2. Units(T) = IF T = {} THEN 0 ELSE m + n
      BY <2>2
    <3> HIDE DEF m, n
    <3> QED
      BY <3>1, <3>2
  <2> QED
    BY <2>4
<1>2. SUBSET S \subseteq G
  <2> HIDE DEF G
  <2> QED
    BY <1>1, SubsetInduction
<1> QED
  BY <1>2

\* Any delivery may be counted first.
LEMMA UnitsOfAny ==
  ASSUME NEW S, IsFiniteSet(S), Counted(S)
  PROVE  \A T \in SUBSET S : \A y \in T : Units(T) = y.qty + Units(T \ {y})
<1> DEFINE G == {T \in SUBSET S : \A y \in T : Units(T) = y.qty + Units(T \ {y})}
<1>1. ASSUME NEW T \in SUBSET S, \A x \in T : T \ {x} \in G, NEW y \in T
      PROVE  Units(T) = y.qty + Units(T \ {y})
  <2> DEFINE x == Chosen(T)
             both == (T \ {x}) \ {y}
  <2>1. x \in T /\ IsFiniteSet(T)
    BY ChosenIn, FS_Subset
  <2>2. Units(T) = x.qty + Units(T \ {x})
    BY <2>1, UnitsOfChosen
  <2>3. CASE x = y
    BY <2>2, <2>3
  <2>4. CASE x # y
    <3>1. Units(T \ {x}) = y.qty + Units(both)
      BY <1>1, <2>1, <2>4
    <3>2. Units(T \ {y}) = x.qty + Units((T \ {y}) \ {x})
      BY <1>1, <2>1, <2>4
    <3>3. (T \ {y}) \ {x} = both
      OBVIOUS
    <3>4. x.qty \in Nat /\ y.qty \in Nat /\ Units(both) \in Nat
      BY <2>1, UnitsTyped DEF Counted
    <3> DEFINE a == x.qty
               b == y.qty
               n == Units(both)
    <3>5. a \in Nat /\ b \in Nat /\ n \in Nat
      BY <3>4
    <3>6. Units(T) = a + (b + n) /\ Units(T \ {y}) = a + n
      BY <2>2, <3>1, <3>2, <3>3
    <3> HIDE DEF a, b, n
    <3>7. a + (b + n) = b + (a + n)
      BY <3>5
    <3> QED
      BY <3>6, <3>7 DEF b
  <2> QED
    BY <2>3, <2>4
<1>2. SUBSET S \subseteq G
  <2>1. \A T \in SUBSET S : (\A x \in T : T \ {x} \in G) => T \in G
    BY <1>1
  <2> HIDE DEF G
  <2> QED
    BY <2>1, SubsetInduction
<1> QED
  BY <1>2

\* One delivery more takes its quantity more.
LEMMA UnitsAdded ==
  ASSUME NEW S, IsFiniteSet(S), Counted(S), NEW d, d.qty \in Nat, d \notin S
  PROVE  Units(S \union {d}) = Units(S) + d.qty /\ Units(S) \in Nat
<1>1. IsFiniteSet(S \union {d}) /\ Counted(S \union {d})
  BY FS_AddElement DEF Counted
<1>2. Units(S \union {d}) = d.qty + Units((S \union {d}) \ {d})
  BY <1>1, UnitsOfAny
<1>3. (S \union {d}) \ {d} = S /\ Units(S) \in Nat
  BY UnitsTyped
<1> DEFINE q == d.qty
           n == Units(S)
<1>4. q \in Nat /\ n \in Nat
  BY <1>3
<1>5. Units(S \union {d}) = q + n
  BY <1>2, <1>3
<1> HIDE DEF q, n
<1>6. Units(S \union {d}) = n + q
  BY <1>4, <1>5
<1> QED
  BY <1>4, <1>6 DEF q, n

\* Stock is conserved while the deliveries are finitely many, which one by one
\* they remain.
Conserved == IsFiniteSet(deliveries) /\ StockConserved

\* A step that books a delivery takes from the shelf what it adds to the sum.
LEMMA ConservedStep == IInv /\ IInv' /\ Conserved /\ [Next]_vars => Conserved'
<1> SUFFICES ASSUME IInv, IInv', Conserved, [Next]_vars PROVE Conserved'
  OBVIOUS
<1> DEFINE Of(p) == {d \in deliveries : d.product = p}
<1>1. CASE stock' = stock /\ deliveries' = deliveries
  BY <1>1 DEF Conserved, StockConserved
<1>2. CASE stock' # stock \/ deliveries' # deliveries
  <2>1. PICK d \in deliveries' :
          /\ d \notin deliveries /\ deliveries' = deliveries \union {d}
          /\ stock' = [stock EXCEPT ![d.product] = @ - d.qty]
    BY <1>2, SavesOwn, GoodsStep DEF GoodsMoveTogether, vars
  <2>2. d.product \in ProductIds /\ d.qty \in Nat
    BY <2>1 DEF IInv, CoreInv, TypeOK, Delivery
  <2>3. IsFiniteSet(deliveries')
    BY <2>1, FS_AddElement DEF Conserved
  <2>4. stock \in [ProductIds -> Nat]
    BY DEF IInv, CoreInv, TypeOK
  <2>5. ASSUME NEW p \in ProductIds
        PROVE  stock'[p] + Units({e \in deliveries' : e.product = p}) = InitialStock[p]
    <3>1. IsFiniteSet(Of(p)) /\ Counted(Of(p))
      BY FS_Subset DEF Conserved, Counted, IInv, CoreInv, TypeOK, Delivery
    <3>2. stock[p] + Units(Of(p)) = InitialStock[p]
      BY DEF Conserved, StockConserved
    <3>3. CASE p = d.product
      <4>1. {e \in deliveries' : e.product = p} = Of(p) \union {d}
        BY <2>1, <3>3
      <4>2. Units(Of(p) \union {d}) = Units(Of(p)) + d.qty /\ Units(Of(p)) \in Nat
        BY <2>1, <2>2, <3>1, UnitsAdded
      <4>3. stock'[p] = stock[p] - d.qty
        BY <2>1, <2>4, <3>3
      <4> DEFINE q == d.qty
                 n == Units(Of(p))
                 m == stock[p]
      <4>4. q \in Nat /\ n \in Nat /\ m \in Nat
        BY <2>2, <2>4, <4>2
      <4>5. /\ stock'[p] = m - q /\ m + n = InitialStock[p]
            /\ Units({e \in deliveries' : e.product = p}) = n + q
        BY <3>2, <4>1, <4>2, <4>3
      <4> HIDE DEF q, n, m
      <4>6. (m - q) + (n + q) = m + n
        BY <4>4
      <4> QED
        BY <4>5, <4>6
    <3>4. CASE p # d.product
      <4>1. {e \in deliveries' : e.product = p} = Of(p)
        BY <2>1, <3>4
      <4>2. stock'[p] = stock[p]
        BY <2>1, <2>4, <3>4
      <4> QED
        BY <3>2, <4>1, <4>2
    <3> QED
      BY <3>3, <3>4
  <2> QED
    BY <2>3, <2>5 DEF Conserved, StockConserved
<1> QED
  BY <1>1, <1>2

\* Goods are conserved, whatever the prices, the stock and the number of
\* requests: units left and units delivered always add up to the units there
\* were (saveApprovedPayment).
THEOREM StockIsConserved == Spec => []StockConserved
<1>1. Init => Conserved
  <2> SUFFICES ASSUME Init PROVE Conserved
    OBVIOUS
  <2>1. Units({}) = 0 /\ IsFiniteSet({})
    BY FS_EmptySet, UnitsOfChosen
  <2>2. \A p \in ProductIds : {d \in deliveries : d.product = p} = {}
    BY DEF Init
  <2>3. \A p \in ProductIds : stock[p] + 0 = InitialStock[p]
    BY BackendAssumption DEF Init, BackendAssumption
  <2> QED
    BY <2>1, <2>2, <2>3 DEF Init, Conserved, StockConserved
<1>2. Conserved => StockConserved
  BY DEF Conserved
<1> QED
  BY <1>1, <1>2, Invariance, ConservedStep, PTL DEF Spec

--------------------------------------------------------------------------------
(* Prices                                                                   *)

\* The only write that makes a row passes the table's CHECK, and no later write
\* changes the product or quantity of a row (CREATE TABLE "transactions").
LEMMA PricedStep ==
  CoreInv /\ SavesItsOwn /\ OrdersArePriced /\ [Next]_vars => OrdersArePriced'
<1> SUFFICES ASSUME CoreInv, SavesItsOwn, OrdersArePriced, [Next]_vars,
                    NEW t \in Txns, row'[t].status # "ABSENT"
             PROVE  /\ row'[t].product \in catalog'
                    /\ Price[row'[t].product] * row'[t].qty \in 1..MaxInt4
  BY DEF OrdersArePriced
<1>1. catalog' = catalog
  BY CatalogStays
<1>2. CASE row[t].status # "ABSENT"
  BY <1>1, <1>2, RowsKeepGoods DEF OrdersArePriced
<1>3. CASE row[t].status = "ABSENT"
  <2>1. CreateSave(t)
    BY <1>3, NewRow
  <2> QED
    BY <1>1, <2>1 DEF CreateSave, Insertable, CoreInv, TypeOK
<1> QED
  BY <1>2, <1>3

\* No order without a chargeable amount ever gets a row, whatever the prices and
\* quantities (CreateTransactionUseCase computes the amount unchecked).
THEOREM Priced == Spec => []OrdersArePriced
<1>1. Init => OrdersArePriced
  BY DEF Init, OrdersArePriced, NoRow
<1> QED
  BY <1>1, Invariance, SavesOwn, PricedStep, PTL DEF Spec

--------------------------------------------------------------------------------
(* Refinement                                                               *)

\* The backend's initial tables are the ledger's.
LEMMA LedgerInitially == Init => Ledger!LedgerInit
  BY DEF Init, Ledger!LedgerInit, Ledger!Unopened, NoRow

\* The step simulation: the insert is Open, saveApprovedPayment Ship, the save of
\* a rejected payment Close, and everything else leaves the ledger alone.
LEMMA LedgerStep ==
  CoreInv /\ SavesItsOwn /\ [Next]_vars => [Ledger!LedgerNext]_(Ledger!ledgerVars)
<1> DEFINE order(t) == [status |-> row[t].status, product |-> row[t].product,
                        qty |-> row[t].qty]
<1> SUFFICES ASSUME CoreInv, SavesItsOwn, [Next]_vars
             PROVE  Ledger!LedgerNext \/ UNCHANGED Ledger!ledgerVars
  OBVIOUS
<1>1. CASE UNCHANGED <<stock, row, deliveries>>
  BY <1>1 DEF Ledger!ledgerVars
<1>2. ASSUME NEW t \in Txns, CreateSave(t)
      PROVE  Ledger!LedgerNext
  <2>1. create[t].product \in ProductIds /\ create[t].qty \in Quantities
        /\ row[t].status = "ABSENT" /\ row \in [Txns -> Row]
    BY <1>2 DEF CoreInv, CreatesOK, TypeOK, CreateSave
  <2>2. Ledger!Open(t, create[t].product, create[t].qty)
    BY <1>2, <2>1 DEF CreateSave, Ledger!Open
  <2> QED
    BY <2>1, <2>2 DEF Ledger!LedgerNext, Ledger!Open
<1>3. ASSUME NEW r \in Pays, SettleApproved(r), ~ UNCHANGED dbVars
      PROVE  Ledger!LedgerNext
  <2>1. /\ pay[r].pc = "settle" /\ DeliveryFree(r) /\ ShipOut(r) /\ StockGuard(r)
        /\ pay[r].product \in catalog /\ row \in [Txns -> Row]
    BY <1>3 DEF SettleApproved, StockGuard, CoreInv, TypeOK
  <2>2. /\ pay[r].txn \in Txns /\ row[pay[r].txn].status # "ABSENT"
        /\ pay[r].product = row[pay[r].txn].product
        /\ pay[r].qty = row[pay[r].txn].qty
    <3>1. Overwrites(r, "APPROVED") /\ "APPROVED" \in Finished
      BY <2>1 DEF ShipOut, Overwrites, Finished
    <3> QED
      BY <2>1, <3>1, SavedRow
  <2> DEFINE t == pay[r].txn
             shipped == {d.txn : d \in deliveries}
  <2>3. t \notin shipped /\ shipped' = shipped \union {t}
    <3> DEFINE new == [id |-> r, txn |-> t, product |-> pay[r].product,
                       qty |-> pay[r].qty]
    <3>1. deliveries' = deliveries \union {new} /\ new.txn = t
      BY <2>1 DEF ShipOut
    <3>2. t \notin shipped
      BY <2>1 DEF DeliveryFree
    <3> HIDE DEF new
    <3>3. shipped' = {d.txn : d \in deliveries'}
      OBVIOUS
    <3> QED
      BY <3>1, <3>2, <3>3
  <2>4. /\ order(t).product = pay[r].product /\ order(t).qty = pay[r].qty
        /\ stock[order(t).product] >= order(t).qty
        /\ stock' = [stock EXCEPT ![order(t).product] = @ - order(t).qty]
    BY <2>1, <2>2 DEF ShipOut, StockGuard
  <2>5. [o \in Txns |-> order(o)]'
          = [[o \in Txns |-> order(o)] EXCEPT ![t].status = "APPROVED"]
    BY <2>1, <2>2 DEF ShipOut, Entity
  <2>6. Ledger!Ship(t)
    BY <2>2, <2>3, <2>4, <2>5 DEF Ledger!Ship
  <2> QED
    BY <2>2, <2>6 DEF Ledger!LedgerNext, Ledger!Ship
<1>4. ASSUME NEW r \in Pays, SettleRejected(r), ~ UNCHANGED dbVars
      PROVE  Ledger!LedgerNext
  <2>1. /\ pay[r].pc = "settle" /\ pay[r].outcome \in {"DECLINED", "ERROR"}
        /\ pay[r].product \in catalog
        /\ row' = [row EXCEPT ![pay[r].txn] = Entity(r, pay[r].outcome)]
        /\ UNCHANGED <<stock, deliveries>> /\ row \in [Txns -> Row]
    BY <1>4 DEF SettleRejected, CoreInv, TypeOK
  <2>2. /\ pay[r].txn \in Txns /\ row[pay[r].txn].status # "ABSENT"
        /\ pay[r].product = row[pay[r].txn].product
        /\ pay[r].qty = row[pay[r].txn].qty
    <3>1. Overwrites(r, pay[r].outcome) /\ pay[r].outcome \in Finished
      BY <2>1 DEF Overwrites, Finished
    <3> QED
      BY <2>1, <3>1, SavedRow
  <2>3. Ledger!Close(pay[r].txn, pay[r].outcome)
    BY <2>1, <2>2 DEF Ledger!Close, Entity
  <2> QED
    BY <2>1, <2>2, <2>3 DEF Ledger!LedgerNext, Ledger!Close
<1>5. \/ UNCHANGED <<stock, row, deliveries>>
      \/ \E t \in Txns : CreateSave(t)
      \/ \E r \in Pays : SettleApproved(r) \/ SettleRejected(r)
  BY DEF Next, Work, CreateStep, PayStep, dbVars, vars, CreateFindProduct,
         CreateFails, PayArrives, LoadTransaction, LoadProduct,
         Tokenized, ChargeCreated, ChargeFails, Poll, Wake,
         DatabaseFails, Respond, Restart, PspAccept, PspDecide
<1> QED
  BY <1>1, <1>2, <1>3, <1>4, <1>5 DEF dbVars

\* The backend implements the ledger's promise: goods, money and paperwork move
\* in one step or not at all, whatever races, failures and restarts happen
\* (the three database writes of the backend).
THEOREM Refinement == Spec => ImplementsLedger
  BY Invariance, SavesOwn, LedgerInitially, LedgerStep, PTL
     DEF Spec, ImplementsLedger, Ledger!LedgerSpec

\* Only Ship approves, and nothing takes an order off the shipped ones.
LEMMA LedgerApproves ==
  Ledger!ApprovedWasShipped /\ [Ledger!LedgerNext]_(Ledger!ledgerVars)
    => Ledger!ApprovedWasShipped'
<1> DEFINE order   == [t \in Txns |-> [status |-> row[t].status, product |-> row[t].product,
                                     qty |-> row[t].qty]]
           shipped == {d.txn : d \in deliveries}
           Kept(o, s) == \A t \in Txns : o[t].status = "APPROVED" => t \in s
<1> SUFFICES ASSUME Kept(order, shipped), [Ledger!LedgerNext]_(Ledger!ledgerVars)
             PROVE  Kept(order', shipped')
  BY DEF Ledger!ApprovedWasShipped
<1>1. DOMAIN order = Txns /\ \A t \in Txns : DOMAIN order[t] = {"status", "product", "qty"}
  OBVIOUS
<1>2. CASE UNCHANGED Ledger!ledgerVars
  <2>1. order' = order /\ shipped' = shipped
    BY <1>2 DEF Ledger!ledgerVars
  <2> HIDE DEF order, shipped
  <2> QED
    BY <2>1
<1>3. ASSUME NEW t \in Txns, NEW p \in ProductIds, NEW q \in Quantities, Ledger!Open(t, p, q)
      PROVE  Kept(order', shipped')
  <2>1. /\ order' = [order EXCEPT ![t] = [status |-> "PENDING", product |-> p, qty |-> q]]
        /\ shipped' = shipped
    BY <1>3 DEF Ledger!Open
  <2> HIDE DEF order, shipped
  <2> QED
    BY <1>1, <2>1
<1>4. ASSUME NEW t \in Txns, Ledger!Ship(t) PROVE Kept(order', shipped')
  <2>1. /\ order' = [order EXCEPT ![t].status = "APPROVED"]
        /\ shipped' = shipped \union {t}
    BY <1>4 DEF Ledger!Ship
  <2> HIDE DEF order, shipped
  <2> QED
    BY <1>1, <2>1
<1>5. ASSUME NEW t \in Txns, NEW s \in {"DECLINED", "ERROR"}, Ledger!Close(t, s)
      PROVE  Kept(order', shipped')
  <2>1. order' = [order EXCEPT ![t].status = s] /\ shipped' = shipped
    BY <1>5 DEF Ledger!Close
  <2> HIDE DEF order, shipped
  <2> QED
    BY <1>1, <2>1
<1> HIDE DEF Kept, order, shipped
<1> QED
  BY <1>2, <1>3, <1>4, <1>5 DEF Ledger!LedgerNext

\* Whoever relies on the ledger alone may rely on what it says is APPROVED being
\* shipped, the backend's own steps forgotten.
THEOREM ApprovedMeansShipped == Ledger!LedgerSpec => []Ledger!ApprovedWasShipped
<1>1. Ledger!LedgerInit => Ledger!ApprovedWasShipped
  BY DEF Ledger!LedgerInit, Ledger!Unopened, Ledger!ApprovedWasShipped
<1> QED
  BY <1>1, LedgerApproves, PTL DEF Ledger!LedgerSpec

--------------------------------------------------------------------------------
(* Progress.  Fairness is out of the prover's reach; what it is applied to in  *)
(* PaysAreAnswered is not: no step leads a pay request back, and the poll loop *)
(* goes round no more often than the deadline lets it.                         *)

\* How a pay request advances, x before a step and y after it.
Advances(x, y) ==
  \/ <<x.pc, y.pc>> \in Straight \union {<<"idle", "load">>, <<"load", "product">>}
     /\ y.polls = x.polls
  \/ x.pc \notin {"idle", "done", "dropped"} /\ y.pc = "dropped"
  \/ x.pc = "poll" /\ y.pc = "sleep" /\ y.polls = x.polls + 1
  \/ x.pc = "sleep" /\ x.polls < MaxPolls /\ y.pc = "poll" /\ y.polls = x.polls

\* No request polls again after the deadline (pollForResult's while).
InTime(x) ==
  /\ x.pc \in {"idle", "load", "product", "tokenize", "submitted"} => x.polls = 0
  /\ x.pc = "poll" => x.polls < MaxPolls
  /\ x.pc = "sleep" => x.polls <= MaxPolls
PaysInTime == \A r \in Pays : InTime(pay[r])

\* At most so many steps of its own are left to a pay request.
StepsLeft(x) ==
  CASE x.pc = "idle"      -> 2 * MaxPolls + 8
    [] x.pc = "load"      -> 2 * MaxPolls + 7
    [] x.pc = "product"   -> 2 * MaxPolls + 6
    [] x.pc = "tokenize"  -> 2 * MaxPolls + 5
    [] x.pc = "submitted" -> 2 * MaxPolls + 4
    [] x.pc = "poll"      -> 2 * (MaxPolls - x.polls) + 3
    [] x.pc = "sleep"     -> 2 * (MaxPolls - x.polls) + 4
    [] x.pc = "settle"    -> 2
    [] x.pc = "saved"     -> 1
    [] OTHER              -> 0

\* Every step that changes a pay request leaves it fewer steps to take: execute never goes
\* back, and none of its waits can be gone through for ever.
PaysGoForward ==
  [][\A r \in Pays : pay'[r] # pay[r] =>
       StepsLeft(pay'[r]) \in 0..(StepsLeft(pay[r]) - 1)]_vars

\* On each of these ways there is less left than before.
LEMMA AdvancesShorten ==
  ASSUME NEW x \in Pay, NEW y \in Pay, InTime(x), Advances(x, y)
  PROVE  InTime(y) /\ StepsLeft(y) \in 0..(StepsLeft(x) - 1)
<1>1. MaxPolls \in Nat \ {0} /\ x.polls \in Nat /\ y.polls \in Nat /\ x.pc \in PayPc
  BY BackendAssumption DEF Pay
<1>2. CASE x.pc = "poll" /\ y.pc = "sleep" /\ y.polls = x.polls + 1
  BY <1>1, <1>2 DEF InTime, StepsLeft
<1>3. CASE x.pc = "sleep" /\ x.polls < MaxPolls /\ y.pc = "poll" /\ y.polls = x.polls
  BY <1>1, <1>3 DEF InTime, StepsLeft
<1>4. CASE x.pc \notin {"idle", "done", "dropped"} /\ y.pc = "dropped"
  BY <1>1, <1>4 DEF InTime, StepsLeft, PayPc
<1>5. CASE <<x.pc, y.pc>> \in Straight /\ y.polls = x.polls
  BY <1>1, <1>5 DEF InTime, StepsLeft, Straight
<1>6. CASE /\ <<x.pc, y.pc>> \in {<<"idle", "load">>, <<"load", "product">>}
           /\ y.polls = x.polls
  BY <1>1, <1>6 DEF InTime, StepsLeft
<1> QED
  BY <1>2, <1>3, <1>4, <1>5, <1>6 DEF Advances

\* The steps of a request itself go these ways (ProcessPaymentUseCase.execute).
LEMMA OwnSteps ==
  ASSUME TypeOK, NEW r \in Pays, PayStep(r) \/ \E t \in Txns : PayArrives(r, t)
  PROVE  /\ pay' = [pay EXCEPT ![r] = pay'[r]]
         /\ Advances(pay[r], pay'[r])
<1>1. CASE PayStep(r)
  <2>1. CASE \E d : <<pay[r].pc, d>> \in Straight /\ Turned(r, d)
    BY <2>1 DEF Turned, Advances
  <2>2. CASE Loaded(r)
    BY <2>2 DEF Loaded, Advances
  <2>3. CASE Polled(r)
    BY <2>3 DEF Polled, Advances
  <2>4. CASE pay[r].pc = "sleep" /\ pay[r].polls < MaxPolls /\ Turned(r, "poll")
    BY <2>4 DEF Turned, Advances
  <2> QED
    BY <1>1, <2>1, <2>2, <2>3, <2>4, PayWays
<1>2. ASSUME NEW t \in Txns, PayArrives(r, t)
      PROVE  /\ pay' = [pay EXCEPT ![r] = pay'[r]]
             /\ Advances(pay[r], pay'[r])
  <2> DEFINE y == [pay[r] EXCEPT !.pc = "load", !.txn = t]
  <2>1. pay' = [pay EXCEPT ![r] = y] /\ pay[r].pc = "idle"
    BY <1>2 DEF PayArrives
  <2>2. y.pc = "load" /\ y.polls = pay[r].polls
    BY DEF TypeOK, Pay
  <2> HIDE DEF y
  <2>3. pay'[r] = y
    BY <2>1 DEF TypeOK
  <2> QED
    BY <2>1, <2>2, <2>3 DEF Advances
<1> QED
  BY <1>1, <1>2

\* Nobody else's step changes a request, but for the restart, which ends it.
LEMMA AllAdvance ==
  ASSUME TypeOK, TypeOK', [Next]_vars, NEW r \in Pays
  PROVE  pay'[r] = pay[r] \/ Advances(pay[r], pay'[r])
<1>1. CASE UNCHANGED pay
  BY <1>1
<1>2. ASSUME NEW o \in Pays, PayStep(o) \/ \E t \in Txns : PayArrives(o, t)
      PROVE  pay'[r] = pay[r] \/ Advances(pay[r], pay'[r])
  <2>1. pay' = [pay EXCEPT ![o] = pay'[o]] /\ Advances(pay[o], pay'[o])
    BY <1>2, OwnSteps
  <2> QED
    BY <2>1 DEF TypeOK
<1>3. CASE Restart
  BY <1>3 DEF Restart, PayLive, Advances, TypeOK, Pay
<1>4. \/ UNCHANGED pay \/ Restart
      \/ \E o \in Pays : PayStep(o) \/ \E t \in Txns : PayArrives(o, t)
  BY DEF Next, Work, CreateStep, CreateFindProduct, CreateSave, CreateFails,
         PspAccept, PspDecide, vars
<1> QED
  BY <1>1, <1>2, <1>3, <1>4

\* So the polls stay within the deadline, and there is always less left.
LEMMA InTimeStep ==
  ASSUME TypeOK, TypeOK', PaysInTime, [Next]_vars
  PROVE  /\ PaysInTime'
         /\ \A r \in Pays : pay'[r] # pay[r] =>
              StepsLeft(pay'[r]) \in 0..(StepsLeft(pay[r]) - 1)
<1> SUFFICES ASSUME NEW r \in Pays
             PROVE  /\ InTime(pay'[r])
                    /\ pay'[r] # pay[r] =>
                         StepsLeft(pay'[r]) \in 0..(StepsLeft(pay[r]) - 1)
  BY DEF PaysInTime
<1>1. pay[r] \in Pay /\ pay'[r] \in Pay /\ InTime(pay[r])
  BY DEF TypeOK, PaysInTime
<1> QED
  BY <1>1, AllAdvance, AdvancesShorten

\* pollForResult never polls once its deadline is over, however the PSP answers.
THEOREM PollsEnd == Spec => []PaysInTime
<1>1. Init => PaysInTime
  BY DEF Init, PaysInTime, InTime
<1> QED
  BY <1>1, TypeCorrect, InTimeStep, PTL DEF Spec

\* Every step that changes a payment, failures and restarts included, brings it nearer to
\* its end, so that it takes no more than 2 * MaxPolls + 8 of them (execute).
THEOREM PaysNearTheirEnd == Spec => PaysGoForward
  BY PollsEnd, TypeCorrect, InTimeStep, PTL DEF Spec, PaysGoForward
================================================================================
