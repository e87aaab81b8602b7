------------------------- MODULE SeedIdMigrationProofs -------------------------
(* Theorems about the migration under a running backend, for every number of  *)
(* products, orders and requests, and every sequence of ups and downs.        *)
EXTENDS SeedIdMigration, PaymentBackendProofs

\* The overlay sends either form of the seeded id to the asked one and leaves
\* every other id alone; it never invents an id, nor makes one of null.
LEMMA RewriteFacts ==
  ASSUME NEW form \in {LegacyId, FixedId}
  PROVE  /\ \A p \in ProductIds : Rewrite(p, form) \in ProductIds
         /\ Rewrite(None, form) = None
         /\ \A p : \A f, g \in {LegacyId, FixedId} :
              Rewrite(Rewrite(p, f), g) = Rewrite(p, g)
         /\ \A p \in ProductIds : Price[Rewrite(p, form)] = Price[p]
         /\ LegacyId # FixedId
  BY MigrationAssumption, BackendAssumption
     DEF Rewrite, MigrationAssumption, BackendAssumption

\* Two ids of the catalog that are forms of one id are that id.
LEMMA OneForm ==
  ASSUME CatalogInForm, NEW p \in catalog, NEW q \in catalog,
         Rewrite(p, FixedId) = Rewrite(q, FixedId)
  PROVE  p = q
<1>1. PICK a \in Catalog : p = Rewrite(a, Live)
  BY DEF CatalogInForm
<1>2. PICK b \in Catalog : q = Rewrite(b, Live)
  BY DEF CatalogInForm
<1> QED
  BY <1>1, <1>2 DEF Rewrite, Live

\* So a request that is about to save, under an id the store still has, saves the
\* product its row has (the foreign key turns the stale ones away).
LEMMA MigrationSavesOwn == MigrationInv => SavesItsOwn
<1> SUFFICES ASSUME MigrationInv, NEW r \in Pays, pay[r].pc = "settle",
                    pay[r].product \in catalog
             PROVE  pay[r].product = row[pay[r].txn].product
  BY DEF SavesItsOwn
<1>1. pay[r].txn \in Txns /\ row[pay[r].txn].status # "ABSENT"
  BY DEF MigrationInv, CoreInv, PaysOK, PayOK, Holding
<1>2. row[pay[r].txn].product \in catalog
  BY <1>1 DEF MigrationInv, OrdersArePriced
<1> QED
  BY <1>2, OneForm DEF MigrationInv, SameGoods, Holding

\* What SeedProducts leaves behind.
LEMMA MigrationInvInit == MigrationInit => MigrationInv
<1> SUFFICES ASSUME MigrationInit PROVE MigrationInv
  OBVIOUS
<1>1. CoreInv
  BY InvInit, SavesOwn DEF MigrationInit
<1>2. OrdersArePriced /\ SameGoods
  BY DEF MigrationInit, Init, NoRow, OrdersArePriced, SameGoods, Holding
<1>3. CatalogInForm
  BY MigrationAssumption
     DEF MigrationInit, Init, CatalogInForm, Rewrite, Live, MigrationAssumption
<1> QED
  BY <1>1, <1>2, <1>3 DEF MigrationInv

\* The steps of the backend between two migrations.
LEMMA BackendKeeps ==
  MigrationInv /\ [Next]_vars /\ UNCHANGED applied => MigrationInv'
<1> SUFFICES ASSUME MigrationInv, [Next]_vars, UNCHANGED applied
             PROVE  MigrationInv'
  OBVIOUS
<1>1. CoreInv /\ SavesItsOwn /\ TypeOK /\ OrdersArePriced
  BY MigrationSavesOwn DEF MigrationInv, CoreInv
<1>2. CoreInv' /\ OrdersArePriced'
  BY <1>1, CoreStep, PricedStep
<1>3. CatalogInForm'
  BY CatalogStays DEF MigrationInv, CatalogInForm, Live
<1>4. ASSUME NEW r \in Pays, pay'[r].pc \in Holding
      PROVE  Rewrite(pay'[r].product, FixedId)
               = Rewrite(row'[pay'[r].txn].product, FixedId)
  <2>0. PayOK(r, pay[r])
    BY <1>1 DEF CoreInv, PaysOK
  <2>1. /\ pay[r].pc # "idle" /\ pay[r].txn \in Txns
        /\ row[pay[r].txn].status # "ABSENT"
        /\ Rewrite(pay'[r].product, FixedId)
             = Rewrite(row[pay[r].txn].product, FixedId)
    <3>1. CASE pay[r].pc \in Holding /\ pay'[r].product = pay[r].product
      BY <2>0, <3>1 DEF PayOK, MigrationInv, SameGoods, Holding
    <3>2. CASE /\ LoadTransaction(r) /\ row[pay[r].txn].status = "PENDING"
               /\ pay'[r].product = row[pay[r].txn].product
      BY <2>0, <3>2 DEF PayOK, LoadTransaction
    <3> QED
      BY <1>1, <1>4, <3>1, <3>2, HeldChanges
  <2> QED
    BY <1>1, <1>4, <2>1, HeldChanges, RowsKeepGoods
<1> QED
  BY <1>2, <1>3, <1>4 DEF MigrationInv, SameGoods

\* The tables after a rewrite: same units under the new ids.
LEMMA RewrittenTables ==
  ASSUME MigrationInv, NEW form \in {LegacyId, FixedId}, RewriteIds(form)
  PROVE  /\ \A p \in catalog : stock'[Rewrite(p, form)] = stock[p]
         /\ \A t \in Txns : /\ row'[t].status = row[t].status
                            /\ row'[t].qty = row[t].qty
                            /\ row'[t].product = Rewrite(row[t].product, form)
         /\ TypeOK'
<1>1. TypeOK
  BY DEF MigrationInv, CoreInv
<1>2. ASSUME NEW p \in catalog PROVE stock'[Rewrite(p, form)] = stock[p]
  <2> DEFINE o == CHOOSE q \in catalog : Rewrite(q, form) = Rewrite(p, form)
  <2>1. o \in catalog /\ Rewrite(o, form) = Rewrite(p, form)
    OBVIOUS
  <2>2. Rewrite(o, FixedId) = Rewrite(p, FixedId)
    BY <2>1, RewriteFacts
  <2>3. o = p
    <3> HIDE DEF o
    <3> QED
      BY <2>1, <2>2, OneForm DEF MigrationInv
  <2>4. stock'[Rewrite(p, form)] = stock[o]
    BY <1>1, RewriteFacts DEF RewriteIds, TypeOK
  <2> QED
    BY <2>3, <2>4
<1>3. ASSUME NEW t \in Txns
      PROVE  /\ row'[t].status = row[t].status /\ row'[t].qty = row[t].qty
             /\ row'[t].product = Rewrite(row[t].product, form)
             /\ row'[t] \in Row
  <2> DEFINE x == [row[t] EXCEPT !.product = Rewrite(@, form)]
  <2>1. row[t] \in Row /\ row'[t] = x
    BY <1>1 DEF RewriteIds, TypeOK
  <2>2. Rewrite(row[t].product, form) \in ProductIds \union {None}
    BY <2>1, RewriteFacts DEF Row
  <2>3. x.status = row[t].status /\ x.qty = row[t].qty
        /\ x.product = Rewrite(row[t].product, form) /\ x \in Row
    BY <2>1, <2>2 DEF Row
  <2> HIDE DEF x
  <2> QED
    BY <2>1, <2>3
<1>4. TypeOK'
  <2>1. row' \in [Txns -> Row]
    BY <1>3 DEF RewriteIds
  <2>2. stock' \in [ProductIds -> Nat]
    BY <1>1 DEF RewriteIds, TypeOK
  <2>3. deliveries' \subseteq Delivery /\ catalog' \subseteq ProductIds
    <3>1. ASSUME NEW d \in deliveries PROVE [d EXCEPT !.product = Rewrite(@, form)] \in Delivery
      <4>1. d \in Delivery /\ Rewrite(d.product, form) \in ProductIds
        BY <1>1, RewriteFacts DEF TypeOK, Delivery
      <4> QED
        BY <4>1 DEF Delivery
    <3>2. \A p \in catalog : Rewrite(p, form) \in ProductIds
      BY <1>1, RewriteFacts DEF TypeOK
    <3> QED
      BY <3>1, <3>2 DEF RewriteIds
  <2> QED
    BY <1>1, <2>1, <2>2, <2>3 DEF RewriteIds, TypeOK
<1> QED
  BY <1>2, <1>3, <1>4

\* The migration and its reversal (FixSeedProductIds1720000000004.rewriteIds).
LEMMA RewriteKeeps ==
  ASSUME MigrationInv, NEW form \in {LegacyId, FixedId}, RewriteIds(form),
         applied' = (form = FixedId)
  PROVE  MigrationInv'
<1>1. CoreInv /\ TypeOK /\ TypeOK'
  BY RewrittenTables DEF MigrationInv, CoreInv
<1>2. \A t \in Txns : /\ row'[t].status = row[t].status
                      /\ row'[t].qty = row[t].qty
                      /\ row'[t].product = Rewrite(row[t].product, form)
  BY RewrittenTables
<1>3. UNCHANGED <<create, pay, psp>>
  BY DEF RewriteIds
<1>4. \A e \in deliveries' : \E d \in deliveries :
        /\ e = [d EXCEPT !.product = Rewrite(@, form)]
        /\ e.id = d.id /\ e.txn = d.txn /\ e.qty = d.qty
        /\ e.product = Rewrite(d.product, form)
        /\ d.txn \in Txns
  BY <1>1 DEF RewriteIds, TypeOK, Delivery
<1>5. \A d \in deliveries : \E e \in deliveries' :
        /\ e.id = d.id /\ e.txn = d.txn /\ e.qty = d.qty
        /\ e.product = Rewrite(d.product, form)
  <2> TAKE d \in deliveries
  <2> DEFINE e == [d EXCEPT !.product = Rewrite(@, form)]
  <2>1. e \in deliveries'
    BY DEF RewriteIds
  <2>2. d \in Delivery
    BY <1>1 DEF TypeOK
  <2>3. /\ e.id = d.id /\ e.txn = d.txn /\ e.qty = d.qty
        /\ e.product = Rewrite(d.product, form)
    BY <2>2 DEF Delivery
  <2> HIDE DEF e
  <2> QED
    BY <2>1, <2>3
<1>6. CreatesOK'
  BY <1>1, <1>2, <1>3, RewriteFacts DEF CoreInv, CreatesOK
<1>7. PaysOK'
  <2> SUFFICES ASSUME NEW r \in Pays PROVE PayOK(r, pay[r])'
    BY DEF PaysOK
  <2>1. PayOK(r, pay[r])
    BY <1>1 DEF CoreInv, PaysOK
  <2>2. (\E d \in deliveries : d.id = r) <=> (\E e \in deliveries' : e.id = r)
    BY <1>4, <1>5
  <2> QED
    BY <1>2, <1>3, <2>1, <2>2 DEF PayOK, Holding
<1>8. DeliveriesMatchRows'
  BY <1>1, <1>2, <1>4 DEF CoreInv, DeliveriesMatchRows
<1>9. OneDeliveryPerTransaction'
  BY <1>1, <1>4 DEF CoreInv, OneDeliveryPerTransaction
<1>10. DeliveryIsPaid'
  BY <1>1, <1>3, <1>4 DEF CoreInv, DeliveryIsPaid
<1>11. ApprovedIsDelivered'
  BY <1>1, <1>2, <1>5 DEF CoreInv, ApprovedIsDelivered
<1>12. AlreadyProcessedIsSettled'
  <2> SUFFICES ASSUME NEW r \in Pays, pay[r].reply = "TRANSACTION_ALREADY_PROCESSED"
               PROVE  psp[r] = "none" /\ row'[pay[r].txn].status \in Finished
    BY <1>3 DEF AlreadyProcessedIsSettled
  <2>1. pay[r].txn \in Txns
    BY <1>1 DEF CoreInv, PaysOK, PayOK, Holding
  <2> QED
    BY <1>1, <1>2, <2>1 DEF CoreInv, AlreadyProcessedIsSettled
<1>13. OrdersArePriced'
  <2> SUFFICES ASSUME NEW t \in Txns, row'[t].status # "ABSENT"
               PROVE  /\ row'[t].product \in catalog'
                      /\ Price[row'[t].product] * row'[t].qty \in 1..MaxInt4
    BY DEF OrdersArePriced
  <2>1. /\ row[t].product \in catalog /\ row[t].product \in ProductIds
        /\ Price[row[t].product] * row[t].qty \in 1..MaxInt4
    BY <1>1, <1>2 DEF MigrationInv, OrdersArePriced, TypeOK
  <2>2. Price[row'[t].product] = Price[row[t].product]
    BY <1>2, <2>1, RewriteFacts
  <2> QED
    BY <1>2, <2>1, <2>2 DEF RewriteIds
<1>14. CatalogInForm'
  <2>1. Live' = form
    BY DEF Live
  <2>2. catalog' = {Rewrite(p, form) : p \in catalog}
    BY DEF RewriteIds
  <2>3. catalog = {Rewrite(p, Live) : p \in Catalog}
    BY DEF MigrationInv, CatalogInForm
  <2>4. \A p : Rewrite(Rewrite(p, Live), form) = Rewrite(p, form)
    BY RewriteFacts DEF Live
  <2>5. catalog' = {Rewrite(p, form) : p \in Catalog}
    BY <2>2, <2>3, <2>4
  <2> QED
    BY <2>1, <2>5 DEF CatalogInForm
<1>15. SameGoods'
  <2> SUFFICES ASSUME NEW r \in Pays, pay[r].pc \in Holding
               PROVE  Rewrite(pay[r].product, FixedId)
                        = Rewrite(row'[pay[r].txn].product, FixedId)
    BY <1>3 DEF SameGoods
  <2>1. pay[r].txn \in Txns
    BY <1>1 DEF CoreInv, PaysOK, PayOK, Holding
  <2> QED
    BY <1>2, <2>1, RewriteFacts DEF MigrationInv, SameGoods
<1> QED
  BY <1>1, <1>6, <1>7, <1>8, <1>9, <1>10, <1>11, <1>12, <1>13, <1>14, <1>15
     DEF MigrationInv, CoreInv

\* A step is the backend's, or a rewrite of all ids to one form.
LEMMA MigrationCases ==
  [MigrationNext]_migrationVars =>
    \/ [Next]_vars /\ UNCHANGED applied
    \/ \E form \in {LegacyId, FixedId} :
         RewriteIds(form) /\ applied' = (form = FixedId)
  BY RewriteFacts DEF MigrationNext, Up, Down, migrationVars

\* Every step keeps the invariant.
LEMMA MigrationInvStep ==
  MigrationInv /\ [MigrationNext]_migrationVars => MigrationInv'
  BY BackendKeeps, RewriteKeeps, MigrationCases

\* The invariant holds under any number of migrations and reversals, at whatever
\* moment of whatever requests they come (deploy.yml, FixSeedProductIds).
THEOREM MigrationInvariance == MigrationSpec => []MigrationInv
  BY MigrationInvInit, MigrationInvStep, PTL DEF MigrationSpec

--------------------------------------------------------------------------------
(* What follows from it                                                     *)

\* The foreign keys the migration drops and adds again hold after every step, also
\* for the rows that requests in flight write with an id they read before it.
THEOREM KeysHold == MigrationSpec => []ForeignKeysHold
<1>1. MigrationInv => ForeignKeysHold
  BY DEF MigrationInv, CoreInv, TypeOK, Delivery, OrdersArePriced,
         DeliveriesMatchRows, ForeignKeysHold
<1> QED
  BY MigrationInvariance, <1>1, PTL

\* A delivery and its order name one product by one id, whenever the migration and
\* its reversal come between the order, the charge and the delivery.
THEOREM DeliveriesMatchOrders == MigrationSpec => []DeliveryMatchesOrder
<1>1. MigrationInv => DeliveryMatchesOrder
  BY DEF MigrationInv, CoreInv, DeliveriesMatchRows, DeliveryMatchesOrder
<1> QED
  BY MigrationInvariance, <1>1, PTL

\* An order keeps a chargeable amount although its product is given another id
\* (both forms of the seeded id have one price).
THEOREM PricedThroughMigrations == MigrationSpec => []OrdersArePriced
<1>1. MigrationInv => OrdersArePriced
  BY DEF MigrationInv
<1> QED
  BY MigrationInvariance, <1>1, PTL

\* What the backend promises of a transaction it promises through migrations too.
Promises == /\ OneDeliveryPerTransaction /\ DeliveryIsPaid /\ ApprovedIsDelivered
            /\ RepliesAreHonest /\ AlreadyProcessedIsSettled

\* No order is shipped twice, unpaid, or approved without goods, and no client is
\* told otherwise, because ids were rewritten under its request.
THEOREM PromisesKept == MigrationSpec => []Promises
<1>1. MigrationInv => Promises
  BY DEF MigrationInv, CoreInv, PaysOK, PayOK, RepliesAreHonest, Promises
<1> QED
  BY MigrationInvariance, <1>1, PTL

\* Nor does a migration reopen a finished order.
LEMMA FinishedThroughMigration ==
  MigrationInv /\ [MigrationNext]_migrationVars =>
    \A t \in Txns : row[t].status \in Finished => row'[t].status \in Finished
<1> SUFFICES ASSUME MigrationInv, [MigrationNext]_migrationVars, NEW t \in Txns,
                    row[t].status \in Finished
             PROVE  row'[t].status \in Finished
  OBVIOUS
<1>1. CASE [Next]_vars
  BY <1>1, MigrationSavesOwn, FinishedStep DEF MigrationInv
<1>2. ASSUME NEW form \in {LegacyId, FixedId}, RewriteIds(form)
      PROVE  row'[t].status \in Finished
  BY <1>2, RewrittenTables
<1> QED
  BY <1>1, <1>2, MigrationCases

\* A transaction that is final stays final under the running backend and its
\* migrations (no UPDATE of rewriteIds touches a status).
THEOREM NotReopenedByMigration == MigrationSpec => NeverReopened
  BY MigrationInvariance, FinishedThroughMigration, PTL DEF MigrationSpec, NeverReopened

\* A migration does not touch a payment in memory; what a request reads after it may turn
\* it away earlier, but never leads it back.
LEMMA ForwardThroughMigration ==
  MigrationInv /\ MigrationInv' /\ PaysInTime /\ [MigrationNext]_migrationVars =>
    /\ PaysInTime'
    /\ \A r \in Pays : pay'[r] # pay[r] =>
         StepsLeft(pay'[r]) \in 0..(StepsLeft(pay[r]) - 1)
<1> SUFFICES ASSUME MigrationInv, MigrationInv', PaysInTime, [MigrationNext]_migrationVars
             PROVE  /\ PaysInTime'
                    /\ \A r \in Pays : pay'[r] # pay[r] =>
                         StepsLeft(pay'[r]) \in 0..(StepsLeft(pay[r]) - 1)
  OBVIOUS
<1>1. CASE [Next]_vars
  BY <1>1, InTimeStep DEF MigrationInv, CoreInv
<1>2. CASE UNCHANGED pay
  BY <1>2 DEF PaysInTime
<1> QED
  BY <1>1, <1>2, MigrationCases DEF RewriteIds

\* Each payment comes nearer to its end with every step that changes it, also when product
\* ids are rewritten between two of its steps (execute, FixSeedProductIds).
THEOREM PaymentsEndThroughMigrations == MigrationSpec => PaysGoForward
<1>1. MigrationInit => PaysInTime
  BY DEF MigrationInit, Init, PaysInTime, InTime
<1> QED
  BY <1>1, MigrationInvariance, ForwardThroughMigration, PTL
     DEF MigrationSpec, PaysGoForward

--------------------------------------------------------------------------------
(* The store under one id for each product                                  *)

\* The catalog and the goods are the same products, one to one.
LEMMA FormsMatch ==
  ASSUME CatalogInForm
  PROVE  /\ \A p \in Goods : /\ Rewrite(p, Live) \in catalog
                             /\ Rewrite(Rewrite(p, Live), FixedId) = p
         /\ \A q \in catalog : /\ Rewrite(q, FixedId) \in Goods
                               /\ Rewrite(Rewrite(q, FixedId), Live) = q
<1>1. Live \in {LegacyId, FixedId}
  BY DEF Live
<1>2. \A p, f, g : f \in {LegacyId, FixedId} /\ g \in {LegacyId, FixedId} =>
        Rewrite(Rewrite(p, f), g) = Rewrite(p, g)
  BY DEF Rewrite
<1>3. ASSUME NEW a \in Catalog
      PROVE  /\ Rewrite(a, FixedId) \in Goods /\ Rewrite(a, Live) \in catalog
             /\ Rewrite(Rewrite(a, FixedId), Live) = Rewrite(a, Live)
             /\ Rewrite(Rewrite(a, Live), FixedId) = Rewrite(a, FixedId)
  BY <1>1, <1>2 DEF Goods, CatalogInForm
<1>4. ASSUME NEW p \in Goods
      PROVE  Rewrite(p, Live) \in catalog /\ Rewrite(Rewrite(p, Live), FixedId) = p
  <2>1. PICK a \in Catalog : p = Rewrite(a, FixedId)
    BY DEF Goods
  <2> QED
    BY <1>3, <2>1
<1>5. ASSUME NEW q \in catalog
      PROVE  Rewrite(q, FixedId) \in Goods /\ Rewrite(Rewrite(q, FixedId), Live) = q
  <2>1. PICK a \in Catalog : q = Rewrite(a, Live)
    BY DEF CatalogInForm
  <2> QED
    BY <1>3, <2>1
<1> QED
  BY <1>4, <1>5

\* The freshly seeded store is the ledger's.
LEMMA FixedLedgerInitially == MigrationInit => FixedLedger!LedgerInit
<1> SUFFICES ASSUME MigrationInit PROVE FixedLedger!LedgerInit
  OBVIOUS
<1>1. Rewrite(None, FixedId) = None
  BY RewriteFacts
<1> QED
  BY <1>1 DEF MigrationInit, Init, Live, NoRow, FixedLedger!LedgerInit,
              FixedLedger!Unopened

\* A rewrite of ids moves nothing.
LEMMA RewriteMovesNothing ==
  ASSUME MigrationInv, NEW form \in {LegacyId, FixedId}, RewriteIds(form),
         applied' = (form = FixedId)
  PROVE  UNCHANGED FixedLedger!ledgerVars
<1>1. Live' = form
  BY DEF Live
<1>2. ASSUME NEW p \in Goods PROVE stock'[Rewrite(p, form)] = stock[Rewrite(p, Live)]
  <2>1. Rewrite(p, Live) \in catalog /\ Rewrite(Rewrite(p, Live), FixedId) = p
    BY FormsMatch DEF MigrationInv
  <2>2. Rewrite(Rewrite(p, Live), form) = Rewrite(p, form)
    BY RewriteFacts DEF Live
  <2> QED
    BY <2>1, <2>2, RewrittenTables
<1>3. ASSUME NEW t \in Txns
      PROVE  /\ row'[t].status = row[t].status /\ row'[t].qty = row[t].qty
             /\ Rewrite(row'[t].product, FixedId) = Rewrite(row[t].product, FixedId)
  BY RewrittenTables, RewriteFacts
<1>4. {d.txn : d \in deliveries'} = {d.txn : d \in deliveries}
  <2>1. \A d \in deliveries : [d EXCEPT !.product = Rewrite(@, form)].txn = d.txn
    BY DEF MigrationInv, CoreInv, TypeOK, Delivery
  <2> DEFINE new(d) == [d EXCEPT !.product = Rewrite(@, form)]
  <2>2. deliveries' = {new(d) : d \in deliveries} /\ \A d \in deliveries : new(d).txn = d.txn
    BY <2>1 DEF RewriteIds
  <2> HIDE DEF new
  <2> QED
    BY <2>2
<1> QED
  BY <1>1, <1>2, <1>3, <1>4 DEF FixedLedger!ledgerVars

\* What the backend does to the ledger under whichever ids, it does to the ledger
\* under the fixed ones.
LEMMA FixedLedgerStep ==
  ASSUME MigrationInv, MigrationInv', [Next]_vars, UNCHANGED applied
  PROVE  FixedLedger!LedgerNext \/ UNCHANGED FixedLedger!ledgerVars
<1> DEFINE fixed(t) == [status |-> row[t].status,
                        product |-> Rewrite(row[t].product, FixedId),
                        qty |-> row[t].qty]
           shelf    == [p \in Goods |-> stock[Rewrite(p, Live)]]
           shipped  == {d.txn : d \in deliveries}
           plain(t) == [status |-> row[t].status, product |-> row[t].product,
                        qty |-> row[t].qty]
<1>0. Live' = Live
  BY DEF Live
<1>1. CASE UNCHANGED Ledger!ledgerVars
  <2>1. ASSUME NEW t \in Txns PROVE fixed(t)' = fixed(t)
    <3>1. [o \in Txns |-> plain(o)]' = [o \in Txns |-> plain(o)]
      BY <1>1 DEF Ledger!ledgerVars
    <3>2. plain(t)' = plain(t)
      BY <3>1
    <3> QED
      BY <3>2
  <2> QED
    BY <1>0, <1>1, <2>1 DEF Ledger!ledgerVars, FixedLedger!ledgerVars
<1>2. ASSUME NEW t \in Txns, NEW p \in ProductIds, NEW q \in Quantities,
             Ledger!Open(t, p, q)
      PROVE  FixedLedger!Open(t, Rewrite(p, FixedId), q)
             /\ Rewrite(p, FixedId) \in Goods
  <2>1. [o \in Txns |-> plain(o)]'
          = [[o \in Txns |-> plain(o)] EXCEPT ![t] =
               [status |-> "PENDING", product |-> p, qty |-> q]]
    BY <1>2 DEF Ledger!Open
  <2>2. /\ plain(t)' = [status |-> "PENDING", product |-> p, qty |-> q]
        /\ \A o \in Txns \ {t} : plain(o)' = plain(o)
    BY <2>1
  <2>3. /\ fixed(t)' = [status |-> "PENDING", product |-> Rewrite(p, FixedId),
                        qty |-> q]
        /\ \A o \in Txns \ {t} : fixed(o)' = fixed(o)
    BY <2>2
  <2>4. [o \in Txns |-> fixed(o)]'
          = [[o \in Txns |-> fixed(o)] EXCEPT ![t] =
               [status |-> "PENDING", product |-> Rewrite(p, FixedId), qty |-> q]]
    <3> HIDE DEF fixed
    <3> QED
      BY <2>3
  <2>5. p \in catalog'
    BY <2>2 DEF MigrationInv, OrdersArePriced
  <2>6. Rewrite(p, FixedId) \in Goods
    BY <2>5, FormsMatch, CatalogStays DEF MigrationInv
  <2> QED
    BY <1>0, <1>2, <2>4, <2>6 DEF Ledger!Open, FixedLedger!Open
<1>3. ASSUME NEW t \in Txns, NEW s \in {"DECLINED", "ERROR"}, Ledger!Close(t, s)
      PROVE  FixedLedger!Close(t, s)
  <2>1. [o \in Txns |-> plain(o)]'
          = [[o \in Txns |-> plain(o)] EXCEPT ![t].status = s]
    BY <1>3 DEF Ledger!Close
  <2>2. /\ row'[t].status = s /\ row'[t].product = row[t].product
        /\ row'[t].qty = row[t].qty
        /\ \A o \in Txns \ {t} : /\ row'[o].status = row[o].status
                                 /\ row'[o].product = row[o].product
                                 /\ row'[o].qty = row[o].qty
    <3>1. /\ plain(t)' = [plain(t) EXCEPT !.status = s]
          /\ \A o \in Txns \ {t} : plain(o)' = plain(o)
      BY <2>1
    <3> QED
      BY <3>1
  <2>3. /\ fixed(t)' = [fixed(t) EXCEPT !.status = s]
        /\ \A o \in Txns \ {t} : fixed(o)' = fixed(o)
    BY <2>2
  <2>4. [o \in Txns |-> fixed(o)]'
          = [[o \in Txns |-> fixed(o)] EXCEPT ![t].status = s]
    <3> HIDE DEF fixed
    <3> QED
      BY <2>3
  <2> QED
    BY <1>0, <1>3, <2>4 DEF Ledger!Close, FixedLedger!Close
<1>4. ASSUME NEW t \in Txns, Ledger!Ship(t)
      PROVE  FixedLedger!Ship(t)
  <2> DEFINE p == row[t].product
             c == Rewrite(p, FixedId)
  <2>1. /\ plain(t).status # "ABSENT" /\ t \notin shipped
        /\ stock[plain(t).product] >= plain(t).qty
        /\ stock' = [stock EXCEPT ![plain(t).product] = @ - plain(t).qty]
        /\ [o \in Txns |-> plain(o)]'
             = [[o \in Txns |-> plain(o)] EXCEPT ![t].status = "APPROVED"]
        /\ shipped' = shipped \union {t}
    BY <1>4 DEF Ledger!Ship
  <2>2. /\ row'[t].status = "APPROVED" /\ row'[t].product = row[t].product
        /\ row'[t].qty = row[t].qty
        /\ \A o \in Txns \ {t} : /\ row'[o].status = row[o].status
                                 /\ row'[o].product = row[o].product
                                 /\ row'[o].qty = row[o].qty
    <3>1. /\ plain(t)' = [plain(t) EXCEPT !.status = "APPROVED"]
          /\ \A o \in Txns \ {t} : plain(o)' = plain(o)
      BY <2>1
    <3> QED
      BY <3>1
  <2>3. /\ fixed(t)' = [fixed(t) EXCEPT !.status = "APPROVED"]
        /\ \A o \in Txns \ {t} : fixed(o)' = fixed(o)
    BY <2>2
  <2>4. [o \in Txns |-> fixed(o)]'
          = [[o \in Txns |-> fixed(o)] EXCEPT ![t].status = "APPROVED"]
    <3> HIDE DEF fixed
    <3> QED
      BY <2>3
  <2>5. p \in catalog
    BY <2>1 DEF MigrationInv, OrdersArePriced
  <2>6. c \in Goods /\ Rewrite(c, Live) = p
        /\ \A g \in Goods : g # c => Rewrite(g, Live) # p
    BY <2>5, FormsMatch DEF MigrationInv
  <2>7. stock \in [ProductIds -> Nat] /\ p \in ProductIds
        /\ \A g \in Goods : Rewrite(g, Live) \in ProductIds
    BY <2>5, FormsMatch DEF MigrationInv, CoreInv, TypeOK
  <2>8. shelf[c] = stock[p] /\ shelf' = [shelf EXCEPT ![c] = @ - row[t].qty]
    <3>1. \A g \in Goods : stock'[Rewrite(g, Live)]
            = IF g = c THEN stock[p] - row[t].qty ELSE stock[Rewrite(g, Live)]
      BY <2>1, <2>6, <2>7
    <3> HIDE DEF c, p
    <3> QED
      BY <1>0, <2>6, <3>1
  <2> QED
    BY <2>1, <2>4, <2>6, <2>8 DEF FixedLedger!Ship
<1>5. Ledger!LedgerNext \/ UNCHANGED Ledger!ledgerVars
  BY LedgerStep, MigrationSavesOwn DEF MigrationInv
<1> QED
  BY <1>1, <1>2, <1>3, <1>4, <1>5 DEF Ledger!LedgerNext, FixedLedger!LedgerNext

\* To a bookkeeper who knows each product by its fixed id, the backend with its
\* migrations is the ledger: an order charged under one id and settled under the
\* other still moves exactly its own goods.
THEOREM MigrationRefinesLedger == MigrationSpec => MigrationKeepsLedger
<1>1. MigrationInv /\ MigrationInv' /\ [MigrationNext]_migrationVars
        => [FixedLedger!LedgerNext]_(FixedLedger!ledgerVars)
  <2> SUFFICES ASSUME MigrationInv, MigrationInv', [MigrationNext]_migrationVars
               PROVE  FixedLedger!LedgerNext \/ UNCHANGED FixedLedger!ledgerVars
    OBVIOUS
  <2>1. CASE [Next]_vars /\ UNCHANGED applied
    BY <2>1, FixedLedgerStep
  <2>2. ASSUME NEW form \in {LegacyId, FixedId}, RewriteIds(form),
               applied' = (form = FixedId)
        PROVE  UNCHANGED FixedLedger!ledgerVars
    BY <2>2, RewriteMovesNothing
  <2> QED
    BY <2>1, <2>2, MigrationCases
<1> QED
  BY <1>1, MigrationInvariance, FixedLedgerInitially, PTL
     DEF MigrationSpec, MigrationKeepsLedger, FixedLedger!LedgerSpec

--------------------------------------------------------------------------------
(* Conservation through migrations                                          *)

\* Deliveries replaced one by one by others of the same quantity take as much.
LEMMA UnitsRenamed ==
  ASSUME NEW S, IsFiniteSet(S), Counted(S), NEW f,
         \A d \in S : f[d].qty = d.qty,
         \A d, e \in S : f[d] = f[e] => d = e
  PROVE  Units({f[d] : d \in S}) = Units(S)
<1> DEFINE Image(T) == {f[d] : d \in T}
           G == {T \in SUBSET S : Units(Image(T)) = Units(T)}
<1>1. ASSUME NEW T \in SUBSET S PROVE IsFiniteSet(T) /\ Counted(T)
                                      /\ IsFiniteSet(Image(T)) /\ Counted(Image(T))
  <2>1. IsFiniteSet(T) /\ Counted(T)
    BY FS_Subset DEF Counted
  <2>2. IsFiniteSet(Image(T))
    <3> DEFINE g == [d \in T |-> f[d]]
    <3>1. g \in Surjection(T, Image(T))
      BY DEF Surjection
    <3> HIDE DEF g
    <3> QED
      BY <2>1, <3>1, FS_Surjection
  <2>3. Counted(Image(T))
    BY <2>1 DEF Counted
  <2> QED
    BY <2>1, <2>2, <2>3
<1>2. ASSUME NEW T \in SUBSET S, \A x \in T : T \ {x} \in G PROVE T \in G
  <2>1. CASE T = {}
    BY <2>1
  <2>2. CASE T # {}
    <3>1. PICK y \in T : TRUE
      BY <2>2
    <3>2. Image(T) \ {f[y]} = Image(T \ {y}) /\ f[y] \in Image(T)
      BY <3>1
    <3>3. Units(T) = y.qty + Units(T \ {y})
      BY <1>1, <3>1, UnitsOfAny
    <3>4. Units(Image(T)) = f[y].qty + Units(Image(T) \ {f[y]})
      <4> HIDE DEF Image
      <4> QED
        BY <1>1, <3>2, UnitsOfAny
    <3>5. Units(Image(T \ {y})) = Units(T \ {y})
      BY <1>2, <3>1
    <3>6. f[y].qty = y.qty
      BY <3>1
    <3>7. Units(Image(T)) = Units(T)
      <4> HIDE DEF Image
      <4> QED
        BY <3>2, <3>3, <3>4, <3>5, <3>6
    <3> QED
      BY <3>7
  <2> QED
    BY <2>1, <2>2
<1>3. SUBSET S \subseteq G
  <2> HIDE DEF G
  <2> QED
    BY <1>2, SubsetInduction
<1> QED
  BY <1>3

\* The deliveries of a product under either id.
DeliveriesOf(p) == {d \in deliveries : Rewrite(d.product, FixedId) = p}

\* The goods are conserved while the deliveries are finitely many.
FixedConserved == IsFiniteSet(deliveries) /\ GoodsConserved

\* A rewrite of ids leaves every product its units and its deliveries theirs.
LEMMA RewriteConserves ==
  ASSUME MigrationInv, FixedConserved, NEW form \in {LegacyId, FixedId},
         RewriteIds(form), applied' = (form = FixedId)
  PROVE  FixedConserved'
<1> DEFINE f == [d \in deliveries |-> [d EXCEPT !.product = Rewrite(@, form)]]
<1>1. ASSUME NEW d \in deliveries
      PROVE  /\ d \in Delivery
             /\ f[d].txn = d.txn /\ f[d].qty = d.qty
             /\ Rewrite(f[d].product, FixedId) = Rewrite(d.product, FixedId)
  <2>1. d \in Delivery
    BY DEF MigrationInv, CoreInv, TypeOK
  <2>2. f[d].product = Rewrite(d.product, form)
    BY <2>1 DEF Delivery
  <2> QED
    BY <2>1, <2>2, RewriteFacts DEF Delivery
<1>2. deliveries' = {f[d] : d \in deliveries}
  BY DEF RewriteIds
<1>3. \A d, e \in deliveries : f[d] = f[e] => d = e
  <2> HIDE DEF f
  <2> QED
    BY <1>1 DEF MigrationInv, CoreInv, OneDeliveryPerTransaction
<1> HIDE DEF f
<1>4. IsFiniteSet(deliveries')
  <2>1. [d \in deliveries |-> f[d]] \in Surjection(deliveries, deliveries')
    BY <1>2 DEF Surjection
  <2> QED
    BY <2>1, FS_Surjection DEF FixedConserved
<1>5. ASSUME NEW p \in Goods PROVE Units(DeliveriesOf(p)') = Units(DeliveriesOf(p))
  <2>1. DeliveriesOf(p)' = {f[d] : d \in DeliveriesOf(p)}
    BY <1>1, <1>2 DEF DeliveriesOf
  <2>2. IsFiniteSet(DeliveriesOf(p)) /\ Counted(DeliveriesOf(p))
    BY <1>1, FS_Subset DEF FixedConserved, DeliveriesOf, Counted, Delivery
  <2>3. /\ \A d \in DeliveriesOf(p) : f[d].qty = d.qty
        /\ \A d, e \in DeliveriesOf(p) : f[d] = f[e] => d = e
    BY <1>1, <1>3 DEF DeliveriesOf
  <2>4. Units({f[d] : d \in DeliveriesOf(p)}) = Units(DeliveriesOf(p))
    BY <2>2, <2>3, UnitsRenamed
  <2> QED
    BY <2>1, <2>4
<1>6. ASSUME NEW p \in Goods
      PROVE  stock'[Rewrite(p, Live')] = stock[Rewrite(p, Live)]
  <2>1. Live' = form
    BY DEF Live
  <2>2. Rewrite(p, Live) \in catalog
    BY FormsMatch DEF MigrationInv
  <2>3. Rewrite(Rewrite(p, Live), form) = Rewrite(p, form)
    BY RewriteFacts DEF Live
  <2> QED
    BY <2>1, <2>2, <2>3, RewrittenTables
<1> QED
  BY <1>4, <1>5, <1>6 DEF FixedConserved, GoodsConserved, DeliveriesOf

\* A delivery takes from the shelf, under the live id, what it adds to the sum.
LEMMA BackendConserves ==
  ASSUME MigrationInv, MigrationInv', FixedConserved, [Next]_vars, UNCHANGED applied
  PROVE  FixedConserved'
<1>0. Live' = Live
  BY DEF Live
<1>1. CASE stock' = stock /\ deliveries' = deliveries
  BY <1>0, <1>1 DEF FixedConserved, GoodsConserved
<1>2. CASE stock' # stock \/ deliveries' # deliveries
  <2>1. PICK d \in deliveries' :
          /\ d \notin deliveries /\ deliveries' = deliveries \union {d}
          /\ stock' = [stock EXCEPT ![d.product] = @ - d.qty]
          /\ row'[d.txn].status = "APPROVED"
    BY <1>2, GoodsStep, MigrationSavesOwn DEF MigrationInv, GoodsMoveTogether, vars
  <2>2. d.product \in catalog /\ d.product \in ProductIds /\ d.qty \in Nat
    <3>1. d \in Delivery /\ d.product = row'[d.txn].product
      BY <2>1 DEF MigrationInv, CoreInv, TypeOK, DeliveriesMatchRows
    <3>2. d.product \in catalog'
      BY <2>1, <3>1 DEF MigrationInv, OrdersArePriced, Delivery
    <3> QED
      BY <3>1, <3>2, CatalogStays DEF Delivery
  <2>3. IsFiniteSet(deliveries')
    BY <2>1, FS_AddElement DEF FixedConserved
  <2>4. stock \in [ProductIds -> Nat]
    BY DEF MigrationInv, CoreInv, TypeOK
  <2>5. ASSUME NEW p \in Goods
        PROVE  stock'[Rewrite(p, Live)] + Units(DeliveriesOf(p)')
                 = InitialStock[Rewrite(p, LegacyId)]
    <3>1. IsFiniteSet(DeliveriesOf(p)) /\ Counted(DeliveriesOf(p))
      BY FS_Subset DEF FixedConserved, DeliveriesOf, Counted, MigrationInv, CoreInv,
         TypeOK, Delivery
    <3>2. stock[Rewrite(p, Live)] + Units(DeliveriesOf(p))
            = InitialStock[Rewrite(p, LegacyId)]
      BY DEF FixedConserved, GoodsConserved, DeliveriesOf
    <3>3. Rewrite(p, Live) \in ProductIds
      BY FormsMatch DEF MigrationInv, CoreInv, TypeOK
    <3>4. Rewrite(p, Live) = d.product <=> Rewrite(d.product, FixedId) = p
      BY <2>2, FormsMatch DEF MigrationInv
    <3>5. CASE Rewrite(d.product, FixedId) = p
      <4>1. DeliveriesOf(p)' = DeliveriesOf(p) \union {d}
        BY <2>1, <3>5 DEF DeliveriesOf
      <4>2. /\ Units(DeliveriesOf(p) \union {d}) = Units(DeliveriesOf(p)) + d.qty
            /\ Units(DeliveriesOf(p)) \in Nat
        BY <2>1, <2>2, <3>1, UnitsAdded DEF DeliveriesOf
      <4>3. stock'[Rewrite(p, Live)] = stock[Rewrite(p, Live)] - d.qty
        BY <2>1, <2>2, <2>4, <3>4, <3>5
      <4> DEFINE q == d.qty
                 n == Units(DeliveriesOf(p))
                 m == stock[Rewrite(p, Live)]
      <4>4. q \in Nat /\ n \in Nat /\ m \in Nat
        BY <2>2, <2>4, <3>3, <4>2
      <4>5. /\ stock'[Rewrite(p, Live)] = m - q
            /\ m + n = InitialStock[Rewrite(p, LegacyId)]
            /\ Units(DeliveriesOf(p)') = n + q
        BY <3>2, <4>1, <4>2, <4>3
      <4> HIDE DEF q, n, m
      <4>6. (m - q) + (n + q) = m + n
        BY <4>4
      <4> QED
        BY <4>5, <4>6
    <3>6. CASE Rewrite(d.product, FixedId) # p
      <4>1. DeliveriesOf(p)' = DeliveriesOf(p)
        BY <2>1, <3>6 DEF DeliveriesOf
      <4>2. stock'[Rewrite(p, Live)] = stock[Rewrite(p, Live)]
        BY <2>1, <2>4, <3>3, <3>4, <3>6
      <4> QED
        BY <3>2, <4>1, <4>2
    <3> QED
      BY <3>5, <3>6
  <2> QED
    BY <1>0, <2>3, <2>5 DEF FixedConserved, GoodsConserved, DeliveriesOf
<1> QED
  BY <1>1, <1>2

\* No unit appears or vanishes because a product's id is rewritten while charges
\* for it are under way: the units left and those delivered under either id add up
\* to the units seeded (rewriteIds and saveApprovedPayment).
THEOREM ConservedThroughMigrations == MigrationSpec => []GoodsConserved
<1>1. MigrationInit => FixedConserved
  <2> SUFFICES ASSUME MigrationInit PROVE FixedConserved
    OBVIOUS
  <2>1. Units({}) = 0 /\ IsFiniteSet({})
    BY FS_EmptySet, UnitsOfChosen
  <2>2. deliveries = {} /\ stock = InitialStock /\ Live = LegacyId
    BY DEF MigrationInit, Init, Live
  <2>3. ASSUME NEW p \in Goods
        PROVE  /\ Rewrite(p, LegacyId) \in ProductIds
               /\ {d \in deliveries : Rewrite(d.product, FixedId) = p} = {}
    <3>1. Rewrite(p, LegacyId) \in catalog /\ catalog \subseteq ProductIds
      BY <2>2, MigrationInvInit, FormsMatch DEF MigrationInv, CoreInv, TypeOK
    <3> QED
      BY <2>2, <3>1
  <2>4. \A p \in Goods : InitialStock[Rewrite(p, LegacyId)] + 0
                           = InitialStock[Rewrite(p, LegacyId)]
    BY <2>3, BackendAssumption DEF BackendAssumption
  <2> QED
    BY <2>1, <2>2, <2>3, <2>4 DEF FixedConserved, GoodsConserved
<1>2. MigrationInv /\ MigrationInv' /\ FixedConserved /\ [MigrationNext]_migrationVars
        => FixedConserved'
  BY BackendConserves, RewriteConserves, MigrationCases
<1>3. FixedConserved => GoodsConserved
  BY DEF FixedConserved
<1> QED
  BY <1>1, <1>2, <1>3, MigrationInvariance, PTL DEF MigrationSpec
================================================================================
