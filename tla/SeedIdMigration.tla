---------------------------- MODULE SeedIdMigration ----------------------------
(***************************************************************************)
(* The migration FixSeedProductIds (up and down) against the running        *)
(* backend: deploy.yml applies migrations while the old container still     *)
(* serves.  TypeORM runs a migration in one database transaction, and its   *)
(* ALTER TABLEs lock the tables, so it is one step; a request in flight     *)
(* keeps the product id it read before.                                     *)
(***************************************************************************)
EXTENDS PaymentBackend

CONSTANTS LegacyId,   \* a seeded id as SeedProducts wrote it; not RFC 4122
          FixedId     \* the same id with version and variant nibbles

\* SeedProducts, which runs before it, has written the legacy id and no other form.
ASSUME MigrationAssumption ==
  /\ {LegacyId, FixedId} \subseteq ProductIds
  /\ LegacyId \in Catalog /\ FixedId \notin Catalog
  /\ LegacyId \notin ValidIds
  /\ Price[LegacyId] = Price[FixedId]

VARIABLE applied      \* is the migration in TypeORM's migrations table?

migrationVars == <<vars, applied>>

\* The overlay of the two nibbles, on ids LIKE 'a1b2c3d4-%' in either form.
Rewrite(p, form) == IF p \in {LegacyId, FixedId} THEN form ELSE p

\* Mutant: the list of tables to rewrite has no "deliveries".
RewriteIdsNotDeliveries(form) ==
  /\ catalog' = {Rewrite(p, form) : p \in catalog}
  /\ stock' = [p \in ProductIds |->
                 IF \E o \in catalog : Rewrite(o, form) = p
                 THEN stock[CHOOSE o \in catalog : Rewrite(o, form) = p]
                 ELSE 0]
  /\ row' = [t \in Txns |-> [row[t] EXCEPT !.product = Rewrite(@, form)]]
  /\ UNCHANGED <<deliveries, create, pay, psp>>

RewriteIds(form) ==
  /\ catalog' = {Rewrite(p, form) : p \in catalog}
  /\ stock' = [p \in ProductIds |->
                 IF \E o \in catalog : Rewrite(o, form) = p
                 THEN stock[CHOOSE o \in catalog : Rewrite(o, form) = p]
                 ELSE 0]
  /\ row' = [t \in Txns |-> [row[t] EXCEPT !.product = Rewrite(@, form)]]
  /\ deliveries' = {[d EXCEPT !.product = Rewrite(@, form)] : d \in deliveries}
  /\ UNCHANGED <<create, pay, psp>>

Up   == ~ applied /\ applied' = TRUE /\ RewriteIds(FixedId)
Down == applied /\ applied' = FALSE /\ RewriteIds(LegacyId)

MigrationInit == Init /\ applied = FALSE

MigrationNext == Up \/ Down \/ (Next /\ UNCHANGED applied)

MigrationSpec == MigrationInit /\ [][MigrationNext]_migrationVars

\* Nobody has to migrate; the backend's own steps go on as in PaymentBackend.
FairMigrationSpec == MigrationSpec /\ Fairness

\* The foreign keys dropped and added again hold after every step, although
\* requests in flight write rows with the product id they read before it.
ForeignKeysHold ==
  /\ \A t \in Txns : row[t].status # "ABSENT" => row[t].product \in catalog
  /\ \A d \in deliveries : d.product \in catalog /\ row[d.txn].status # "ABSENT"

\* A delivery names the product its transaction names, under whichever id the
\* product has by now.
DeliveryMatchesOrder ==
  \A d \in deliveries : d.product = row[d.txn].product /\ d.qty = row[d.txn].qty
--------------------------------------------------------------------------------
(* The same store under one id for each product                             *)

\* The form the seeded id has by now, and the products under the fixed ids.
Live  == IF applied THEN FixedId ELSE LegacyId
Goods == {Rewrite(p, FixedId) : p \in Catalog}

\* For a bookkeeper who knows every product by its fixed id, the backend keeps the
\* promise of PaymentLedger through the migration and its reversal, which to him
\* are no steps at all.
FixedLedger == INSTANCE PaymentLedger WITH
  ProductIds   <- Goods,
  InitialStock <- [p \in Goods |-> InitialStock[Rewrite(p, LegacyId)]],
  shelf   <- [p \in Goods |-> stock[Rewrite(p, Live)]],
  order   <- [t \in Txns |-> [status  |-> row[t].status,
                              product |-> Rewrite(row[t].product, FixedId),
                              qty     |-> row[t].qty]],
  shipped <- {d.txn : d \in deliveries}

MigrationKeepsLedger == FixedLedger!LedgerSpec

\* No unit appears or vanishes with an id: what a product has left and what was
\* delivered of it under either id is what the store began with.
GoodsConserved ==
  \A p \in Goods :
    stock[Rewrite(p, Live)]
      + Units({d \in deliveries : Rewrite(d.product, FixedId) = p})
    = InitialStock[Rewrite(p, LegacyId)]
--------------------------------------------------------------------------------
(* Why the invariants above are inductive                                   *)

\* The catalog is the seeded one with every id in the live form.
CatalogInForm == catalog = {Rewrite(p, Live) : p \in Catalog}

\* A pay request holds the product of its row, under one form of its id or the
\* other; so if the store still has what it holds, that is the row's very id.
SameGoods == \A r \in Pays : pay[r].pc \in Holding =>
  Rewrite(pay[r].product, FixedId) = Rewrite(row[pay[r].txn].product, FixedId)

MigrationInv == /\ CoreInv
                /\ OrdersArePriced
                /\ CatalogInForm
                /\ SameGoods
================================================================================
