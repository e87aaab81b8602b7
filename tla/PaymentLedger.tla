----------------------------- MODULE PaymentLedger -----------------------------
(***************************************************************************)
(* What the store's backend promises about money, goods and paperwork,      *)
(* without the requests, the payment provider or the crashes that get it    *)
(* there: opening an order takes nothing from the shelf; shipping takes the *)
(* goods, books the delivery and approves the order in ONE step, at most    *)
(* once per order; closing an order as DECLINED or ERROR moves no goods.    *)
(*                                                                          *)
(* The steps the three database writes of the backend implement:            *)
(* TypeOrmTransactionRepository.save (Open, Close) and                      *)
(* TypeOrmPaymentUnitOfWork.saveApprovedPayment (Ship).  PaymentBackend     *)
(* refines this module.                                                     *)
(***************************************************************************)
EXTENDS Naturals

CONSTANTS ProductIds,     \* every product id
          Txns,           \* every transaction id
          Quantities,     \* the quantities an order may ask for
          InitialStock,   \* [ProductIds -> Nat]
          None            \* "no product": an order nobody opened

VARIABLES shelf,          \* units left of each product
          order,          \* [Txns -> the order's status, product and quantity]
          shipped         \* the orders with a delivery

ledgerVars == <<shelf, order, shipped>>

Unopened == [status |-> "ABSENT", product |-> None, qty |-> 0]

LedgerInit ==
  /\ shelf = InitialStock
  /\ order = [t \in Txns |-> Unopened]
  /\ shipped = {}

\* A new order, in state PENDING; stock is not reserved.
Open(t, p, q) ==
  /\ order[t].status = "ABSENT"
  /\ order' = [order EXCEPT ![t] =
                 [status |-> "PENDING", product |-> p, qty |-> q]]
  /\ UNCHANGED <<shelf, shipped>>

\* The order leaves the shelf, once, and only if the shelf holds it.
Ship(t) ==
  LET p == order[t].product IN
  /\ order[t].status # "ABSENT"
  /\ t \notin shipped
  /\ shelf[p] >= order[t].qty
  /\ shelf' = [shelf EXCEPT ![p] = @ - order[t].qty]
  /\ order' = [order EXCEPT ![t].status = "APPROVED"]
  /\ shipped' = shipped \union {t}

\* The payment failed: the order is closed and nothing else moves.
Close(t, s) ==
  /\ order[t].status # "ABSENT"
  /\ order' = [order EXCEPT ![t].status = s]
  /\ UNCHANGED <<shelf, shipped>>

LedgerNext ==
  \E t \in Txns :
    \/ \E p \in ProductIds, q \in Quantities : Open(t, p, q)
    \/ Ship(t)
    \/ \E s \in {"DECLINED", "ERROR"} : Close(t, s)

LedgerSpec == LedgerInit /\ [][LedgerNext]_ledgerVars
--------------------------------------------------------------------------------
(* What a bookkeeper may rely on, given nothing but the promise             *)

\* An order that is APPROVED has been shipped.  Not the converse: a second
\* payment of the order may close it afterwards.
ApprovedWasShipped ==
  \A t \in Txns : order[t].status = "APPROVED" => t \in shipped
================================================================================
