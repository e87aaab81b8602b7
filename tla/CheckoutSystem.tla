----------------------------- MODULE CheckoutSystem -----------------------------
(***************************************************************************)
(* One customer's app (CheckoutApp) and the backend (PaymentBackend) that   *)
(* serves it.  The app's calls are the backend's requests: the create and   *)
(* the pay request of a payment view have the view's name, and reach the    *)
(* backend, if ever, some time after they were sent.  What the backend      *)
(* answers reaches the app later still, or not at all.                      *)
(*                                                                          *)
(* The module adds the two requests that only read: the product list and    *)
(* GET /transactions/:id.                                                   *)
(***************************************************************************)
EXTENDS PaymentBackendSerial, Sequences

CONSTANTS Launches, NavigatePops, MaxStack, MaxFetches  \* as in CheckoutApp

\* The seeded catalog has UUIDs (FixSeedProductIds has run), so the DTO of POST
\* /transactions takes the id of any product the list can show.
ASSUME SystemAssumption == Pays = Txns /\ Catalog \subseteq ValidIds

VARIABLES stack, products, cart, step, card, current, history, disk, host, call,
          launched,  \* the app's, as in CheckoutApp
          ask,       \* the status each status request has read
          patient    \* is the app's timer set to outlive the backend's answers?

theApp == <<stack, products, cart, step, card, current, history, disk, host, call,
            launched>>
systemVars == <<vars, theApp, ask, patient>>

\* What the backend has done of the present call of caller c.
WorkOn(c) ==
  CASE call[c].kind = "none"   -> "none"
    [] call[c].kind = "create" ->
         IF create[c].reply = "CREATED" THEN "created" ELSE "sent"
    [] call[c].kind = "pay" ->
         IF pay[c].reply = "TRANSACTION_ALREADY_PROCESSED" THEN "processed"
         ELSE IF pay[c].reply \in Finished THEN pay[c].reply
         ELSE IF pay[c].product # None THEN "accepted" ELSE "sent"
    [] call[c].kind = "status" -> IF ask[c] = "none" THEN "sent" ELSE ask[c]

\* The orders and the service's work on each call, as the app sees them.
theOrders == [t \in Txns |-> [status |-> row[t].status, product |-> row[t].product,
                              qty |-> row[t].qty]]
theWork   == [c \in Txns \union Launches |-> WorkOn(c)]

App == INSTANCE CheckoutApp WITH
  Products <- Catalog, Views <- Txns, order <- theOrders, work <- theWork

ASSUME PhoneAssumption == App!AppAssumption

SystemInit ==
  /\ Init
  /\ stack = <<"Splash">> /\ products = App!NoProducts
  /\ cart = App!EmptyCart /\ step = "idle" /\ card = FALSE
  /\ current = None /\ history = << >> /\ disk = App!Snapshot
  /\ host = [t \in Txns |-> 0]
  /\ call = [c \in App!Callers |-> App!NoCall]
  /\ launched = {}
  /\ ask = [c \in App!Callers |-> "none"]
  /\ patient \in BOOLEAN
--------------------------------------------------------------------------------
(* The backend's part                                                       *)

\* ListProductsUseCase: what has stock.  The list may have been read a while
\* before it arrives, and stock only falls.
Available == {p \in catalog : stock[p] > 0}
ListArrives ==
  \E found \in SUBSET catalog : Available \subseteq found /\ App!ListAnswered(found)

\* GetTransactionStatusUseCase.
StatusRead(c) ==
  /\ App!Waiting(c, "status") /\ ask[c] = "none"
  /\ ask' = [ask EXCEPT ![c] = row[call[c].txn].status]
  /\ UNCHANGED <<vars, theApp>>

Arrives(t) ==
  \/ call[t].kind = "create" /\ CreateFindProduct(t, call[t].product, call[t].qty)
  \/ call[t].kind = "pay" /\ PayArrives(t, call[t].txn)

Served ==
  \/ \E t \in Txns : Arrives(t) \/ CreateStep(t) \/ PayStep(t)
  \/ \E t \in Txns : PspAccept(t) \/ PspDecide(t)
--------------------------------------------------------------------------------
(* The app's part                                                           *)

\* An answer is there to arrive once the backend has sent it.
AnswerArrives(c) ==
  \/ c \in Txns /\ create[c].pc = "done" /\ App!CreateAnswered(c)
  \/ c \in Txns /\ pay[c].pc = "done" /\ (App!PayAnswered(c) \/ App!PayTurnedAway(c))
  \/ App!StatusAnswered(c)

\* Mutant: the timer of the other requests, long over before a payment is.
AnsweredOrLate(c) == TRUE

\* The backend has answered the call, or has lost it in a restart.
Answered(c) ==
  CASE call[c].kind = "create" -> create[c].pc \in {"done", "dropped"}
    [] call[c].kind = "pay"    -> pay[c].pc \in {"done", "dropped"}
    [] OTHER                   -> TRUE

\* A patient app fails a call only when there is no answer left to wait for:
\* PAY_REQUEST_TIMEOUT_MS as it is meant.
Fails(c) == (patient => Answered(c)) /\ App!CallFails(c)

\* Nor is it killed with a request in flight.
Relaunches(l) == ~ patient /\ App!Relaunch(l)

Used ==
  \/ App!Screens \/ App!Sheet \/ App!Persist \/ ListArrives
  \/ \E c \in App!Callers : AnswerArrives(c) \/ Fails(c)
  \/ \E l \in Launches : Relaunches(l)

SystemNext ==
  /\ UNCHANGED patient
  /\ \/ UNCHANGED <<vars, ask>> /\ Used
     \/ UNCHANGED <<theApp, ask>> /\ (Served \/ Restart)
     \/ \E c \in App!Callers : StatusRead(c)

SystemSpec == SystemInit /\ [][SystemNext]_systemVars
--------------------------------------------------------------------------------
(* Properties                                                               *)

\* The backend is a service as CheckoutApp assumes it: every step of the whole
\* is a step of the app, of its abstract service, or neither's.
BackendServesApp == App!Spec

\* A receipt that says APPROVED is of goods that are on their way: the store has
\* a delivery for that order, of the product and quantity on the receipt.
ApprovedReceiptIsShipped ==
  \A r \in App!Records : r.status = "APPROVED" =>
    \E d \in deliveries : d.txn = r.id /\
      (App!NamesProduct(r) => d.product = r.product /\ d.qty = r.qty)

\* Nothing is shipped behind the customer's back: each delivery is of an order
\* the phone knows, though answers were lost and payments tried again (a kill may
\* take the record with it that was not written to disk yet).
DeliveryIsKnown ==
  launched = {} => \A d \in deliveries : \E r \in App!Records : r.id = d.txn

\* A patient app is a client as PaymentBackendSerial wants them: it never pays an
\* order while the backend is still at an earlier payment of it.
PatientIsSerial == [][patient => SerialNext]_vars

\* And it is charged twice for an order only when the first payment, approved by
\* the PSP, could not be booked or was lost in a restart: any other retry finds the
\* order settled, is turned away, and asks for the outcome.
PatientChargedOnce ==
  \A r, o \in Pays :
    /\ patient /\ psp[r] = "APPROVED" /\ psp[o] = "APPROVED" /\ pay[r].txn = pay[o].txn
    => r = o \/ Unbooked(r) \/ Unbooked(o)
--------------------------------------------------------------------------------
(* Why the whole is what its parts promise                                  *)

\* A create request is under way for a create call alone, for its product and
\* quantity, and has answered nothing before it is done.
CreateLinked(t) ==
  /\ call[t].kind = "none" => create[t].pc = "idle"
  /\ create[t].pc \in {"idle", "save"} => create[t].reply = "none"
  /\ create[t].pc = "save" =>
       /\ call[t].kind = "create"
       /\ create[t].product = call[t].product /\ create[t].qty = call[t].qty

\* A pay request arrives for a pay call, is for its order, and has been answered
\* before the caller goes on to ask for the status.
PayLinked(t) ==
  /\ call[t].kind \in {"none", "create"} => pay[t].pc = "idle"
  /\ pay[t].pc # "idle" => pay[t].txn = call[t].txn
  /\ PayLive(t) => call[t].kind = "pay"
  /\ pay[t].pc \in {"idle", "load"} => pay[t].product = None
  /\ pay[t].pc = "saved" => pay[t].reply \in Finished

\* A launch asks for a status, once it has happened; a status request reads once,
\* and what it reads APPROVED has been shipped.
AskLinked(c) ==
  /\ c \in Launches => call[c].kind \in {"none", "status"}
  /\ c \in Launches \ launched => call[c].kind = "none"
  /\ call[c].kind # "status" => ask[c] = "none"
  /\ ask[c] = "APPROVED" => \E d \in deliveries : d.txn = call[c].txn

Linked ==
  /\ catalog = Catalog
  /\ ask \in [App!Callers -> App!Status \union {"none"}]
  /\ \A t \in Txns : CreateLinked(t) /\ PayLinked(t)
  /\ \A c \in App!Callers : AskLinked(c)

\* A patient app waits for every payment the backend is still to answer.
Waits ==
  patient =>
    /\ launched = {}
    /\ \A t \in Txns : call[t].kind = "pay" /\ ~ Answered(t) => call[t].live
================================================================================
