------------------------------- MODULE CheckoutApp -------------------------------
(***************************************************************************)
(* The React Native app from the product list to the receipt: the screens   *)
(* and the checkout sheet, the Redux slices behind them, the payment view's *)
(* asynchronous run, redux-persist's snapshot, and an abstract order        *)
(* service (CheckoutSystem shows that PaymentBackend implements it).        *)
(*                                                                          *)
(* JavaScript runs one event at a time, so an action is one event (a press, *)
(* an answer, a timeout) with every dispatch it makes and with what React   *)
(* then mounts and unmounts.  A payment view, each time it is mounted, runs *)
(* once and makes at most three calls one after the other (create, pay,     *)
(* status); the view and its present call share a name, and the order it    *)
(* creates has that name too.  Views and Launches bound how many there are. *)
(***************************************************************************)
EXTENDS Naturals, Sequences, Functions, SequencesExt

CONSTANTS Products,     \* product ids
          Quantities,   \* quantities the stepper can reach
          Views,        \* mounts of the payment view
          Launches,     \* starts of the app after the first
          NavigatePops, \* does navigate('Home') return to the Home below?
          MaxStack,     \* screens on top of each other (bound)
          MaxFetches,   \* product lists asked for at once (bound)
          None          \* null

VARIABLES stack,    \* the navigator's screens; a product id is its detail page
          products, \* the products slice and the lists still to be answered
          cart,     \* the cart slice
          step,     \* the checkout slice's step
          card,     \* does its card draft, with the e-mail, pass validation?
          current,  \* the transaction slice's current record
          history,  \* and its finished ones, the newest first
          disk,     \* what redux-persist has written of cart and transaction
          host,     \* where on the stack a payment view is mounted, 0 if not
          call,     \* the present call of each payment view and each launch
          launched, \* launches that have happened
          order,    \* the service's orders
          work      \* what the service has done of each call

appVars == <<stack, products, cart, step, card, current, history, disk, host,
             call, launched>>
vars == <<appVars, order, work>>

Callers   == Views \union Launches
Finished  == {"APPROVED", "DECLINED", "ERROR"}
Status    == Finished \union {"PENDING"}
Steps     == {"idle", "card-info", "summary", "processing", "result"}

Cart  == [product: Products \union {None}, qty: Quantities \union {0}]
\* product and qty are None and 0 in a record rebuilt from a status answer.
Record == [id: Views, status: Status, product: Products \union {None},
           qty: Quantities \union {0}]
Call  == [kind: {"none", "create", "pay", "status"}, live: BOOLEAN,
          txn: Views \union {None}, product: Products \union {None},
          qty: Quantities \union {0}]
Order == [status: Status \union {"ABSENT"}, product: Products \union {None},
          qty: Quantities \union {0}]
Work  == Status \union {"none", "sent", "created", "accepted", "processed"}

ASSUME AppAssumption ==
  /\ Quantities \subseteq Nat \ {0}
  /\ NavigatePops \in BOOLEAN
  /\ MaxStack \in Nat /\ MaxFetches \in Nat
  /\ None \notin Products \union Views
  /\ None \notin Record
  /\ Views \intersect Launches = {}
  /\ Products \intersect {"Splash", "Home", "Checkout", "History"} = {}

EmptyCart   == [product |-> None, qty |-> 0]
NoProducts  == [items |-> {}, status |-> "idle", fetches |-> 0]
NoCall      == [kind |-> "none", live |-> FALSE, txn |-> None, product |-> None,
                qty |-> 0]
NoOrder     == [status |-> "ABSENT", product |-> None, qty |-> 0]
Snapshot    == [cart |-> cart, current |-> current, history |-> history]

\* Types: in particular every record on screen, in the history or on disk is of
\* an order a payment view created.
TypeOK ==
  /\ stack \in Seq(Products \union {"Splash", "Home", "Checkout", "History"})
  /\ products \in [items: SUBSET Products, fetches: Nat,
                   status: {"idle", "loading", "succeeded", "failed"}]
  /\ cart \in Cart /\ step \in Steps /\ card \in BOOLEAN
  /\ current \in Record \union {None}
  /\ history \in Seq(Record)
  /\ disk \in [cart: Cart, current: Record \union {None}, history: Seq(Record)]
  /\ host \in [Views -> Nat]
  /\ call \in [Callers -> Call]
  /\ launched \subseteq Launches
  /\ order \in [Views -> Order]
  /\ work \in [Callers -> Work]

Init ==
  /\ stack = <<"Splash">> /\ products = NoProducts
  /\ cart = EmptyCart /\ step = "idle" /\ card = FALSE
  /\ current = None /\ history = << >>
  /\ disk = Snapshot
  /\ host = [v \in Views |-> 0]
  /\ call = [c \in Callers |-> NoCall]
  /\ launched = {}
  /\ order = [v \in Views |-> NoOrder]
  /\ work = [c \in Callers |-> "none"]
--------------------------------------------------------------------------------
(* What is on the screen                                                    *)

Top == stack[Len(stack)]

\* selectCartProduct finds the cart's product in the list as last fetched.
CartProductListed == cart.product \in products.items

CheckoutScreens == {i \in DOMAIN stack : stack[i] = "Checkout"}

\* Each Checkout screen on the stack has its own Backdrop, the one on top or not.
SheetShown == step # "idle" /\ CartProductListed /\ CheckoutScreens # {}

\* Each Checkout screen whose sheet is at "processing" holds a payment view.
Hosts == IF step = "processing" /\ CartProductListed THEN CheckoutScreens ELSE {}

Unused == {v \in Views : call[v].kind = "none"}
Running(c) == c \in Views /\ host[c] # 0

\* Mutant: every attempt to pay makes an order of its own.
FirstCallFresh ==
  [NoCall EXCEPT !.kind = "create", !.live = TRUE,
                 !.product = cart.product, !.qty = cart.qty]

\* What the effect of a new payment view sends first.
FirstCall ==
  IF current # None /\ current.status = "PENDING"
  THEN [NoCall EXCEPT !.kind = "pay", !.live = TRUE, !.txn = current.id]
  ELSE [NoCall EXCEPT !.kind = "create", !.live = TRUE,
                      !.product = cart.product, !.qty = cart.qty]

\* React reconciles the screen with the new state: payment views whose place is
\* gone are unmounted (cancelled, their run goes on), and new ones start to run.
\* calls is what this event itself makes of the calls.
Render(calls) ==
  \E f \in [Hosts' \ {host[v] : v \in Views} -> Unused] :
    /\ IsInjective(f)
    /\ host' = [v \in Views |->
         IF \E i \in DOMAIN f : f[i] = v THEN CHOOSE i \in DOMAIN f : f[i] = v
         ELSE IF host[v] \in Hosts' THEN host[v] ELSE 0]
    /\ LET new == {f[i] : i \in DOMAIN f} IN
       /\ call' = [c \in Callers |-> IF c \in new THEN FirstCall' ELSE calls[c]]
       /\ work' = [c \in Callers |-> IF c \in new THEN "sent" ELSE work[c]]
--------------------------------------------------------------------------------
(* What the reducers do                                                     *)

\* Mutant: the history is kept the oldest first.
archiveAtTheEnd ==
  /\ current' = None
  /\ history' = IF current = None THEN history ELSE Append(history, current)

\* Mutant: the history names what is in the cart, not what was ordered.
archiveForCart ==
  /\ current' = None
  /\ history' = IF current = None THEN history
                ELSE <<[current EXCEPT !.product = cart.product, !.qty = cart.qty]>> \o history

archiveCurrentTransaction ==
  /\ current' = None
  /\ history' = IF current = None THEN history ELSE <<current>> \o history

\* Mutant: leaving the receipt does not empty the cart.
keepCart == UNCHANGED cart

clearCart == cart' = EmptyCart

selectProduct(p, q) == cart' = [product |-> p, qty |-> q]

resetCheckout == step' = "idle" /\ card' = FALSE

\* The list stays as it is until the answer.
fetchProducts ==
  /\ products.fetches < MaxFetches
  /\ products' = [items |-> products.items, status |-> "loading",
                  fetches |-> products.fetches + 1]

\* navigate('Home') of React Navigation 7 stays on a Home on top and pushes a
\* new one otherwise; that of version 6 returned to the one at the bottom.
NavigateHome ==
  /\ stack' = IF Top = "Home" THEN stack
              ELSE IF NavigatePops THEN <<"Home">> ELSE Append(stack, "Home")
  /\ Len(stack') <= MaxStack
--------------------------------------------------------------------------------
(* Home, ProductDetail and Checkout                                         *)

\* Home's effect: it fetches the list if nobody has.
FetchIfIdle ==
  IF products.status = "idle" THEN fetchProducts ELSE UNCHANGED products

\* The splash screen's timer.
EnterHome ==
  /\ Top = "Splash"
  /\ stack' = <<"Home">> /\ FetchIfIdle
  /\ UNCHANGED <<cart, step, card, current, history, disk, launched, order>>
  /\ Render(call)

RetryFetch ==
  /\ Top = "Home" /\ ~ SheetShown /\ products.status = "failed"
  /\ fetchProducts
  /\ UNCHANGED <<stack, cart, step, card, current, history, disk, launched, order>>
  /\ Render(call)

ListAnswered(found) ==
  /\ products.fetches > 0
  /\ products' = [items |-> found, status |-> "succeeded",
                  fetches |-> products.fetches - 1]
  /\ UNCHANGED <<stack, cart, step, card, current, history, disk, launched, order>>
  /\ Render(call)

ListFails ==
  /\ products.fetches > 0
  /\ products' = [items |-> products.items, status |-> "failed",
                  fetches |-> products.fetches - 1]
  /\ UNCHANGED <<stack, cart, step, card, current, history, disk, launched, order>>
  /\ Render(call)

OpenScreen(s) ==
  /\ Top = "Home" /\ ~ SheetShown /\ Len(stack) < MaxStack
  /\ stack' = Append(stack, s)
  /\ UNCHANGED <<products, cart, step, card, current, history, disk, launched, order>>
  /\ Render(call)

\* The list is on the screen only once it has been answered.
ProductShown(p) == products.status = "succeeded" /\ p \in products.items

OpenProduct(p) == ProductShown(p) /\ OpenScreen(p)

\* The header's buttons are there whatever became of the list.
OpenCart    == cart.qty > 0 /\ OpenScreen("Checkout")
OpenHistory == history # << >> /\ OpenScreen("History")

AddToCart(q) ==
  /\ Top \in products.items /\ ~ SheetShown
  /\ selectProduct(Top, q)
  /\ NavigateHome
  /\ UNCHANGED <<products, step, card, current, history, disk, launched, order>>
  /\ Render(call)

Back ==
  /\ Len(stack) > 1 /\ ~ SheetShown
  /\ stack' = SubSeq(stack, 1, Len(stack) - 1)
  /\ UNCHANGED <<products, cart, step, card, current, history, disk, launched, order>>
  /\ Render(call)
--------------------------------------------------------------------------------
(* The checkout sheet                                                       *)

GoTo(from, to) ==
  /\ step = from /\ step' = to
  /\ UNCHANGED <<stack, products, cart, card, current, history, disk, launched, order>>
  /\ Render(call)

PayWithCard == Top = "Checkout" /\ CartProductListed /\ GoTo("idle", "card-info")
SubmitCard  == SheetShown /\ card /\ GoTo("card-info", "summary")
EditCard    == SheetShown /\ GoTo("summary", "card-info")
PressPay    == SheetShown /\ GoTo("summary", "processing")

TypeCard ==
  /\ SheetShown /\ step = "card-info"
  /\ card' = ~ card
  /\ UNCHANGED <<stack, products, cart, step, current, history, disk, host, call,
                 launched, order, work>>

\* Mutant: closing the receipt archives it and leaves the step there.
CloseSheetArchiving ==
  /\ SheetShown /\ step # "processing"
  /\ IF step = "result"
     THEN archiveCurrentTransaction /\ clearCart /\ fetchProducts /\ UNCHANGED <<step, card>>
     ELSE UNCHANGED <<products, cart, current, history>> /\ resetCheckout
  /\ UNCHANGED <<stack, disk, launched, order>>
  /\ Render(call)

\* handleBackdropClose: the scrim, or Android's back button.
CloseSheet ==
  /\ SheetShown /\ step # "processing"
  /\ IF step = "result" THEN archiveCurrentTransaction /\ clearCart /\ fetchProducts
     ELSE UNCHANGED <<products, cart, current, history>>
  /\ resetCheckout
  /\ UNCHANGED <<stack, disk, launched, order>>
  /\ Render(call)

\* PaymentResultView shows nothing without a transaction.
ReceiptShown == SheetShown /\ step = "result" /\ current # None

TryAgain ==
  /\ ReceiptShown /\ current.status # "APPROVED"
  /\ archiveCurrentTransaction
  /\ step' = "card-info"
  /\ UNCHANGED <<stack, products, cart, card, disk, launched, order>>
  /\ Render(call)

BackToHome ==
  /\ ReceiptShown
  /\ archiveCurrentTransaction /\ clearCart /\ resetCheckout /\ fetchProducts
  /\ NavigateHome
  /\ UNCHANGED <<disk, launched, order>>
  /\ Render(call)
--------------------------------------------------------------------------------
(* The payment view's run                                                   *)

Waiting(c, kind) == call[c].live /\ call[c].kind = kind

Over(c) == [call EXCEPT ![c] = [@ EXCEPT !.live = FALSE]]

\* The next call of the same run.
Sends(c, kind, t) ==
  /\ call' = [call EXCEPT ![c] = [NoCall EXCEPT !.kind = kind, !.live = TRUE, !.txn = t]]
  /\ work' = [work EXCEPT ![c] = "sent"]

\* Mutant: the run does not look at "cancelled" before it changes the step.
EndsUncancelled(c, to) ==
  /\ step' = IF c \in Views THEN to ELSE step
  /\ UNCHANGED <<stack, products, cart, card, history, disk, launched, order>>
  /\ Render(Over(c))

\* The run ends; a cancelled one, and a launch's request, leave the step alone.
Ends(c, to) ==
  /\ step' = IF Running(c) THEN to ELSE step
  /\ UNCHANGED <<stack, products, cart, card, history, disk, launched, order>>
  /\ Render(Over(c))

CreateAnswered(v) ==
  /\ Waiting(v, "create") /\ work[v] = "created"
  /\ current' = [id |-> v, status |-> "PENDING",
                 product |-> call[v].product, qty |-> call[v].qty]
  /\ Sends(v, "pay", v)
  /\ UNCHANGED <<stack, products, cart, step, card, history, disk, host, launched,
                 order>>

\* payTransaction writes the answer on whatever is current by now, and throws
\* when nothing is.
PayAnswered(v) ==
  /\ Waiting(v, "pay") /\ work[v] \in Finished
  /\ \/ /\ current # None
        /\ current' = [current EXCEPT !.status = work[v]]
        /\ Ends(v, "result")
     \/ /\ current = None /\ UNCHANGED current
        /\ Ends(v, "summary")

\* Mutant: a run that was turned away shows the payment as it knows it.
PayTurnedAwayShown(v) ==
  /\ Waiting(v, "pay") /\ work[v] = "processed" /\ UNCHANGED current
  /\ Ends(v, "result")

\* Mutant: a run that was turned away takes the payment for declined.
PayTurnedAwayDeclined(v) ==
  /\ Waiting(v, "pay") /\ work[v] = "processed" /\ current # None
  /\ current' = [current EXCEPT !.status = "DECLINED"]
  /\ Ends(v, "result")

\* TRANSACTION_ALREADY_PROCESSED: ask what became of it, unless cancelled.
PayTurnedAway(v) ==
  /\ Waiting(v, "pay") /\ work[v] = "processed" /\ UNCHANGED current
  /\ \/ /\ Running(v)
        /\ Sends(v, "status", call[v].txn)
        /\ UNCHANGED <<stack, products, cart, step, card, history, disk, host,
                       launched, order>>
     \/ ~ Running(v) /\ Ends(v, step)

\* fetchTransactionStatus keeps the receipt data of the same transaction only.
StatusRecord(c) ==
  IF current # None /\ current.id = call[c].txn
  THEN [current EXCEPT !.status = work[c]]
  ELSE [id |-> call[c].txn, status |-> work[c], product |-> None, qty |-> 0]

StatusAnswered(c) ==
  /\ Waiting(c, "status") /\ work[c] \in Status
  /\ current' = StatusRecord(c)
  /\ Ends(c, "result")

\* Mutant: the payment view swallows what its calls throw.
CallFailsSilently(c) ==
  /\ call[c].live
  /\ UNCHANGED current
  /\ Ends(c, step)

\* An error answer, no network, or the AbortController's timer; the service may
\* have done its work all the same.
CallFails(c) ==
  /\ call[c].live
  /\ UNCHANGED current
  /\ Ends(c, "summary")

CallEnds(c) == \/ c \in Views /\ (CreateAnswered(c) \/ PayAnswered(c) \/ PayTurnedAway(c))
               \/ StatusAnswered(c) \/ CallFails(c)
--------------------------------------------------------------------------------
(* redux-persist, and the app's death and return                            *)

\* The whitelisted slices are written some time after they change (as long as
\* anybody is going to read them).
Persist ==
  /\ launched # Launches /\ disk # Snapshot
  /\ disk' = Snapshot
  /\ UNCHANGED <<stack, products, cart, step, card, current, history, host, call,
                 launched, order, work>>

\* The app is killed and started again: memory comes back from the disk, and a
\* transaction that was PENDING there is asked for once.
Relaunch(l) ==
  /\ l \notin launched /\ launched' = launched \union {l}
  /\ stack' = <<"Splash">> /\ products' = NoProducts /\ resetCheckout
  /\ cart' = disk.cart /\ current' = disk.current /\ history' = disk.history
  /\ host' = [v \in Views |-> 0]
  /\ LET asks == disk.current # None /\ disk.current.status = "PENDING" IN
     /\ call' = [c \in Callers |->
          IF c = l /\ asks
          THEN [NoCall EXCEPT !.kind = "status", !.live = TRUE, !.txn = disk.current.id]
          ELSE [call[c] EXCEPT !.live = FALSE]]
     /\ work' = IF asks THEN [work EXCEPT ![l] = "sent"] ELSE work
  /\ UNCHANGED <<disk, order>>
--------------------------------------------------------------------------------
(* The order service, as the app sees it                                    *)

ServiceDoes(c, w) == work' = [work EXCEPT ![c] = w] /\ UNCHANGED appVars

ServerCreate(v) ==
  /\ call[v].kind = "create" /\ work[v] = "sent"
  /\ order' = [order EXCEPT ![v] = [status |-> "PENDING", product |-> call[v].product,
                                    qty |-> call[v].qty]]
  /\ ServiceDoes(v, "created")

\* A payment is taken up while the order is PENDING, and turned away after.
ServerLoad(v) ==
  /\ call[v].kind = "pay" /\ work[v] = "sent"
  /\ \/ order[call[v].txn].status = "PENDING" /\ ServiceDoes(v, "accepted")
     \/ order[call[v].txn].status \in Finished /\ ServiceDoes(v, "processed")
  /\ UNCHANGED order

\* One of two payments taken up at once may overwrite what the other settled.
ServerSettle(v, s) ==
  /\ call[v].kind = "pay" /\ work[v] = "accepted"
  /\ order' = [order EXCEPT ![call[v].txn] = [@ EXCEPT !.status = s]]
  /\ ServiceDoes(v, s)

\* The status is read now and arrives later.
ServerStatus(c) ==
  /\ Waiting(c, "status") /\ work[c] = "sent"
  /\ ServiceDoes(c, order[call[c].txn].status)
  /\ UNCHANGED order

Service ==
  \/ \E v \in Views : ServerCreate(v) \/ ServerLoad(v)
  \/ \E v \in Views, s \in Finished : ServerSettle(v, s)
  \/ \E c \in Callers : ServerStatus(c)

Screens ==
  \/ EnterHome \/ RetryFetch \/ ListFails
  \/ \E p \in Products : OpenProduct(p)
  \/ OpenCart \/ OpenHistory \/ Back
  \/ \E q \in Quantities : AddToCart(q)

Sheet ==
  \/ PayWithCard \/ TypeCard \/ SubmitCard \/ EditCard \/ PressPay
  \/ CloseSheet \/ TryAgain \/ BackToHome

App == \/ Screens \/ Sheet \/ Persist
       \/ \E found \in SUBSET Products : ListAnswered(found)
       \/ \E c \in Callers : CallEnds(c)
       \/ \E l \in Launches : Relaunch(l)

Next == App \/ Service

Spec == Init /\ [][Next]_vars

\* Every request of the app ends, by an answer or by its timer.
Fairness == \A c \in Callers : WF_vars(CallEnds(c))

FairSpec == Spec /\ Fairness
--------------------------------------------------------------------------------
(* Properties                                                               *)

Records == {history[i] : i \in DOMAIN history} \union ({current} \ {None})

\* A receipt, and a row of the history, names the product if the record does.
NamesProduct(r) == r.product # None

\* Every receipt, the present one or an archived one, that names a product names
\* the product and quantity the service has the order for, though payment and
\* status answers are written on whatever record is current when they arrive.
ReceiptNamesOrder ==
  \A r \in Records : NamesProduct(r) =>
    r.product = order[r.id].product /\ r.qty = order[r.id].qty

\* The receipt step always has a transaction to show: an answer that arrives
\* after its payment view was unmounted never brings the step up (cancelled).
ResultShowsTransaction == step = "result" => current # None

\* The customer never stands before Pay, or in a payment, with a card draft that
\* was emptied meanwhile: a late error leads back to the summary only while the
\* sheet it belongs to is still there.
CardBehindPayment == step \in {"summary", "processing"} => card

\* The inductive invariant of the proofs: a record is of an order that exists, and
\* names what was ordered if it names anything; each call is as far as its order
\* is; and a payment view is mounted only while the step is "processing".
Fits(r) ==
  /\ order[r.id].status # "ABSENT"
  /\ NamesProduct(r) => r.product = order[r.id].product /\ r.qty = order[r.id].qty
Fit(cur, past) ==
  /\ cur # None => Fits(cur)
  /\ \A i \in DOMAIN past : Fits(past[i])
CallFits(c) ==
  /\ c \in Views /\ call[c].kind = "none" => order[c].status = "ABSENT"
  /\ call[c].kind = "create" =>
       /\ c \in Views
       /\ work[c] = "sent" => order[c].status = "ABSENT"
       /\ work[c] = "created" => /\ order[c].status # "ABSENT"
                                /\ order[c].product = call[c].product
                                /\ order[c].qty = call[c].qty
  /\ call[c].kind \in {"pay", "status"} =>
       call[c].txn \in Views /\ order[call[c].txn].status # "ABSENT"
AppInv ==
  /\ TypeOK
  /\ Fit(current, history) /\ Fit(disk.current, disk.history)
  /\ \A c \in Callers : CallFits(c)
  /\ \A v \in Views : Running(v) => step = "processing"
  /\ ResultShowsTransaction /\ CardBehindPayment

\* Every order the service has settled is on the phone, as the current record or
\* in the history, however many answers were lost: a retry pays the same order
\* again instead of making a second one and forgetting the first.
SettledIsKnown ==
  \A t \in Views : order[t].status \in Finished => \E r \in Records : r.id = t

\* The outcome on a record is one the service answered for that very order.
HonestReceipts ==
  \A r \in Records : r.status \in Finished =>
    \E c \in Callers : /\ call[c].kind \in {"pay", "status"}
                        /\ call[c].txn = r.id /\ work[c] = r.status

\* "A resolved call ... is a real answer from the backend, so it always advances
\* to the result step" (PaymentProcessingView.tsx): the receipt shows an outcome,
\* never a PENDING transaction under "Payment declined".
ResultIsFinal == step = "result" => current.status \in Finished

\* "A request is in flight - don't let the user abandon it mid-way"
\* (CheckoutScreen.tsx): while the step is processing a payment view is mounted
\* that takes the customer to the outcome.
NeverAbandoned == step = "processing" => \E v \in Views : Running(v)

\* What was written to disk is a past of what is in memory: its history is the
\* memory's without its latest entries, so a kill loses only the most recent.
DiskIsPast == IsSuffix(disk.history, history)

\* Why these hold of an app that is never killed, with the navigate('Home') of
\* version 6: there is at most one screen above Home; the list is there whenever
\* something is in the cart, and the sheet stays on the screen until it is closed;
\* so a payment view is mounted exactly while its run goes on, one at a time, and
\* what is current then is what it pays for.
Calm == NavigatePops /\ launched = {}

CalmScreens ==
  /\ \/ stack = <<"Splash">> \/ stack = <<"Home">>
     \/ \E s \in Products \union {"Checkout", "History"} : stack = <<"Home", s>>
  /\ products.fetches > 0 => products.fetches = 1 /\ products.status = "loading"
  /\ products.status # "succeeded" =>
       cart = EmptyCart /\ step = "idle" /\ Top \notin Products
  /\ step # "idle" => stack = <<"Home", "Checkout">> /\ CartProductListed

CalmViews ==
  /\ \A c \in Callers : call[c].live => c \in Views /\ Running(c)
  /\ \A v \in Views : Running(v) => call[v].live
  /\ \A v, w \in Views : Running(v) /\ Running(w) => v = w
  /\ NeverAbandoned

CalmRecords ==
  /\ current # None /\ step # "result" => current.status = "PENDING"
  /\ ResultIsFinal
  /\ \A c \in Callers :
       /\ Waiting(c, "create") => current = None
       /\ Waiting(c, "pay") \/ Waiting(c, "status") =>
            current # None /\ current.id = call[c].txn

\* Whatever is paid is known, and a payment is turned away, and its outcome asked
\* for, only once the order is settled.
CalmCalls ==
  \A c \in Callers :
    /\ call[c].kind \in {"pay", "status"} => \E r \in Records : r.id = call[c].txn
    /\ call[c].kind = "status" => work[c] \in Finished \union {"sent"}
    /\ call[c].kind = "status" \/ (call[c].kind = "pay" /\ work[c] = "processed") =>
         order[call[c].txn].status \in Finished

CalmInv ==
  Calm => /\ CalmScreens /\ CalmViews /\ CalmRecords /\ CalmCalls
          /\ HonestReceipts /\ SettledIsKnown

\* What the app asks for can be asked for: a create request names a product that
\* was listed and a quantity of the stepper, as CreateTransactionDto wants them.
InCart(c) == c = EmptyCart \/ (c.product \in Products /\ c.qty \in Quantities)
AsksForGoods ==
  /\ InCart(cart) /\ InCart(disk.cart)
  /\ \A c \in Callers : call[c].kind = "create" =>
       call[c].product \in Products /\ call[c].qty \in Quantities

\* A payment view's run comes to an end: the step does not stay at processing,
\* whichever of the three calls fails, is turned away or never answered.
ProcessingEnds == step = "processing" ~> step # "processing"
--------------------------------------------------------------------------------
(* What the documentation says and the code does not do                     *)

\* "Reusing one lets a retry after a failed pay skip re-creating it ... a new
\* purchase must start from a fresh transaction" (PaymentProcessingView.tsx): what
\* is being paid is what the sheet shows.
PaysWhatIsShown ==
  \A v \in Views : Running(v) /\ call[v].kind = "pay" =>
    /\ order[call[v].txn].product = cart.product
    /\ order[call[v].txn].qty = cart.qty

\* POST /transactions "if there's no transaction yet" (PaymentProcessingView.tsx)
\* and ranRef: the app never is about to pay two orders at once.
OnePaymentPerPress ==
  \A v, w \in Views : Waiting(v, "pay") /\ Waiting(w, "pay") =>
    call[v].txn = call[w].txn

\* "Las transacciones finalizadas quedan en el estado persistido" (mobile/README):
\* as long as the app runs, it never loses the record of a finished transaction.
FinalizedIsKept ==
  [][launched' = launched =>
       \A r \in Records : r.status \in Finished => \E s \in Records' : s.id = r.id]_vars

\* "Si la app cierra con un pago PENDING, al reabrir retoma el polling"
\* (mobile/README): after a new start the app learns the outcome of the PENDING
\* transaction it came back with.
CameBackPending ==
  \E l \in Launches : /\ call[l].kind = "status" /\ current # None
                      /\ current.id = call[l].txn /\ current.status = "PENDING"
PendingIsResumed == CameBackPending ~> ~ CameBackPending

\* The service, too, does what it has been asked.
ServiceFairness ==
  /\ \A v \in Views : /\ WF_vars(ServerCreate(v)) /\ WF_vars(ServerLoad(v))
                      /\ WF_vars(\E s \in Finished : ServerSettle(v, s))
  /\ \A c \in Callers : WF_vars(ServerStatus(c))

FairSystemSpec == FairSpec /\ ServiceFairness
================================================================================
