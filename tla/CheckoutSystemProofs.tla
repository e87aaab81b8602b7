-------------------------- MODULE CheckoutSystemProofs --------------------------
(***************************************************************************)
(* Proofs about CheckoutSystem: each part of the whole does what its own    *)
(* module says, so the theorems about the backend alone and about the app   *)
(* alone hold of the two together; and what only the two together promise.  *)
(***************************************************************************)
EXTENDS CheckoutSystem, PaymentBackendSerialProofs, TLAPS

\* The app of CheckoutSystem, with the theorems about it.
Phone == INSTANCE CheckoutAppProofs WITH
  Products <- Catalog, Views <- Txns, order <- theOrders, work <- theWork

\* Phone and the App of CheckoutSystem are one app under two names: Home and the
\* screens above it,
LEMMA SameScreens ==
  App!Screens <=> Phone!Screens
  BY DEF App!Screens, Phone!Screens, App!EnterHome, Phone!EnterHome,
         App!RetryFetch, Phone!RetryFetch, App!ListFails,
         Phone!ListFails, App!OpenProduct, Phone!OpenProduct,
         App!OpenCart, Phone!OpenCart, App!OpenHistory,
         Phone!OpenHistory, App!Back, Phone!Back, App!AddToCart,
         Phone!AddToCart, App!OpenScreen, Phone!OpenScreen,
         App!ProductShown, Phone!ProductShown, App!fetchProducts,
         Phone!fetchProducts, App!FetchIfIdle, Phone!FetchIfIdle,
         App!NavigateHome, Phone!NavigateHome, App!selectProduct,
         Phone!selectProduct, App!Top, Phone!Top, App!SheetShown,
         Phone!SheetShown, App!Callers, Phone!Callers, App!NoCall,
         Phone!NoCall, App!CartProductListed, Phone!CartProductListed,
         App!CheckoutScreens, Phone!CheckoutScreens, App!Hosts,
         Phone!Hosts, App!Unused, Phone!Unused, App!FirstCall,
         Phone!FirstCall, App!Render, Phone!Render, App!IsInjective,
         Phone!IsInjective

\* the checkout sheet,
LEMMA SameSheet ==
  App!Sheet <=> Phone!Sheet
  BY DEF App!Sheet, Phone!Sheet, App!PayWithCard, Phone!PayWithCard,
         App!TypeCard, Phone!TypeCard, App!SubmitCard,
         Phone!SubmitCard, App!EditCard, Phone!EditCard, App!PressPay,
         Phone!PressPay, App!GoTo, Phone!GoTo, App!CloseSheet,
         Phone!CloseSheet, App!ReceiptShown, Phone!ReceiptShown,
         App!TryAgain, Phone!TryAgain, App!BackToHome,
         Phone!BackToHome, App!archiveCurrentTransaction,
         Phone!archiveCurrentTransaction, App!clearCart,
         Phone!clearCart, App!resetCheckout, Phone!resetCheckout,
         App!fetchProducts, Phone!fetchProducts, App!NavigateHome,
         Phone!NavigateHome, App!EmptyCart, Phone!EmptyCart, App!Top,
         Phone!Top, App!SheetShown, Phone!SheetShown, App!Callers,
         Phone!Callers, App!NoCall, Phone!NoCall,
         App!CartProductListed, Phone!CartProductListed,
         App!CheckoutScreens, Phone!CheckoutScreens, App!Hosts,
         Phone!Hosts, App!Unused, Phone!Unused, App!FirstCall,
         Phone!FirstCall, App!Render, Phone!Render, App!IsInjective,
         Phone!IsInjective

\* redux-persist,
LEMMA SamePersist ==
  App!Persist <=> Phone!Persist
  BY DEF App!Persist, Phone!Persist, App!Snapshot, Phone!Snapshot

\* the answer of the product list,
LEMMA SameList ==
  \A found : App!ListAnswered(found) <=> Phone!ListAnswered(found)
  BY DEF App!ListAnswered, Phone!ListAnswered, App!Callers,
         Phone!Callers, App!NoCall, Phone!NoCall,
         App!CartProductListed, Phone!CartProductListed,
         App!CheckoutScreens, Phone!CheckoutScreens, App!Hosts,
         Phone!Hosts, App!Unused, Phone!Unused, App!FirstCall,
         Phone!FirstCall, App!Render, Phone!Render, App!IsInjective,
         Phone!IsInjective

\* the ends of the calls,
LEMMA SameCalls ==
  \A c : App!CallEnds(c) <=> Phone!CallEnds(c)
  BY DEF App!CallEnds, Phone!CallEnds, App!CreateAnswered,
         Phone!CreateAnswered, App!PayAnswered, Phone!PayAnswered,
         App!PayTurnedAway, Phone!PayTurnedAway, App!StatusAnswered,
         Phone!StatusAnswered, App!StatusRecord, Phone!StatusRecord,
         App!CallFails, Phone!CallFails, App!Waiting, Phone!Waiting,
         App!Over, Phone!Over, App!Sends, Phone!Sends, App!Ends,
         Phone!Ends, App!Running, Phone!Running, App!Finished,
         Phone!Finished, App!Status, Phone!Status, App!Callers,
         Phone!Callers, App!NoCall, Phone!NoCall,
         App!CartProductListed, Phone!CartProductListed,
         App!CheckoutScreens, Phone!CheckoutScreens, App!Hosts,
         Phone!Hosts, App!Unused, Phone!Unused, App!FirstCall,
         Phone!FirstCall, App!Render, Phone!Render, App!IsInjective,
         Phone!IsInjective

\* and a new start of the app.
LEMMA SameRelaunch ==
  \A l : App!Relaunch(l) <=> Phone!Relaunch(l)
  BY DEF App!Relaunch, Phone!Relaunch, App!NoProducts,
         Phone!NoProducts, App!resetCheckout, Phone!resetCheckout,
         App!NoCall, Phone!NoCall, App!Callers, Phone!Callers

\* The assumptions about the app hold of the app here.
LEMMA PhoneAssumed == Phone!AppAssumption
  BY PhoneAssumption DEF App!AppAssumption, Phone!AppAssumption, App!Record, Phone!Record,
     App!Status, Phone!Status, App!Finished, Phone!Finished

\* What CheckoutAppProofs shows of the app at first,
LEMMA PhoneInit == Phone!Init => Phone!AppInv /\ Phone!AsksForGoods /\ Phone!CalmInv
  BY PhoneAssumed, Phone!InitHolds, Phone!GoodsInit, Phone!CalmInit

\* after every step of it and of its service,
LEMMA PhoneStep ==
  Phone!AppInv /\ Phone!AsksForGoods /\ Phone!CalmInv /\ [Phone!Next]_Phone!vars =>
    Phone!AppInv' /\ Phone!AsksForGoods' /\ Phone!CalmInv'
  BY PhoneAssumed, Phone!NextHolds, Phone!GoodsAsked, Phone!CalmStep

\* and of what its own events make of the calls.
LEMMA PhoneMoves ==
  /\ Phone!AppInv /\ Phone!App => \A c \in Phone!Callers : Phone!Moves(c)
  /\ Phone!App => launched \subseteq launched'
  BY PhoneAssumed, Phone!CallsMove, Phone!LaunchedStays

--------------------------------------------------------------------------------
(* What the backend's steps are to the app                                  *)

\* The invariant of the whole: of each part, of what joins them, and of the calls.
Joint == /\ IInv /\ Linked
         /\ Phone!AppInv /\ Phone!AsksForGoods /\ Phone!CalmInv

\* What a step does to one pay request, as far as its caller can tell.
Stays(t) ==
  /\ UNCHANGED row /\ pay'[t].product = pay[t].product
  /\ pay'[t].pc \in {"idle", "load"} => pay[t].pc \in {"idle", "load"}
  /\ \/ pay'[t].reply = pay[t].reply /\ pay'[t].pc # "saved"
     \/ /\ pay[t].reply = "none" /\ pay'[t].pc = "done"
        /\ pay'[t].reply \notin Finished \union {"TRANSACTION_ALREADY_PROCESSED"}
TakenUp(t) ==
  /\ UNCHANGED row /\ row[pay[t].txn].status = "PENDING"
  /\ pay[t].pc = "load" /\ pay'[t].pc = "product"
  /\ pay'[t].product # None /\ pay'[t].reply = "none"
TurnedAway(t) ==
  /\ UNCHANGED row /\ row[pay[t].txn].status \in Finished
  /\ pay[t].pc = "load" /\ pay'[t].pc = "done"
  /\ pay'[t].product = None /\ pay'[t].reply = "TRANSACTION_ALREADY_PROCESSED"
Settles(t, s) ==
  /\ row' = [row EXCEPT ![pay[t].txn] = Entity(t, s)]
  /\ pay[t].pc = "settle" /\ pay'[t].pc = "saved"
  /\ pay'[t].product = pay[t].product /\ pay'[t].reply = s

\* What an answer and a charge's result make of a pay request.
LEMMA Answers ==
  ASSUME NEW t \in Pays, pay \in [Pays -> Pay], NEW x
  PROVE  /\ PayAnswer(t, x) => /\ pay'[t].product = pay[t].product
                               /\ pay'[t].pc = "done" /\ pay'[t].reply = x
         /\ ChargeResult(t, x) => /\ pay'[t].product = pay[t].product
                                  /\ pay'[t].pc = "settle"
                                  /\ pay'[t].reply = pay[t].reply
<1>1. pay[t] \in Pay
  OBVIOUS
<1>2. /\ [pay[t] EXCEPT !.pc = "done", !.reply = x].product = pay[t].product
      /\ [pay[t] EXCEPT !.pc = "done", !.reply = x].pc = "done"
      /\ [pay[t] EXCEPT !.pc = "done", !.reply = x].reply = x
  BY <1>1 DEF Pay
<1>3. /\ [pay[t] EXCEPT !.pc = "settle", !.outcome = x].product = pay[t].product
      /\ [pay[t] EXCEPT !.pc = "settle", !.outcome = x].pc = "settle"
      /\ [pay[t] EXCEPT !.pc = "settle", !.outcome = x].reply = pay[t].reply
  BY <1>1 DEF Pay
<1> QED
  BY <1>2, <1>3 DEF PayAnswer, ChargeResult

\* ProcessPaymentUseCase, as its client sees it.
LEMMA PayEffects ==
  ASSUME Joint, NEW t \in Pays, t \in Txns, PayStep(t)
  PROVE  Stays(t) \/ TakenUp(t) \/ TurnedAway(t) \/ \E s \in Finished : Settles(t, s)
<1>1. /\ pay[t] \in Pay /\ pay \in [Pays -> Pay] /\ PayOK(t, pay[t]) /\ PayLinked(t)
      /\ row \in [Txns -> Row] /\ CreatesOK
  BY DEF Joint, IInv, CoreInv, TypeOK, PaysOK, Linked
<1> USE DEF Holding, dbVars
<1>2. CASE LoadTransaction(t)
  <2>0. /\ pay[t].pc = "load" /\ UNCHANGED row /\ pay[t].txn \in Txns
        /\ pay[t].product = None /\ pay[t].reply = "none"
    BY <1>1, <1>2 DEF LoadTransaction, PayOK, PayLinked
  <2>1. CASE PayAnswer(t, "TRANSACTION_NOT_FOUND")
    BY <1>1, <2>0, <2>1 DEF PayAnswer, Pay, Stays, Finished
  <2>2. CASE row[pay[t].txn].status \in Finished
             /\ PayAnswer(t, "TRANSACTION_ALREADY_PROCESSED")
    BY <1>1, <2>0, <2>2 DEF PayAnswer, Pay, TurnedAway
  <2>3. CASE /\ row[pay[t].txn].status = "PENDING"
             /\ pay' = [pay EXCEPT ![t] = [@ EXCEPT !.pc = "product",
                          !.product = row[pay[t].txn].product,
                          !.qty = row[pay[t].txn].qty]]
    <3>1. row[pay[t].txn].product # None
      BY <1>1, <2>0, <2>3, BackendAssumption DEF CreatesOK, BackendAssumption
    <3>2. /\ pay'[t].product = row[pay[t].txn].product /\ pay'[t].pc = "product"
          /\ pay'[t].reply = pay[t].reply
      BY <1>1, <2>3 DEF Pay
    <3> QED
      BY <2>0, <2>3, <3>1, <3>2 DEF TakenUp
  <2> QED
    BY <1>2, <2>1, <2>2, <2>3 DEF LoadTransaction
<1>3. CASE LoadProduct(t)
  <2>0. pay[t].pc = "product" /\ UNCHANGED row /\ pay[t].reply = "none"
    BY <1>1, <1>3 DEF LoadProduct, PayOK
  <2>1. CASE PayAnswer(t, "PRODUCT_NOT_FOUND")
    BY <1>1, <2>0, <2>1 DEF PayAnswer, Pay, Stays, Finished
  <2>2. CASE pay' = [pay EXCEPT ![t] = [@ EXCEPT !.pc = "tokenize",
                       !.seen = stock[pay[t].product]]]
    BY <1>1, <2>0, <2>2 DEF Pay, Stays
  <2> QED
    BY <1>3, <2>1, <2>2 DEF LoadProduct
<1>4. CASE Tokenized(t)
  BY <1>1, <1>4 DEF Tokenized, Pay, Stays
<1>5. CASE ChargeCreated(t)
  BY <1>1, <1>5 DEF ChargeCreated, Pay, Stays
<1>6. CASE ChargeFails(t)
  BY <1>1, <1>6, Answers DEF ChargeFails, Stays
<1>7. CASE Poll(t)
  <2>1. CASE pay' = [pay EXCEPT ![t] = [@ EXCEPT !.pc = "sleep", !.polls = pay[t].polls + 1]]
    BY <1>1, <1>7, <2>1 DEF Poll, Pay, Stays
  <2> QED
    BY <1>1, <1>7, <2>1, Answers DEF Poll, Stays
<1>8. CASE Wake(t)
  <2>1. CASE pay' = [pay EXCEPT ![t] = [@ EXCEPT !.pc = "poll"]]
    BY <1>1, <1>8, <2>1 DEF Wake, Pay, Stays
  <2> QED
    BY <1>1, <1>8, <2>1, Answers DEF Wake, Stays
<1>9. CASE SettleApproved(t) \/ SettleRejected(t)
  <2>1. pay[t].pc = "settle" /\ pay[t].reply = "none"
    BY <1>1, <1>9 DEF SettleApproved, SettleRejected, PayOK
  <2>2. CASE UNCHANGED row /\ \E code \in {"INSUFFICIENT_STOCK", "INTERNAL_ERROR"} :
                                PayAnswer(t, code)
    BY <1>1, <2>1, <2>2 DEF PayAnswer, Pay, Stays, Finished
  <2>3. ASSUME NEW s \in Finished, row' = [row EXCEPT ![pay[t].txn] = Entity(t, s)],
               Saved(t, s)
        PROVE  Settles(t, s)
    BY <1>1, <2>1, <2>3 DEF Saved, Pay, Settles
  <2> QED
    BY <1>9, <2>2, <2>3 DEF SettleApproved, SettleRejected, ShipOut, Finished
<1>10. CASE DatabaseFails(t)
  <2>1. pay[t].reply = "none" /\ UNCHANGED row
    BY <1>1, <1>10 DEF DatabaseFails, PayOK
  <2>2. PICK code \in DatabaseError : PayAnswer(t, code)
    BY <1>10 DEF DatabaseFails
  <2>3. code \notin Finished \union {"TRANSACTION_ALREADY_PROCESSED"}
    BY DEF Finished, DatabaseError
  <2> QED
    BY <1>1, <2>1, <2>2, <2>3, Answers DEF Stays
<1>11. CASE Respond(t)
  BY <1>1, <1>11 DEF Respond, Pay, Stays
<1> QED
  BY <1>2, <1>3, <1>4, <1>5, <1>6, <1>7, <1>8, <1>9, <1>10, <1>11 DEF PayStep

\* The names of the callers.
LEMMA CallersHere == Phone!Callers = Txns \union Launches /\ App!Callers = Txns \union Launches
  BY DEF Phone!Callers, App!Callers

\* What the invariant says of the tables, of one call and of one request.
LEMMA JointTypes ==
  ASSUME Joint
  PROVE  /\ call \in [Txns \union Launches -> Phone!Call] /\ Pays = Txns
         /\ row \in [Txns -> Row] /\ create \in [Txns -> Create] /\ pay \in [Pays -> Pay]
         /\ catalog = Catalog /\ deliveries \subseteq Delivery
         /\ \A c \in Txns \union Launches : Phone!CallFits(c) /\ AskLinked(c)
         /\ \A t \in Txns : CreateLinked(t) /\ PayLinked(t) /\ PayOK(t, pay[t])
         /\ launched \subseteq Launches /\ Txns \intersect Launches = {}
  BY SystemAssumption, CallersHere, PhoneAssumed
     DEF Joint, IInv, CoreInv, TypeOK, PaysOK, Linked, Phone!AppInv, Phone!TypeOK,
         SystemAssumption, Phone!AppAssumption

\* The service's work on a call, read off theWork.
LEMMA WorkIs ==
  /\ theWork = [c \in Txns \union Launches |-> WorkOn(c)]
  /\ theWork' = [c \in Txns \union Launches |-> WorkOn(c)']
  BY DEF theWork

\* A step of one create or pay request is work on one call.
LEMMA WorkOnOne ==
  ASSUME Joint, UNCHANGED <<theApp, ask>>, NEW t \in Txns,
         \A o \in Txns \ {t} : create'[o] = create[o] /\ pay'[o] = pay[o]
  PROVE  theWork' = [theWork EXCEPT ![t] = WorkOn(t)']
<1>1. \A c \in (Txns \union Launches) \ {t} : WorkOn(c)' = WorkOn(c)
  <2> SUFFICES ASSUME NEW c \in (Txns \union Launches) \ {t} PROVE WorkOn(c)' = WorkOn(c)
    OBVIOUS
  <2>1. call' = call /\ ask' = ask
    BY DEF theApp
  <2>2. CASE c \in Txns
    BY <2>1, <2>2 DEF WorkOn
  <2>3. CASE c \in Launches
    <3>1. call[c].kind \in {"none", "status"}
      BY <2>3, JointTypes DEF AskLinked
    <3> QED
      BY <2>1, <3>1 DEF WorkOn
  <2> QED
    BY <2>2, <2>3
<1> QED
  BY <1>1, WorkIs

\* Work that is no work on any call.
LEMMA WorkSame ==
  ASSUME \A c \in Txns \union Launches : WorkOn(c)' = WorkOn(c)
  PROVE  theWork' = theWork
  BY WorkIs

\* A create request is the service's ServerCreate when it saves the order.
LEMMA CreateServes ==
  ASSUME Joint, UNCHANGED <<theApp, ask>>, NEW t \in Txns,
         \/ CreateStep(t)
         \/ call[t].kind = "create" /\ CreateFindProduct(t, call[t].product, call[t].qty)
  PROVE  Phone!Service \/ UNCHANGED <<theOrders, theWork>>
<1>1. /\ create[t] \in Create /\ create \in [Txns -> Create] /\ CreateLinked(t)
      /\ row \in [Txns -> Row]
  BY JointTypes
<1>2. /\ UNCHANGED pay /\ \A o \in Txns \ {t} : create'[o] = create[o]
      /\ call[t].kind = "create" /\ call' = call /\ create[t].reply = "none"
  BY <1>1 DEF CreateStep, CreateSave, CreateFails, CreateFindProduct, CreateAnswer,
              CreateLinked, theApp
<1>3. theWork' = [theWork EXCEPT ![t] = WorkOn(t)']
  BY <1>2, WorkOnOne
<1>4. WorkOn(t) = "sent" /\ theWork[t] = "sent"
  BY <1>2, WorkIs DEF WorkOn
<1>5. CASE UNCHANGED row /\ create'[t].reply # "CREATED"
  <2>1. WorkOn(t)' = "sent" /\ theOrders' = theOrders
    BY <1>2, <1>5 DEF WorkOn, theOrders
  <2> QED
    BY <1>3, <1>4, <2>1, WorkIs
<1>6. CASE CreateSave(t)
  <2>1. /\ row' = [row EXCEPT ![t] = [status |-> "PENDING", product |-> create[t].product,
                                      qty |-> create[t].qty, psp |-> None]]
        /\ CreateAnswer(t, "CREATED")
        /\ create[t].product = call[t].product /\ create[t].qty = call[t].qty
    BY <1>1, <1>6 DEF CreateSave, CreateLinked
  <2>2. create'[t].reply = "CREATED"
    BY <1>1, <2>1 DEF CreateAnswer, Create
  <2>3. WorkOn(t)' = "created"
    BY <1>2, <2>2 DEF WorkOn
  <2>4. theOrders' = [theOrders EXCEPT ![t] = [status |-> "PENDING",
                        product |-> call[t].product, qty |-> call[t].qty]]
    BY <1>1, <2>1 DEF theOrders
  <2>5. Phone!ServerCreate(t)
    BY <1>2, <1>3, <1>4, <2>3, <2>4
       DEF Phone!ServerCreate, Phone!ServiceDoes, Phone!appVars, theApp
  <2> QED
    BY <2>5 DEF Phone!Service
<1>7. CASE CreateFails(t) \/ CreateFindProduct(t, call[t].product, call[t].qty)
  <2>1. UNCHANGED row
    BY <1>7 DEF CreateFails, CreateFindProduct, dbVars
  <2>2. \A code \in DatabaseError \union {"PRODUCT_NOT_FOUND", "INSUFFICIENT_STOCK"} :
          CreateAnswer(t, code) => create'[t].reply = code
    BY <1>1 DEF CreateAnswer, Create
  <2>3. "CREATED" \notin DatabaseError \union {"PRODUCT_NOT_FOUND", "INSUFFICIENT_STOCK"}
    BY DEF DatabaseError
  <2>4. CASE \E code \in DatabaseError \union {"PRODUCT_NOT_FOUND", "INSUFFICIENT_STOCK"} :
               CreateAnswer(t, code)
    BY <1>5, <2>1, <2>2, <2>3, <2>4
  <2>5. CASE create' = [create EXCEPT ![t] =
               [pc |-> "save", product |-> call[t].product, qty |-> call[t].qty,
                reply |-> "none"]]
    BY <1>1, <1>5, <2>1, <2>5
  <2> QED
    BY <1>7, <2>4, <2>5 DEF CreateFails, CreateFindProduct
<1> QED
  BY <1>6, <1>7 DEF CreateStep, CreateFails

\* What is done of a pay call.
LEMMA PayWork ==
  ASSUME NEW t \in Txns, call[t].kind = "pay", call' = call
  PROVE  /\ WorkOn(t) = IF pay[t].reply = "TRANSACTION_ALREADY_PROCESSED" THEN "processed"
                        ELSE IF pay[t].reply \in Finished THEN pay[t].reply
                        ELSE IF pay[t].product # None THEN "accepted" ELSE "sent"
         /\ WorkOn(t)' = IF pay'[t].reply = "TRANSACTION_ALREADY_PROCESSED" THEN "processed"
                         ELSE IF pay'[t].reply \in Finished THEN pay'[t].reply
                         ELSE IF pay'[t].product # None THEN "accepted" ELSE "sent"
  BY DEF WorkOn

\* A pay request is the service's ServerLoad when it looks at the order, and its
\* ServerSettle when it saves it.
LEMMA PayServes ==
  ASSUME Joint, UNCHANGED <<theApp, ask>>, NEW t \in Txns,
         \/ PayStep(t)
         \/ call[t].kind = "pay" /\ PayArrives(t, call[t].txn)
  PROVE  Phone!Service \/ UNCHANGED <<theOrders, theWork>>
<1>1. /\ pay[t] \in Pay /\ pay \in [Pays -> Pay] /\ PayLinked(t) /\ PayOK(t, pay[t])
      /\ row \in [Txns -> Row] /\ t \in Pays /\ Pays = Txns
      /\ call' = call
  BY JointTypes DEF theApp
<1>a. CASE PayArrives(t, call[t].txn) /\ call[t].kind = "pay"
  <2>1. /\ UNCHANGED <<create, row>> /\ \A o \in Txns \ {t} : pay'[o] = pay[o]
        /\ pay'[t].product = pay[t].product /\ pay'[t].reply = pay[t].reply
    BY <1>1, <1>a DEF PayArrives, Pay, dbVars
  <2>2. WorkOn(t)' = WorkOn(t)
    BY <1>1, <1>a, <2>1, PayWork
  <2>3. theWork' = [theWork EXCEPT ![t] = WorkOn(t)]
    BY <2>1, <2>2, WorkOnOne
  <2> QED
    BY <2>1, <2>3, WorkIs DEF theOrders
<1>b. CASE PayStep(t)
  <2>0. IInv
    BY DEF Joint
  <2>1. /\ UNCHANGED create /\ \A o \in Txns \ {t} : pay'[o] = pay[o]
        /\ call[t].kind = "pay" /\ pay[t].txn = call[t].txn /\ pay[t].txn \in Txns
    <3>1. UNCHANGED create
      BY <1>b DEF PayStep, LoadTransaction, LoadProduct, Tokenized, ChargeCreated,
                  ChargeFails, Poll, Wake, SettleApproved, SettleRejected, DatabaseFails,
                  Respond
    <3>2. /\ PayLive(t) /\ pay[t].txn \in Txns
          /\ \A o \in Txns \ {t} : pay'[o] = pay[o]
      BY <1>1, <1>b, <2>0, PayFrame
    <3> QED
      BY <1>1, <3>1, <3>2 DEF PayLinked, PayLive
  <2>2. theWork' = [theWork EXCEPT ![t] = WorkOn(t)']
    BY <2>1, WorkOnOne
  <2> DEFINE o == theOrders[call[t].txn]
  <2>3. o.status = row[pay[t].txn].status /\ theWork[t] = WorkOn(t)
    BY <2>1, WorkIs DEF theOrders
  <2>4. CASE Stays(t)
    <3>1. WorkOn(t)' = WorkOn(t)
      BY <1>1, <2>1, <2>4, PayWork DEF Stays, Finished
    <3>2. theOrders' = theOrders
      BY <2>4 DEF Stays, theOrders
    <3> QED
      BY <2>2, <3>1, <3>2, WorkIs
  <2>5. ASSUME pay[t].pc = "load" PROVE WorkOn(t) = "sent"
    <3>1. pay[t].product = None /\ pay[t].reply = "none"
      BY <1>1, <2>5 DEF PayLinked, PayOK
    <3> QED
      BY <1>1, <2>1, <3>1, PayWork DEF Finished
  <2>6. CASE TakenUp(t)
    <3>1. WorkOn(t)' = "accepted" /\ WorkOn(t) = "sent" /\ theOrders' = theOrders
      BY <1>1, <2>1, <2>5, <2>6, PayWork DEF TakenUp, Finished, theOrders
    <3>2. o.status = "PENDING"
      BY <2>3, <2>6 DEF TakenUp
    <3>3. Phone!ServerLoad(t)
      BY <2>1, <2>2, <2>3, <3>1, <3>2
         DEF Phone!ServerLoad, Phone!ServiceDoes, Phone!appVars, theApp
    <3> QED
      BY <3>3 DEF Phone!Service
  <2>7. CASE TurnedAway(t)
    <3>1. WorkOn(t)' = "processed" /\ WorkOn(t) = "sent" /\ theOrders' = theOrders
      BY <1>1, <2>1, <2>5, <2>7, PayWork DEF TurnedAway, theOrders
    <3>2. o.status \in Phone!Finished
      BY <2>3, <2>7 DEF TurnedAway, Finished, Phone!Finished
    <3>3. Phone!ServerLoad(t)
      BY <2>1, <2>2, <2>3, <3>1, <3>2
         DEF Phone!ServerLoad, Phone!ServiceDoes, Phone!appVars, theApp
    <3> QED
      BY <3>3 DEF Phone!Service
  <2>8. ASSUME NEW s \in Finished, Settles(t, s) PROVE Phone!Service
    <3>1. /\ pay[t].reply = "none" /\ pay[t].pc = "settle"
          /\ pay[t].product = row[pay[t].txn].product /\ pay[t].qty = row[pay[t].txn].qty
          /\ row[pay[t].txn].status # "ABSENT"
      BY <1>1, <2>0, <2>8 DEF Settles, PayOK, Holding, IInv, PaysFresh
    <3>2. pay[t].product # None
      BY <2>0, <2>1, <3>1, BackendAssumption
         DEF IInv, CoreInv, CreatesOK, BackendAssumption
    <3>3. WorkOn(t) = "accepted" /\ WorkOn(t)' = s
      BY <1>1, <2>1, <2>8, <3>1, <3>2, PayWork DEF Settles, Finished
    <3>4. theOrders' = [theOrders EXCEPT ![call[t].txn] = [@ EXCEPT !.status = s]]
      <4>1. /\ row' = [row EXCEPT ![call[t].txn] = Entity(t, s)] /\ call[t].txn \in Txns
            /\ Entity(t, s).status = s
            /\ Entity(t, s).product = row[call[t].txn].product
            /\ Entity(t, s).qty = row[call[t].txn].qty
        BY <2>1, <2>8, <3>1 DEF Settles, Entity
      <4>2. row \in [Txns -> Row]
        BY <1>1 DEF IInv, CoreInv, TypeOK
      <4> DEFINE is(u)  == [status |-> row'[u].status, product |-> row'[u].product,
                            qty |-> row'[u].qty]
                 was(u) == [status |-> row[u].status, product |-> row[u].product,
                            qty |-> row[u].qty]
      <4>3. theOrders = [u \in Txns |-> was(u)] /\ theOrders' = [u \in Txns |-> is(u)]
        BY DEF theOrders
      <4>4. row'[call[t].txn] = Entity(t, s) /\ \A u \in Txns : u # call[t].txn => row'[u] = row[u]
        BY <4>1, <4>2
      <4>5. is(call[t].txn) = [was(call[t].txn) EXCEPT !.status = s]
        BY <4>1, <4>4
      <4>6. \A u \in Txns : u # call[t].txn => is(u) = was(u)
        BY <4>4
      <4> HIDE DEF is, was
      <4> QED
        BY <4>1, <4>3, <4>5, <4>6
    <3>5. Phone!ServerSettle(t, s)
      BY <2>1, <2>2, <2>3, <3>3, <3>4
         DEF Phone!ServerSettle, Phone!ServiceDoes, Phone!appVars, theApp
    <3> QED
      BY <2>8, <3>5 DEF Phone!Service, Finished, Phone!Finished
  <2> QED
    BY <1>1, <1>b, <2>4, <2>6, <2>7, <2>8, PayEffects
<1> QED
  BY <1>a, <1>b

\* Reading the status of a transaction is the service's ServerStatus.
LEMMA StatusServes ==
  ASSUME Joint, NEW c \in Txns \union Launches, StatusRead(c)
  PROVE  Phone!ServerStatus(c)
<1>1. /\ call[c].live /\ call[c].kind = "status" /\ ask[c] = "none"
      /\ ask' = [ask EXCEPT ![c] = row[call[c].txn].status]
      /\ UNCHANGED <<vars, theApp>>
  BY DEF StatusRead, App!Waiting
<1>2. /\ call[c].txn \in Txns /\ row \in [Txns -> Row]
      /\ ask \in [Txns \union Launches -> App!Status \union {"none"}]
  BY <1>1, JointTypes, CallersHere DEF Phone!CallFits, Joint, Linked
<1>3. /\ theOrders[call[c].txn].status = row[call[c].txn].status /\ theOrders' = theOrders
  BY <1>1, <1>2 DEF theOrders, vars
<1>4. WorkOn(c) = "sent" /\ WorkOn(c)' = row[call[c].txn].status
  <2>1. ask'[c] = row[call[c].txn].status /\ row[call[c].txn].status # "none"
    BY <1>1, <1>2 DEF Row, TransactionStatus, Finished
  <2>2. call' = call
    BY <1>1 DEF theApp
  <2> QED
    BY <1>1, <2>1, <2>2 DEF WorkOn
<1>5. \A o \in (Txns \union Launches) \ {c} : WorkOn(o)' = WorkOn(o)
  BY <1>1, <1>2 DEF WorkOn, vars, theApp
<1>6. /\ theWork' = [theWork EXCEPT ![c] = row[call[c].txn].status] /\ theWork[c] = "sent"
  BY <1>4, <1>5, WorkIs
<1> QED
  BY <1>1, <1>3, <1>6
     DEF Phone!ServerStatus, Phone!ServiceDoes, Phone!appVars, Phone!Waiting, theApp

\* A restart of the backend, and what the PSP does, the app cannot tell from nothing.
LEMMA RestartServes ==
  ASSUME Joint, UNCHANGED <<theApp, ask>>,
         Restart \/ \E t \in Txns : PspAccept(t) \/ PspDecide(t)
  PROVE  UNCHANGED <<theOrders, theWork>>
<1>1. row' = row /\ call' = call /\ ask' = ask
  BY DEF Restart, PspAccept, PspDecide, dbVars, theApp
<1>2. \A t \in Txns : /\ create'[t].reply = create[t].reply
                      /\ pay'[t].reply = pay[t].reply /\ pay'[t].product = pay[t].product
  BY JointTypes DEF Restart, PspAccept, PspDecide, Create, Pay
<1>3. \A c \in Txns \union Launches : WorkOn(c)' = WorkOn(c)
  <2> SUFFICES ASSUME NEW c \in Txns \union Launches PROVE WorkOn(c)' = WorkOn(c)
    OBVIOUS
  <2>1. CASE c \in Txns
    BY <1>1, <1>2, <2>1 DEF WorkOn
  <2>2. CASE c \in Launches
    <3>1. call[c].kind \in {"none", "status"}
      BY <2>2, JointTypes DEF AskLinked
    <3> QED
      BY <1>1, <3>1 DEF WorkOn
  <2> QED
    BY <2>1, <2>2
<1> QED
  BY <1>1, <1>3, WorkSame DEF theOrders

\* The events the app takes part in are its own, with what arrives here for an answer.
LEMMA UsedIsApp == catalog = Catalog /\ Used => Phone!App
<1> SUFFICES ASSUME catalog = Catalog, Used PROVE Phone!App
  OBVIOUS
<1>1. CASE App!Screens \/ App!Sheet \/ App!Persist
  BY <1>1, SameScreens, SameSheet, SamePersist DEF Phone!App
<1>2. CASE ListArrives
  BY <1>2, SameList DEF ListArrives, Phone!App
<1>3. ASSUME NEW c \in App!Callers, AnswerArrives(c) \/ Fails(c) PROVE Phone!App
  <2>1. App!CallEnds(c)
    BY <1>3 DEF AnswerArrives, Fails, App!CallEnds
  <2> QED
    BY <2>1, SameCalls, CallersHere DEF Phone!App
<1>4. ASSUME NEW l \in Launches, Relaunches(l) PROVE Phone!App
  BY <1>4, SameRelaunch DEF Relaunches, Phone!App
<1> QED
  BY <1>1, <1>2, <1>3, <1>4 DEF Used

\* The steps of the whole, sorted by whose they are.
LEMMA StepKinds ==
  ASSUME Joint, [SystemNext]_systemVars
  PROVE  \/ UNCHANGED <<vars, ask>> /\ Phone!App
         \/ UNCHANGED <<theApp, ask>> /\ (Served \/ Restart)
         \/ \E c \in Txns \union Launches : StatusRead(c)
         \/ UNCHANGED <<vars, theApp, ask>>
<1>1. catalog = Catalog
  BY JointTypes
<1> QED
  BY <1>1, UsedIsApp, CallersHere DEF SystemNext, systemVars

\* The backend takes the app's calls as the requests it knows.
LEMMA BackendStep == Joint /\ [SystemNext]_systemVars => [Next]_vars
<1> SUFFICES ASSUME Joint, [SystemNext]_systemVars PROVE Next \/ UNCHANGED vars
  OBVIOUS
<1>1. CASE UNCHANGED vars
  BY <1>1
<1>2. CASE Served \/ Restart
  <2>1. ASSUME NEW t \in Txns, Arrives(t) PROVE Next
    <3>1. CASE call[t].kind = "create" /\ CreateFindProduct(t, call[t].product, call[t].qty)
      <4>1. call[t].product \in ValidIds /\ call[t].qty \in Quantities
        BY <3>1, CallersHere, SystemAssumption
           DEF Joint, Phone!AsksForGoods, SystemAssumption
      <4> QED
        BY <3>1, <4>1 DEF Next, Work
    <3>2. CASE call[t].kind = "pay" /\ PayArrives(t, call[t].txn)
      <4>1. call[t].txn \in Txns
        BY <3>2, JointTypes DEF Phone!CallFits
      <4> QED
        BY <3>2, <4>1, JointTypes DEF Next
    <3> QED
      BY <2>1, <3>1, <3>2 DEF Arrives
  <2> QED
    BY <1>2, <2>1, JointTypes DEF Served, Next, Work
<1> QED
  BY <1>1, <1>2, StepKinds DEF StatusRead

\* And its steps are the service's, as the app knows it.
LEMMA ServiceSteps == Joint /\ [SystemNext]_systemVars => [Phone!Next]_Phone!vars
<1> SUFFICES ASSUME Joint, [SystemNext]_systemVars
             PROVE  Phone!Next \/ UNCHANGED Phone!vars
  OBVIOUS
<1>1. ASSUME UNCHANGED theApp, UNCHANGED <<theOrders, theWork>> PROVE UNCHANGED Phone!vars
  BY <1>1 DEF Phone!vars, Phone!appVars, theApp
<1>2. CASE Phone!App
  BY <1>2 DEF Phone!Next
<1>3. CASE UNCHANGED <<theApp, ask>> /\ (Served \/ Restart)
  BY <1>1, <1>3, CreateServes, PayServes, RestartServes DEF Served, Arrives, Phone!Next
<1>4. ASSUME NEW c \in Txns \union Launches, StatusRead(c) PROVE Phone!Next
  BY <1>4, StatusServes, CallersHere DEF Phone!Next, Phone!Service
<1>5. CASE UNCHANGED <<vars, theApp, ask>>
  <2>1. UNCHANGED <<theOrders, theWork>>
    BY <1>5 DEF theOrders, theWork, WorkOn, vars, theApp
  <2> QED
    BY <1>1, <1>5, <2>1
<1> QED
  BY <1>2, <1>3, <1>4, <1>5, StepKinds

--------------------------------------------------------------------------------
(* What joins the parts                                                     *)

\* The backend's steps, the calls standing still: a create request stays that of its
\* call,
LEMMA CreateLinkKept ==
  ASSUME Joint, UNCHANGED <<theApp, ask>>, Served \/ Restart, NEW t \in Txns
  PROVE  CreateLinked(t)'
<1>1. /\ create[t] \in Create /\ create \in [Txns -> Create] /\ CreateLinked(t)
      /\ call' = call
  BY JointTypes DEF theApp
<1>2. CASE create'[t] = create[t]
  BY <1>1, <1>2 DEF CreateLinked
<1>3. ASSUME NEW code, CreateAnswer(t, code), create[t].pc # "idle" \/ call[t].kind # "none"
      PROVE  CreateLinked(t)'
  <2>1. create'[t].pc = "done"
    BY <1>1, <1>3 DEF CreateAnswer, Create
  <2> QED
    BY <1>1, <1>3, <2>1 DEF CreateLinked
<1>4. CASE call[t].kind = "create" /\ CreateFindProduct(t, call[t].product, call[t].qty)
  <2>1. CASE create' = [create EXCEPT ![t] = [pc |-> "save", product |-> call[t].product,
                                              qty |-> call[t].qty, reply |-> "none"]]
    <3>1. create'[t] = [pc |-> "save", product |-> call[t].product,
                        qty |-> call[t].qty, reply |-> "none"]
      BY <1>1, <2>1
    <3> QED
      BY <1>1, <1>4, <3>1 DEF CreateLinked
  <2> QED
    BY <1>3, <1>4, <2>1 DEF CreateFindProduct
<1>5. CASE CreateStep(t)
  BY <1>3, <1>5 DEF CreateStep, CreateSave, CreateFails
<1>6. CASE Restart
  <2>1. create'[t] = IF CreateLive(t) THEN [create[t] EXCEPT !.pc = "dropped"]
                     ELSE create[t]
    BY <1>6 DEF Restart
  <2>2. CASE CreateLive(t)
    <3>1. create'[t].pc = "dropped"
      BY <1>1, <2>1, <2>2 DEF Create
    <3> QED
      BY <1>1, <2>2, <3>1 DEF CreateLinked, CreateLive
  <2> QED
    BY <1>2, <2>1, <2>2
<1>7. ASSUME NEW o \in Txns, o # t, CreateStep(o) \/ Arrives(o)
      PROVE  create'[t] = create[t]
  <2>1. \/ \E x : create' = [create EXCEPT ![o] = x]
        \/ create' = create
    BY <1>7 DEF CreateStep, CreateSave, CreateFails, CreateAnswer, CreateFindProduct,
                Arrives, PayArrives
  <2> QED
    BY <1>1, <1>7, <2>1
<1>8. ASSUME NEW o \in Txns, PayStep(o) \/ PspAccept(o) \/ PspDecide(o)
      PROVE  create'[t] = create[t]
  BY <1>8 DEF PayStep, LoadTransaction, LoadProduct, Tokenized, ChargeCreated,
              ChargeFails, Poll, Wake, SettleApproved, SettleRejected, DatabaseFails,
              Respond, PspAccept, PspDecide
<1>9. CASE PayArrives(t, call[t].txn)
  BY <1>2, <1>9 DEF PayArrives
<1> QED
  BY <1>2, <1>4, <1>5, <1>6, <1>7, <1>8, <1>9 DEF Served, Arrives

\* and so does a pay request.
LEMMA PayLinkKept ==
  ASSUME Joint, UNCHANGED <<theApp, ask>>, Served \/ Restart, NEW t \in Txns
  PROVE  PayLinked(t)'
<1>1. /\ pay[t] \in Pay /\ pay \in [Pays -> Pay] /\ PayLinked(t) /\ PayOK(t, pay[t])
      /\ call' = call /\ Pays = Txns
  BY JointTypes DEF theApp
<1>2. CASE pay'[t] = pay[t]
  BY <1>1, <1>2 DEF PayLinked, PayLive
<1>3. CASE call[t].kind = "pay" /\ PayArrives(t, call[t].txn)
  <2>1. /\ pay'[t].pc = "load" /\ pay'[t].txn = call[t].txn
        /\ pay'[t].product = pay[t].product /\ pay[t].pc = "idle"
    BY <1>1, <1>3 DEF PayArrives, Pay
  <2> QED
    BY <1>1, <1>3, <2>1 DEF PayLinked, PayLive
<1>4. CASE PayStep(t)
  <2>1. /\ PayLive(t) /\ pay'[t].txn = pay[t].txn
    BY <1>1, <1>4, PayFrame DEF Joint
  <2>2. call[t].kind = "pay" /\ pay[t].txn = call[t].txn
    BY <1>1, <2>1 DEF PayLinked, PayLive
  <2>3. /\ pay'[t].pc \in {"idle", "load"} => pay'[t].product = None
        /\ pay'[t].pc = "saved" => pay'[t].reply \in Finished
    <3>1. Stays(t) \/ TakenUp(t) \/ TurnedAway(t) \/ \E s \in Finished : Settles(t, s)
      BY <1>1, <1>4, PayEffects
    <3> QED
      BY <1>1, <3>1 DEF PayLinked, Stays, TakenUp, TurnedAway, Settles
  <2> QED
    BY <1>1, <2>1, <2>2, <2>3 DEF PayLinked
<1>5. CASE Restart
  <2>1. pay'[t] = IF PayLive(t) THEN [pay[t] EXCEPT !.pc = "dropped"] ELSE pay[t]
    BY <1>1, <1>5 DEF Restart
  <2>2. CASE PayLive(t)
    <3>1. pay'[t].pc = "dropped" /\ pay'[t].txn = pay[t].txn
      BY <1>1, <2>1, <2>2 DEF Pay
    <3> QED
      BY <1>1, <2>2, <3>1 DEF PayLinked, PayLive
  <2> QED
    BY <1>2, <2>1, <2>2
<1>6. ASSUME NEW o \in Txns, o # t, PayStep(o) \/ Arrives(o)
      PROVE  pay'[t] = pay[t]
  <2>1. CASE PayStep(o)
    BY <1>1, <1>6, <2>1, PayFrame DEF Joint
  <2>2. CASE Arrives(o)
    BY <1>1, <1>6, <2>2 DEF Arrives, PayArrives, CreateFindProduct
  <2> QED
    BY <1>6, <2>1, <2>2
<1>7. ASSUME NEW o \in Txns,
             \/ CreateStep(o) \/ PspAccept(o) \/ PspDecide(o)
             \/ CreateFindProduct(t, call[t].product, call[t].qty)
      PROVE  pay'[t] = pay[t]
  BY <1>7 DEF CreateStep, CreateSave, CreateFails, CreateFindProduct, PspAccept, PspDecide
<1> QED
  BY <1>2, <1>3, <1>4, <1>5, <1>6, <1>7 DEF Served, Arrives

\* Deliveries are never taken back.
LEMMA DeliveriesGrow == IInv /\ [Next]_vars => deliveries \subseteq deliveries'
<1> SUFFICES ASSUME IInv, [Next]_vars PROVE deliveries \subseteq deliveries'
  OBVIOUS
<1>1. [GoodsMoveTogether]_vars
  BY SavesOwn, GoodsStep
<1> QED
  BY <1>1 DEF GoodsMoveTogether, vars

\* What an event of the app does to what joins the calls and the requests.
LEMMA CallLinkKept ==
  ASSUME Joint, UNCHANGED <<vars, ask>>, Phone!App
  PROVE  /\ \A t \in Txns : CreateLinked(t)' /\ PayLinked(t)'
         /\ \A c \in Txns \union Launches : AskLinked(c)'
<1>1. /\ \A c \in Txns \union Launches : Phone!Moves(c)
      /\ launched \subseteq launched'
  BY PhoneMoves, CallersHere DEF Joint
<1>2. /\ create' = create /\ pay' = pay /\ deliveries' = deliveries /\ ask' = ask
  BY DEF vars
<1> SUFFICES ASSUME NEW c \in Txns \union Launches
             PROVE  /\ c \in Txns => CreateLinked(c)' /\ PayLinked(c)'
                    /\ AskLinked(c)'
  OBVIOUS
<1>3. /\ c \in Txns => CreateLinked(c) /\ PayLinked(c) /\ PayOK(c, pay[c])
      /\ AskLinked(c) /\ Txns \intersect Launches = {} /\ Pays = Txns
      /\ pay \in [Pays -> Pay] /\ create \in [Txns -> Create]
  BY JointTypes
<1>4. CASE Phone!SameRequest(c)
  BY <1>1, <1>2, <1>3, <1>4
     DEF Phone!SameRequest, CreateLinked, PayLinked, PayLive, AskLinked
<1>5. CASE Phone!FirstRequest(c)
  <2>1. c \in Txns /\ call[c].kind = "none" /\ call'[c].kind \in {"create", "pay"}
    BY <1>5 DEF Phone!FirstRequest, Phone!FirstCall, Phone!NoCall
  <2>2. create[c].pc = "idle" /\ pay[c].pc = "idle" /\ ask[c] = "none"
    BY <1>3, <2>1 DEF CreateLinked, PayLinked, AskLinked
  <2> QED
    BY <1>2, <1>3, <2>1, <2>2 DEF CreateLinked, PayLinked, PayLive, AskLinked
<1>6. CASE Phone!NextRequest(c)
  <2>0. c \in Txns /\ theWork[c] = WorkOn(c)
    BY <1>6, WorkIs DEF Phone!NextRequest
  <2>1. CASE call[c].kind = "create" /\ theWork[c] = "created" /\ call'[c].kind = "pay"
    <3>1. create[c].reply = "CREATED"
      BY <2>0, <2>1 DEF WorkOn
    <3>2. create[c].pc \notin {"idle", "save"} /\ pay[c].pc = "idle" /\ ask[c] = "none"
      BY <1>3, <2>0, <2>1, <3>1 DEF CreateLinked, PayLinked, AskLinked
    <3> QED
      BY <1>2, <1>3, <2>0, <2>1, <3>2 DEF CreateLinked, PayLinked, PayLive, AskLinked
  <2>2. CASE /\ call[c].kind = "pay" /\ theWork[c] = "processed"
             /\ call'[c].kind = "status" /\ call'[c].txn = call[c].txn
    <3>1. pay[c].reply = "TRANSACTION_ALREADY_PROCESSED"
      BY <2>0, <2>2 DEF WorkOn, Finished
    <3>2. pay[c].pc \in {"done", "dropped"} /\ pay[c].pc \in PayPc
      BY <1>3, <2>0, <3>1 DEF PayOK, PayLinked, Holding, Finished, Pay, PayPc
    <3>3. create[c].pc # "save" /\ ask[c] = "none"
      BY <1>3, <2>0, <2>2 DEF CreateLinked, AskLinked
    <3> QED
      BY <1>2, <1>3, <2>0, <2>2, <3>2, <3>3
         DEF CreateLinked, PayLinked, PayLive, AskLinked
  <2> QED
    BY <1>6, <2>1, <2>2 DEF Phone!NextRequest, Phone!Waiting
<1>7. CASE Phone!LaunchRequest(c)
  BY <1>2, <1>3, <1>7 DEF Phone!LaunchRequest, AskLinked
<1> QED
  BY <1>1, <1>4, <1>5, <1>6, <1>7 DEF Phone!Moves

\* What joins the parts stays.
LEMMA LinkStep == Joint /\ [SystemNext]_systemVars => Linked'
<1> SUFFICES ASSUME Joint, [SystemNext]_systemVars PROVE Linked'
  OBVIOUS
<1>1. catalog' = Catalog /\ deliveries \subseteq deliveries'
  BY BackendStep, CatalogStays, DeliveriesGrow, JointTypes DEF Joint
<1>2. /\ ask \in [Txns \union Launches -> App!Status \union {"none"}]
      /\ \A t \in Txns : CreateLinked(t) /\ PayLinked(t)
      /\ \A c \in Txns \union Launches : AskLinked(c)
  BY CallersHere DEF Joint, Linked
<1>3. ASSUME ask' = ask, call' = call, launched' = launched
      PROVE  \A c \in Txns \union Launches : AskLinked(c)'
  BY <1>1, <1>2, <1>3 DEF AskLinked
<1>4. CASE UNCHANGED <<vars, ask>> /\ Phone!App
  BY <1>1, <1>2, <1>4, CallLinkKept, CallersHere DEF Linked
<1>5. CASE UNCHANGED <<theApp, ask>> /\ (Served \/ Restart)
  <2>1. \A t \in Txns : CreateLinked(t)' /\ PayLinked(t)'
    BY <1>5, CreateLinkKept, PayLinkKept
  <2> QED
    BY <1>1, <1>2, <1>3, <1>5, <2>1, CallersHere DEF Linked, theApp
<1>6. ASSUME NEW c \in Txns \union Launches, StatusRead(c) PROVE Linked'
  <2>1. /\ call[c].kind = "status" /\ UNCHANGED <<vars, theApp>>
        /\ ask' = [ask EXCEPT ![c] = row[call[c].txn].status]
    BY <1>6 DEF StatusRead, App!Waiting
  <2>2. /\ call[c].txn \in Txns /\ row[call[c].txn].status # "ABSENT"
        /\ row \in [Txns -> Row]
    BY <2>1, JointTypes, CallersHere DEF Phone!CallFits, theOrders
  <2>3. row[call[c].txn].status \in App!Status
    BY <2>2 DEF Row, TransactionStatus, Finished, App!Status, App!Finished
  <2>4. row[call[c].txn].status = "APPROVED" => \E d \in deliveries : d.txn = call[c].txn
    BY <2>2 DEF Joint, IInv, CoreInv, ApprovedIsDelivered
  <2>5. \A o \in Txns \union Launches : AskLinked(o)'
    BY <1>2, <2>1, <2>4 DEF AskLinked, vars, theApp
  <2>6. \A t \in Txns : CreateLinked(t)' /\ PayLinked(t)'
    BY <1>2, <2>1 DEF CreateLinked, PayLinked, PayLive, vars, theApp
  <2>7. ask' \in [Txns \union Launches -> App!Status \union {"none"}]
    BY <1>2, <2>1, <2>3
  <2> QED
    BY <1>1, <2>5, <2>6, <2>7, CallersHere DEF Linked
<1>7. CASE UNCHANGED <<vars, theApp, ask>>
  BY <1>1, <1>2, <1>3, <1>7, CallersHere
     DEF Linked, CreateLinked, PayLinked, PayLive, vars, theApp
<1> QED
  BY <1>4, <1>5, <1>6, <1>7, StepKinds

--------------------------------------------------------------------------------
(* Each part does what its own module says                                  *)

\* Nothing has been asked or done.
LEMMA JointInit == SystemInit => Joint /\ App!Init
<1> SUFFICES ASSUME SystemInit PROVE Joint /\ App!Init
  OBVIOUS
<1> USE DEF SystemInit
<1>1. IInv /\ catalog = Catalog
  BY InvInit DEF Init
<1>2. call = [c \in Txns \union Launches |-> App!NoCall]
      /\ ask = [c \in Txns \union Launches |-> "none"]
  BY CallersHere
<1>3. theOrders = [t \in Txns |-> App!NoOrder]
  BY DEF theOrders, Init, NoRow, App!NoOrder
<1>4. theWork = [c \in Txns \union Launches |-> "none"]
  BY <1>2, WorkIs DEF WorkOn, App!NoCall
<1>5. App!Init
  BY <1>3, <1>4, CallersHere DEF App!Init
<1>6. Phone!Init
  BY <1>5 DEF App!Init, Phone!Init, App!NoProducts, Phone!NoProducts, App!EmptyCart,
              Phone!EmptyCart, App!Snapshot, Phone!Snapshot, App!NoCall, Phone!NoCall,
              App!NoOrder, Phone!NoOrder, App!Callers, Phone!Callers
<1>7. Linked
  <2>1. \A t \in Txns : CreateLinked(t) /\ PayLinked(t)
    BY <1>2, SystemAssumption
       DEF Init, CreateLinked, PayLinked, PayLive, App!NoCall, SystemAssumption
  <2>2. \A c \in Txns \union Launches : AskLinked(c)
    BY <1>2 DEF AskLinked, App!NoCall
  <2> QED
    BY <1>1, <1>2, <2>1, <2>2, CallersHere DEF Linked
<1> QED
  BY <1>1, <1>5, <1>6, <1>7, PhoneInit DEF Joint

\* Every step of the whole keeps what holds of its parts.
LEMMA JointStep == Joint /\ [SystemNext]_systemVars => Joint'
  BY BackendStep, InvStep, ServiceSteps, PhoneStep, LinkStep DEF Joint

\* Whatever the app does when, and however late the answers are: each backend request
\* is as far as the call it serves, and is about the same goods and the same order.
THEOREM LinkInvariance == SystemSpec => []Linked
<1>1. Joint => Linked
  BY DEF Joint
<1> QED
  BY <1>1, JointInit, JointStep, PTL DEF SystemSpec

\* The backend is in the whole what PaymentBackend says it is: the app asks only for
\* what the backend's DTOs let through, and every theorem about it applies.
THEOREM BackendTakesPart == SystemSpec => Spec
<1>1. SystemInit => Init
  BY DEF SystemInit
<1> QED
  BY <1>1, JointInit, JointStep, BackendStep, PTL DEF SystemSpec, Spec

\* For one: goods are conserved and the store's ledger is kept, with this app's
\* retries, restarts and lost answers.
THEOREM SystemConservesStock == SystemSpec => []StockConserved /\ ImplementsLedger
  BY BackendTakesPart, StockIsConserved, Refinement, PTL

\* For another: whatever the app does to its calls, given up or killed with the app, each
\* payment of the backend goes on to its end (ProcessPaymentUseCase.execute).
THEOREM SystemPaymentsEnd == SystemSpec => PaysGoForward
  BY BackendTakesPart, PaysNearTheirEnd, PTL

\* The app finds in the backend the service that CheckoutApp assumes.
LEMMA SameService == Phone!Service <=> App!Service
  BY DEF Phone!Service, App!Service, Phone!ServerCreate, App!ServerCreate,
         Phone!ServerLoad, App!ServerLoad, Phone!ServerSettle, App!ServerSettle,
         Phone!ServerStatus, App!ServerStatus, Phone!ServiceDoes, App!ServiceDoes,
         Phone!appVars, App!appVars, Phone!Waiting, App!Waiting, Phone!Callers,
         App!Callers, Phone!Finished, App!Finished

\* So the steps of Phone are those of App.
LEMMA SameNext == [Phone!Next]_Phone!vars => [App!Next]_App!vars
<1>1. Phone!App => App!App
  BY SameScreens, SameSheet, SamePersist, SameList, SameCalls, SameRelaunch, CallersHere
     DEF Phone!App, App!App
<1>2. Phone!Next => App!Next
  BY <1>1, SameService DEF Phone!Next, App!Next
<1>3. Phone!vars = App!vars /\ (UNCHANGED Phone!vars => UNCHANGED App!vars)
  BY DEF Phone!vars, App!vars, Phone!appVars, App!appVars
<1> QED
  BY <1>2, <1>3

\* The backend implements the order service the app is written against: creating,
\* taking up, turning away and settling orders, one abstract step at a time, with
\* any number of requests, restarts and lost answers.
THEOREM BackendServes == SystemSpec => BackendServesApp
<1>1. Joint /\ [SystemNext]_systemVars => [App!Next]_App!vars
  BY ServiceSteps, SameNext
<1> QED
  BY <1>1, JointInit, JointStep, PTL DEF SystemSpec, BackendServesApp, App!Spec
--------------------------------------------------------------------------------
(* What only the two together promise                                       *)

\* Records are the same under both names.
LEMMA SameRecords ==
  /\ App!Records = Phone!Records
  /\ \A r : App!NamesProduct(r) <=> Phone!NamesProduct(r)
  /\ App!Calm <=> Phone!Calm
  BY DEF App!Records, Phone!Records, App!NamesProduct, Phone!NamesProduct, App!Calm,
         Phone!Calm

\* A record is of an order, and names what the order is for.
LEMMA RecordFits ==
  ASSUME Joint, NEW r \in Phone!Records
  PROVE  /\ r.id \in Txns
         /\ Phone!NamesProduct(r) => r.product = row[r.id].product /\ r.qty = row[r.id].qty
<1>1. /\ history \in Seq(Phone!Record) /\ current \in Phone!Record \union {None}
      /\ Phone!Fit(current, history)
  BY DEF Joint, Phone!AppInv, Phone!TypeOK
<1>2. r \in Phone!Record /\ Phone!Fits(r)
  BY <1>1 DEF Phone!Records, Phone!Fit
<1> QED
  BY <1>2 DEF Phone!Record, Phone!Fits, theOrders

\* An APPROVED that was answered, to a payment or to a question, was of goods shipped.
LEMMA ApprovedAnswerShipped ==
  ASSUME Joint, NEW c \in Txns \union Launches, call[c].kind \in {"pay", "status"},
         theWork[c] = "APPROVED"
  PROVE  \E d \in deliveries : d.txn = call[c].txn
<1>1. WorkOn(c) = "APPROVED" /\ AskLinked(c)
  BY WorkIs, JointTypes
<1>2. CASE call[c].kind = "status"
  BY <1>1, <1>2 DEF WorkOn, AskLinked
<1>3. CASE call[c].kind = "pay"
  <2>1. c \in Txns
    BY <1>1, <1>3 DEF AskLinked
  <2>2. pay[c].reply = "APPROVED"
    BY <1>1, <1>3 DEF WorkOn
  <2>3. /\ PayOK(c, pay[c]) /\ PayLinked(c) /\ pay[c].pc # "idle"
    BY <2>1, <2>2, JointTypes DEF PayOK
  <2>4. PICK d \in deliveries : d.id = c
    BY <2>2, <2>3 DEF PayOK
  <2>5. pay[c].txn = d.txn
    BY <2>4 DEF Joint, IInv, CoreInv, DeliveryIsPaid
  <2> QED
    BY <2>3, <2>4, <2>5 DEF PayLinked
<1> QED
  BY <1>2, <1>3

\* A receipt of an app that is never killed, with the navigate('Home') of version 6,
\* says APPROVED only of goods that are on their way.
THEOREM CalmReceiptIsShipped == SystemSpec => [](App!Calm => ApprovedReceiptIsShipped)
<1>1. Joint => (App!Calm => ApprovedReceiptIsShipped)
  <2> SUFFICES ASSUME Joint, App!Calm, NEW r \in App!Records, r.status = "APPROVED"
               PROVE  \E d \in deliveries : d.txn = r.id /\
                        (App!NamesProduct(r) => d.product = r.product /\ d.qty = r.qty)
    BY DEF ApprovedReceiptIsShipped
  <2>1. Phone!HonestReceipts /\ r \in Phone!Records
    BY SameRecords DEF Joint, Phone!CalmInv
  <2>2. PICK c \in Txns \union Launches : /\ call[c].kind \in {"pay", "status"}
                                          /\ call[c].txn = r.id /\ theWork[c] = r.status
    BY <2>1, CallersHere DEF Phone!HonestReceipts, Phone!Finished
  <2>3. PICK d \in deliveries : d.txn = r.id
    BY <2>2, ApprovedAnswerShipped
  <2>4. d.product = row[d.txn].product /\ d.qty = row[d.txn].qty
    BY DEF Joint, IInv, CoreInv, DeliveriesMatchRows
  <2> QED
    BY <2>1, <2>3, <2>4, RecordFits, SameRecords
<1> QED
  BY <1>1, JointInit, JointStep, PTL DEF SystemSpec

\* With the navigate('Home') of version 6, nothing is ever shipped of which a phone
\* that was not killed does not know.
THEOREM CalmDeliveryIsKnown == SystemSpec => [](NavigatePops => DeliveryIsKnown)
<1>1. Joint => (NavigatePops => DeliveryIsKnown)
  <2> SUFFICES ASSUME Joint, NavigatePops, launched = {}, NEW d \in deliveries
               PROVE  \E r \in App!Records : r.id = d.txn
    BY DEF DeliveryIsKnown
  <2>1. /\ d.id \in Txns /\ pay[d.id].txn = d.txn /\ psp[d.id] = "APPROVED"
        /\ PayOK(d.id, pay[d.id]) /\ PayLinked(d.id)
    BY JointTypes DEF Joint, IInv, CoreInv, DeliveryIsPaid, Delivery
  <2>2. pay[d.id].pc # "idle" /\ call[d.id].kind \notin {"none", "create"}
    BY <2>1 DEF PayOK, PayLinked
  <2>3. call[d.id].kind \in {"pay", "status"} /\ call[d.id].txn = d.txn
    BY <2>1, <2>2, JointTypes DEF PayLinked, Phone!Call
  <2>4. Phone!CalmCalls
    BY DEF Joint, Phone!CalmInv, Phone!Calm
  <2> QED
    BY <2>1, <2>3, <2>4, SameRecords, CallersHere DEF Phone!CalmCalls
<1> QED
  BY <1>1, JointInit, JointStep, PTL DEF SystemSpec

--------------------------------------------------------------------------------
(* The patient app                                                          *)

\* What the events of the app leave of its calls.
LEMMA PhoneCallsGoOn ==
  ASSUME Joint
  PROVE  /\ App!Screens \/ App!Sheet \/ App!Persist \/ ListArrives
              => UNCHANGED launched /\ \A c \in Txns \union Launches : Phone!Lives(c)
         /\ \A c \in Txns \union Launches : App!CallEnds(c) =>
              /\ UNCHANGED launched
              /\ \A d \in (Txns \union Launches) \ {c} : Phone!Lives(d)
              /\ Phone!Lives(c) \/ call'[c].kind = call[c].kind
<1>1. Phone!AppInv /\ catalog = Catalog
  BY JointTypes DEF Joint
<1>2. ListArrives => \E found \in SUBSET Catalog : Phone!ListAnswered(found)
  BY <1>1, SameList DEF ListArrives
<1> QED
  BY <1>1, <1>2, PhoneAssumed, Phone!CallsGoOn, SameScreens, SameSheet, SamePersist,
     SameCalls, CallersHere

\* Once a payment is answered or lost it stays so.
LEMMA AnsweredStays ==
  ASSUME Joint, Served \/ Restart, UNCHANGED theApp, NEW t \in Txns,
         call[t].kind = "pay", Answered(t)
  PROVE  Answered(t)'
<1>1. /\ pay[t].pc \in {"done", "dropped"} /\ call' = call /\ Pays = Txns
      /\ pay \in [Pays -> Pay]
  BY JointTypes DEF Answered, theApp
<1>2. ASSUME NEW o \in Txns, PayStep(o) PROVE pay'[t] = pay[t]
  BY <1>1, <1>2, PayFrame DEF Joint, PayLive
<1>3. ASSUME NEW o \in Txns, Arrives(o) PROVE pay'[t] = pay[t]
  BY <1>1, <1>3 DEF Arrives, PayArrives, CreateFindProduct
<1>4. ASSUME NEW o \in Txns, CreateStep(o) \/ PspAccept(o) \/ PspDecide(o)
      PROVE  pay'[t] = pay[t]
  BY <1>4 DEF CreateStep, CreateSave, CreateFails, PspAccept, PspDecide
<1>5. ASSUME Restart PROVE pay'[t] = pay[t]
  <2>1. ~ PayLive(t) /\ t \in Pays
    BY <1>1 DEF PayLive
  <2> QED
    BY <1>5, <2>1 DEF Restart
<1>6. ASSUME Served PROVE pay'[t] = pay[t]
  BY <1>2, <1>3, <1>4, <1>6 DEF Served
<1> QED
  BY <1>1, <1>5, <1>6 DEF Answered

\* A patient app does not give up a payment that may still be answered.
LEMMA WaitsStep == Joint /\ Waits /\ [SystemNext]_systemVars => Waits'
<1> SUFFICES ASSUME Joint, Waits, [SystemNext]_systemVars, patient'
             PROVE  /\ launched' = {}
                    /\ \A t \in Txns : call'[t].kind = "pay" /\ ~ Answered(t)' => call'[t].live
  BY DEF Waits
<1>1. /\ patient /\ launched = {}
      /\ \A t \in Txns : call[t].kind = "pay" /\ ~ Answered(t) => call[t].live
  BY DEF Waits, SystemNext, systemVars
<1>2. CASE UNCHANGED <<vars, ask>> /\ Used
  <2>0. \A t \in Txns : call[t].kind = "pay" /\ call'[t].kind = "pay" =>
                          (Answered(t)' <=> Answered(t))
    BY <1>2 DEF Answered, vars
  <2>1. ASSUME NEW t \in Txns, Phone!Lives(t), call'[t].kind = "pay", ~ Answered(t)'
        PROVE  call'[t].live
    BY <1>1, <2>0, <2>1 DEF Phone!Lives
  <2>2. CASE App!Screens \/ App!Sheet \/ App!Persist \/ ListArrives
    BY <1>1, <2>1, <2>2, PhoneCallsGoOn
  <2>3. ASSUME NEW c \in App!Callers, AnswerArrives(c) \/ Fails(c)
        PROVE  /\ launched' = {}
               /\ \A t \in Txns : call'[t].kind = "pay" /\ ~ Answered(t)' => call'[t].live
    <3>1. App!CallEnds(c)
      BY <2>3 DEF AnswerArrives, Fails, App!CallEnds
    <3>2. call[c].kind = "pay" => Answered(c)
      <4>1. CASE Fails(c)
        BY <1>1, <4>1 DEF Fails
      <4>2. CASE AnswerArrives(c)
        BY <4>2 DEF AnswerArrives, App!CreateAnswered, App!StatusAnswered, App!Waiting,
                    Answered
      <4> QED
        BY <2>3, <4>1, <4>2
    <3> QED
      BY <1>1, <2>0, <2>1, <3>1, <3>2, PhoneCallsGoOn, CallersHere
  <2>4. ASSUME NEW l \in Launches, Relaunches(l) PROVE FALSE
    BY <1>1, <2>4 DEF Relaunches
  <2> QED
    BY <1>2, <2>2, <2>3, <2>4 DEF Used
<1>3. CASE UNCHANGED <<theApp, ask>> /\ (Served \/ Restart)
  BY <1>1, <1>3, AnsweredStays DEF theApp
<1>4. CASE UNCHANGED <<vars, theApp>>
  BY <1>1, <1>4 DEF Answered, vars, theApp
<1> QED
  BY <1>2, <1>3, <1>4 DEF SystemNext, systemVars, StatusRead

\* So when a payment of a patient app reaches the backend, no other is under way.
LEMMA PatientStep ==
  Joint /\ Waits /\ NavigatePops /\ [SystemNext]_systemVars => [patient => SerialNext]_vars
<1> SUFFICES ASSUME Joint, Waits, NavigatePops, [SystemNext]_systemVars, patient
             PROVE  SerialNext \/ UNCHANGED vars
  OBVIOUS
<1>1. /\ Phone!CalmViews
      /\ \A t \in Txns : call[t].kind = "pay" /\ ~ Answered(t) => call[t].live
  BY DEF Joint, Waits, Phone!CalmInv, Phone!Calm
<1>2. ASSUME NEW t \in Txns, call[t].kind = "pay", PayArrives(t, call[t].txn)
      PROVE  SerialNext
  <2>1. ASSUME NEW o \in Pays, PayLive(o) PROVE FALSE
    <3>1. o \in Txns /\ call[o].kind = "pay" /\ o # t
      BY <1>2, <2>1, JointTypes DEF PayLinked, PayArrives, PayLive
    <3>2. ~ Answered(o) /\ ~ Answered(t)
      BY <1>2, <2>1, <3>1 DEF Answered, PayLive, PayArrives
    <3>3. Phone!Running(o) /\ Phone!Running(t)
      BY <1>1, <1>2, <3>1, <3>2, CallersHere DEF Phone!CalmViews
    <3> QED
      BY <1>1, <3>1, <3>3 DEF Phone!CalmViews
  <2>2. t \in Pays /\ call[t].txn \in Txns
    BY <1>2, JointTypes DEF Phone!CallFits
  <2> QED
    BY <1>2, <2>1, <2>2 DEF SerialNext, PayArrivesAlone, NobodyPays
<1>3. CASE Next
  <2>1. CASE Work
    BY <2>1 DEF SerialNext
  <2>2. CASE ~ Work /\ ~ UNCHANGED vars
    <3>1. Served \/ Restart
      BY <2>2, StepKinds DEF StatusRead
    <3>2. PICK t \in Txns : Arrives(t)
      BY <2>2, <3>1, JointTypes DEF Served, Work
    <3>3. call[t].kind # "create"
      <4>1. CASE call[t].kind = "create"
        <5>1. call[t].product \in ValidIds /\ call[t].qty \in Quantities
          BY <4>1, CallersHere, SystemAssumption
             DEF Joint, Phone!AsksForGoods, SystemAssumption
        <5> QED
          BY <2>2, <3>2, <4>1, <5>1 DEF Arrives, Work
      <4> QED
        BY <4>1
    <3> QED
      BY <1>2, <3>2, <3>3 DEF Arrives
  <2> QED
    BY <2>1, <2>2
<1> QED
  BY <1>3, BackendStep

\* Nobody has asked for anything yet.
LEMMA PatientInit == SystemInit => Waits /\ (patient /\ NavigatePops => SerialInv)
<1>1. SystemInit => Waits
  BY CallersHere DEF SystemInit, Waits, App!NoCall
<1> QED
  BY <1>1, SerialInit DEF SystemInit

\* And the backend of a patient app stays in the states of PaymentBackendSerial.
LEMMA PatientKept ==
  /\ Joint /\ Waits /\ (patient /\ NavigatePops => SerialInv) /\ [SystemNext]_systemVars
     => (patient /\ NavigatePops => SerialInv)'
<1> SUFFICES ASSUME Joint, Waits, patient /\ NavigatePops => SerialInv,
                    [SystemNext]_systemVars, patient', NavigatePops
             PROVE  SerialInv'
  OBVIOUS
<1>1. patient
  BY DEF SystemNext, systemVars
<1> QED
  BY <1>1, PatientStep, SerialStep DEF Joint

\* A phone that waits for every payment's answer as long as there is one to come,
\* with the navigate('Home') of version 6, is a client that pays one at a time:
\* PAY_REQUEST_TIMEOUT_MS, as its comment means it, would be enough.
THEOREM PatientPaysSerially == SystemSpec => (NavigatePops => PatientIsSerial)
<1> SUFFICES ASSUME NavigatePops PROVE SystemSpec => PatientIsSerial
  OBVIOUS
<1>1. Joint /\ Waits /\ [SystemNext]_systemVars => [patient => SerialNext]_vars
  BY PatientStep
<1> QED
  BY <1>1, JointInit, JointStep, PatientInit, WaitsStep, PTL
     DEF SystemSpec, PatientIsSerial

\* Such a phone's customer is charged again for an order only when the first charge
\* could not be booked, or was lost in a restart of the backend: any other retry is
\* turned away as TRANSACTION_ALREADY_PROCESSED.
THEOREM PatientIsChargedOnce == SystemSpec => [](NavigatePops => PatientChargedOnce)
<1>1. (patient /\ NavigatePops => SerialInv) => (NavigatePops => PatientChargedOnce)
  BY DEF SerialInv, ChargedApart, PatientChargedOnce
<1> QED
  BY <1>1, JointInit, JointStep, PatientInit, PatientKept, WaitsStep, PTL DEF SystemSpec

================================================================================
