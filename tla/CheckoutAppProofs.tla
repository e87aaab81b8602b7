---------------------------- MODULE CheckoutAppProofs ----------------------------
(***************************************************************************)
(* Proofs about CheckoutApp, for any number of products, payment views,     *)
(* screens and starts, and for both meanings of navigate('Home').           *)
(***************************************************************************)
EXTENDS CheckoutApp, SequenceTheorems, TLAPS

\* What the events of the app itself change, and what its calls do.
AppType ==
  /\ stack \in Seq(Products \union {"Splash", "Home", "Checkout", "History"})
  /\ products \in [items: SUBSET Products, fetches: Nat,
                   status: {"idle", "loading", "succeeded", "failed"}]
  /\ cart \in Cart /\ step \in Steps /\ card \in BOOLEAN
  /\ current \in Record \union {None}
  /\ history \in Seq(Record)
  /\ disk \in [cart: Cart, current: Record \union {None}, history: Seq(Record)]
  /\ launched \subseteq Launches
CallType ==
  /\ host \in [Views -> Nat] /\ call \in [Callers -> Call]
  /\ work \in [Callers -> Work]

\* The two parts of TypeOK.
LEMMA TypeParts == TypeOK <=> AppType /\ CallType /\ order \in [Views -> Order]
  BY DEF TypeOK, AppType, CallType

\* A record is not null.
LEMMA NoNullRecord == None \notin Record /\ None \notin Views
  BY AppAssumption DEF AppAssumption

\* What a payment view that is mounted sends is a call: for its cart, or for the
\* order of the record that is PENDING.
LEMMA FirstCallTyped ==
  AppType => /\ FirstCall \in Call
             /\ FirstCall.kind \in {"create", "pay"}
             /\ FirstCall.kind = "pay" =>
                  current # None /\ current \in Record /\ FirstCall.txn = current.id
<1> SUFFICES ASSUME AppType
             PROVE  /\ FirstCall \in Call
                    /\ FirstCall.kind \in {"create", "pay"}
                    /\ FirstCall.kind = "pay" =>
                         current # None /\ current \in Record /\ FirstCall.txn = current.id
  OBVIOUS
<1> USE DEF AppType, FirstCall, NoCall, Call, Record, Cart
<1>1. CASE current # None /\ current.status = "PENDING"
  BY <1>1
<1>2. CASE ~ (current # None /\ current.status = "PENDING")
  BY <1>2
<1>3. QED
  BY <1>1, <1>2

\* The same for the state after a step.
LEMMA FirstCallTypedNext ==
  AppType' => /\ FirstCall' \in Call
              /\ FirstCall'.kind \in {"create", "pay"}
              /\ FirstCall'.kind = "pay" =>
                   current' # None /\ current' \in Record /\ FirstCall'.txn = current'.id
<1> SUFFICES ASSUME AppType'
             PROVE  /\ FirstCall' \in Call
                    /\ FirstCall'.kind \in {"create", "pay"}
                    /\ FirstCall'.kind = "pay" =>
                         current' # None /\ current' \in Record /\ FirstCall'.txn = current'.id
  OBVIOUS
<1> USE DEF AppType, FirstCall, NoCall, Call, Record, Cart
<1>1. CASE current' # None /\ current'.status = "PENDING"
  BY <1>1
<1>2. CASE ~ (current' # None /\ current'.status = "PENDING")
  BY <1>2
<1>3. QED
  BY <1>1, <1>2

\* What React's reconciliation leaves: a payment view is mounted only at
\* "processing", and every call is as the event made it but for the first calls of
\* views that were never mounted before.
LEMMA Rendered ==
  \A calls \in [Callers -> Call] :
    CallType /\ AppType' /\ Render(calls) =>
      /\ CallType'
      /\ \A v \in Views : host'[v] # 0 => step' = "processing"
      /\ \A c \in Callers :
           \/ call'[c] = calls[c] /\ work'[c] = work[c]
           \/ /\ c \in Views /\ call[c].kind = "none"
              /\ call'[c] = FirstCall' /\ work'[c] = "sent"
<1> SUFFICES ASSUME NEW calls \in [Callers -> Call],
                    CallType, AppType', Render(calls)
             PROVE  /\ CallType'
                    /\ \A v \in Views : host'[v] # 0 => step' = "processing"
                    /\ \A c \in Callers :
                         \/ call'[c] = calls[c] /\ work'[c] = work[c]
                         \/ /\ c \in Views /\ call[c].kind = "none"
                            /\ call'[c] = FirstCall' /\ work'[c] = "sent"
  OBVIOUS
<1>1. PICK f \in [Hosts' \ {host[v] : v \in Views} -> Unused] :
        /\ host' = [v \in Views |->
             IF \E i \in DOMAIN f : f[i] = v THEN CHOOSE i \in DOMAIN f : f[i] = v
             ELSE IF host[v] \in Hosts' THEN host[v] ELSE 0]
        /\ LET new == {f[i] : i \in DOMAIN f} IN
           /\ call' = [c \in Callers |-> IF c \in new THEN FirstCall' ELSE calls[c]]
           /\ work' = [c \in Callers |-> IF c \in new THEN "sent" ELSE work[c]]
  BY DEF Render
<1> DEFINE new == {f[i] : i \in DOMAIN f}
<1>2. new \subseteq Views /\ \A c \in new : call[c].kind = "none"
  BY DEF Unused
<1>3. Hosts' \subseteq Nat /\ (Hosts' # {} => step' = "processing")
  BY DEF Hosts, CheckoutScreens, AppType
<1>4. \A v \in Views : host'[v] \in Hosts' \union {0}
  <2> SUFFICES ASSUME NEW v \in Views PROVE host'[v] \in Hosts' \union {0}
    OBVIOUS
  <2>1. CASE \E i \in DOMAIN f : f[i] = v
    <3>1. (CHOOSE i \in DOMAIN f : f[i] = v) \in DOMAIN f
      BY <2>1
    <3>2. QED
      BY <1>1, <2>1, <3>1
  <2>2. CASE ~ \E i \in DOMAIN f : f[i] = v
    BY <1>1, <2>2
  <2>3. QED
    BY <2>1, <2>2
<1>5. host' \in [Views -> Nat] /\ \A v \in Views : host'[v] # 0 => step' = "processing"
  <2>1. host' = [v \in Views |-> host'[v]]
    BY <1>1
  <2>2. QED
    BY <1>3, <1>4, <2>1
<1>6. call' = [c \in Callers |-> IF c \in new THEN FirstCall' ELSE calls[c]]
      /\ work' = [c \in Callers |-> IF c \in new THEN "sent" ELSE work[c]]
  BY <1>1
<1> HIDE DEF new
<1>7. call' \in [Callers -> Call] /\ work' \in [Callers -> Work]
  BY <1>6, FirstCallTypedNext DEF CallType, Work
<1>8. \A c \in Callers :
        \/ call'[c] = calls[c] /\ work'[c] = work[c]
        \/ /\ c \in Views /\ call[c].kind = "none"
           /\ call'[c] = FirstCall' /\ work'[c] = "sent"
  BY <1>2, <1>6
<1>9. QED
  BY <1>5, <1>7, <1>8 DEF CallType
--------------------------------------------------------------------------------
(* Every event that ends with React's reconciliation                        *)

\* An event may end a call, but no event turns a call into another here.
SameCalls(calls) ==
  \A c \in Callers : /\ calls[c].kind = call[c].kind /\ calls[c].txn = call[c].txn
                      /\ calls[c].product = call[c].product /\ calls[c].qty = call[c].qty

\* The event itself keeps what is about records, steps and types.
EventKeeps ==
  /\ AppType' /\ order' = order
  /\ Fit(current, history)' /\ Fit(disk.current, disk.history)'
  /\ ResultShowsTransaction' /\ CardBehindPayment'

\* Then the reconciliation that follows keeps the invariant.
LEMMA Kept ==
  \A calls \in [Callers -> Call] :
    AppInv /\ EventKeeps /\ SameCalls(calls) /\ Render(calls) => AppInv'
<1> SUFFICES ASSUME NEW calls \in [Callers -> Call],
                    AppInv, EventKeeps, SameCalls(calls), Render(calls)
             PROVE  AppInv'
  OBVIOUS
<1>1. /\ CallType'
      /\ \A v \in Views : host'[v] # 0 => step' = "processing"
      /\ \A c \in Callers :
           \/ call'[c] = calls[c] /\ work'[c] = work[c]
           \/ /\ c \in Views /\ call[c].kind = "none"
              /\ call'[c] = FirstCall' /\ work'[c] = "sent"
  BY Rendered, TypeParts DEF AppInv, EventKeeps
<1>2. TypeOK'
  <2>1. order' \in [Views -> Order]
    BY TypeParts DEF AppInv, EventKeeps
  <2>2. QED
    BY <1>1, <2>1 DEF EventKeeps, TypeOK, AppType, CallType
<1>3. \A c \in Callers : CallFits(c)'
  <2> SUFFICES ASSUME NEW c \in Callers PROVE CallFits(c)'
    OBVIOUS
  <2>1. CASE call'[c] = calls[c] /\ work'[c] = work[c]
    BY <2>1 DEF CallFits, AppInv, EventKeeps, SameCalls
  <2>2. CASE c \in Views /\ call[c].kind = "none" /\ call'[c] = FirstCall'
             /\ work'[c] = "sent"
    <3>1. order[c].status = "ABSENT"
      BY <2>2 DEF AppInv, CallFits
    <3>2. /\ FirstCall'.kind \in {"create", "pay"}
          /\ FirstCall'.kind = "pay" =>
               current' # None /\ current' \in Record /\ FirstCall'.txn = current'.id
      BY FirstCallTypedNext DEF EventKeeps
    <3>3. FirstCall'.kind = "pay" =>
            FirstCall'.txn \in Views /\ order'[FirstCall'.txn].status # "ABSENT"
      BY <3>2 DEF EventKeeps, Fit, Fits, Record
    <3>4. QED
      BY <2>2, <3>1, <3>2, <3>3 DEF CallFits, EventKeeps
  <2>3. QED
    BY <1>1, <2>1, <2>2
<1>4. \A v \in Views : Running(v)' => step' = "processing"
  BY <1>1 DEF Running
<1>5. QED
  BY <1>2, <1>3, <1>4 DEF AppInv, EventKeeps

\* An event that leaves the calls to the reconciliation.
LEMMA KeptCalls == AppInv /\ EventKeeps /\ Render(call) => AppInv'
<1>1. AppInv => call \in [Callers -> Call]
  BY TypeParts DEF AppInv, CallType
<1>2. SameCalls(call)
  BY DEF SameCalls
<1> QED
  BY <1>1, <1>2, Kept

\* What a call's end leaves of it.
LEMMA OverSame ==
  \A c \in Callers : CallType => Over(c) \in [Callers -> Call] /\ SameCalls(Over(c))
<1> SUFFICES ASSUME NEW c \in Callers, CallType
             PROVE  Over(c) \in [Callers -> Call] /\ SameCalls(Over(c))
  OBVIOUS
<1> DEFINE x == [call[c] EXCEPT !.live = FALSE]
<1>1. call \in [Callers -> Call] /\ Over(c) = [call EXCEPT ![c] = x]
  BY DEF CallType, Over
<1>2. /\ x \in Call /\ x.kind = call[c].kind /\ x.txn = call[c].txn
      /\ x.product = call[c].product /\ x.qty = call[c].qty
  <2>1. call[c] \in Call
    BY DEF CallType
  <2> QED
    BY <2>1 DEF Call
<1> HIDE DEF x
<1> QED
  BY <1>1, <1>2 DEF SameCalls

\* The end of a run: the step only moves if the payment view is still mounted, so
\* that its card has not been emptied, and the receipt has a record.
LEMMA EndsKept ==
  \A c \in Callers, to \in Steps :
    /\ AppInv /\ Ends(c, to)
    /\ current' \in Record \union {None}
    /\ current' # None => Fits(current)'
    /\ current # None \/ to = "result" => current' # None
    => AppInv'
<1> SUFFICES ASSUME NEW c \in Callers, NEW to \in Steps, AppInv, Ends(c, to),
                    current' \in Record \union {None},
                    current' # None => Fits(current)',
                    current # None \/ to = "result" => current' # None
             PROVE  AppInv'
  OBVIOUS
<1> USE DEF AppInv, Ends
<1>1. AppType'
  <2>1. step' \in Steps
    BY DEF TypeOK
  <2>2. QED
    BY <2>1 DEF TypeOK, AppType
<1>2. Fit(current, history)' /\ Fit(disk.current, disk.history)'
  BY DEF Fit, Fits, NamesProduct
<1>3. ResultShowsTransaction' /\ CardBehindPayment'
  BY DEF ResultShowsTransaction, CardBehindPayment, Running
<1>4. EventKeeps
  BY <1>1, <1>2, <1>3 DEF EventKeeps
<1>5. CallType
  BY TypeParts
<1>6. QED
  BY <1>4, <1>5, Kept, OverSame

\* An event that touches neither records nor orders.
LEMMA RecordsKept ==
  AppInv /\ UNCHANGED <<current, history, disk, order>> =>
    Fit(current, history)' /\ Fit(disk.current, disk.history)'
  BY DEF AppInv, Fit, Fits, NamesProduct

\* Archiving keeps the records.
LEMMA ArchiveKeeps ==
  AppInv /\ archiveCurrentTransaction /\ UNCHANGED <<disk, order>> =>
    /\ current' = None /\ history' \in Seq(Record)
    /\ Fit(current, history)' /\ Fit(disk.current, disk.history)'
<1> SUFFICES ASSUME AppInv, archiveCurrentTransaction, UNCHANGED <<disk, order>>
             PROVE  /\ current' = None /\ history' \in Seq(Record)
                    /\ Fit(current, history)' /\ Fit(disk.current, disk.history)'
  OBVIOUS
<1> USE DEF AppInv, archiveCurrentTransaction
<1>1. Fit(disk.current, disk.history)'
  BY DEF Fit, Fits, NamesProduct
<1>2. CASE current = None
  BY <1>1, <1>2 DEF TypeOK, Fit, Fits, NamesProduct
<1>3. CASE current # None
  <2>1. current \in Record /\ history \in Seq(Record)
    BY <1>3 DEF TypeOK
  <2>2. history' = <<current>> \o history
    BY <1>3
  <2>3. /\ history' \in Seq(Record) /\ Len(history') = Len(history) + 1
        /\ history'[1] = current
        /\ \A i \in 2..Len(history') : history'[i] = history[i - 1]
    BY <2>1, <2>2
  <2>4. \A i \in DOMAIN history' : Fits(history'[i])
    BY <1>3, <2>1, <2>3 DEF Fit
  <2>5. \A i \in DOMAIN history' : Fits(history[i])'
    BY <2>4 DEF Fits, NamesProduct
  <2>6. QED
    BY <1>1, <2>3, <2>5 DEF Fit
<1>4. QED
  BY <1>2, <1>3
--------------------------------------------------------------------------------
(* The screens                                                              *)

\* The stack stays a sequence of screens.
LEMMA HomeTyped ==
  TypeOK /\ NavigateHome =>
    stack' \in Seq(Products \union {"Splash", "Home", "Checkout", "History"})
<1> DEFINE S == Products \union {"Splash", "Home", "Checkout", "History"}
<1> SUFFICES ASSUME TypeOK, NavigateHome PROVE stack' \in Seq(S)
  OBVIOUS
<1>1. stack \in Seq(S) /\ "Home" \in S
  BY DEF TypeOK
<1>2. stack' = stack \/ stack' = <<"Home">> \/ stack' = Append(stack, "Home")
  BY DEF NavigateHome
<1> HIDE DEF S
<1>3. <<"Home">> \in Seq(S) /\ Append(stack, "Home") \in Seq(S)
  BY <1>1
<1>4. QED
  BY <1>1, <1>2, <1>3 DEF S

\* So does the products slice.
LEMMA FetchTyped ==
  TypeOK /\ fetchProducts =>
    products' \in [items: SUBSET Products, fetches: Nat,
                  status: {"idle", "loading", "succeeded", "failed"}]
<1> SUFFICES ASSUME TypeOK, fetchProducts
             PROVE  products' \in [items: SUBSET Products, fetches: Nat,
                                   status: {"idle", "loading", "succeeded", "failed"}]
  OBVIOUS
<1>1. products.items \in SUBSET Products /\ products.fetches \in Nat
  BY DEF TypeOK
<1>2. QED
  BY <1>1 DEF fetchProducts

\* An event of a screen leaves step, card and records alone.
LEMMA ScreenKeeps ==
  /\ AppInv /\ UNCHANGED <<step, card, current, history, disk, launched, order>>
  /\ stack' \in Seq(Products \union {"Splash", "Home", "Checkout", "History"})
  /\ products' \in [items: SUBSET Products, fetches: Nat,
                    status: {"idle", "loading", "succeeded", "failed"}]
  /\ cart' \in Cart
  /\ Render(call)
  => AppInv'
<1> SUFFICES ASSUME AppInv, UNCHANGED <<step, card, current, history, disk, launched, order>>,
                    stack' \in Seq(Products \union {"Splash", "Home", "Checkout", "History"}),
                    products' \in [items: SUBSET Products, fetches: Nat,
                                  status: {"idle", "loading", "succeeded", "failed"}],
                    cart' \in Cart,
                    Render(call)
             PROVE  AppInv'
  OBVIOUS
<1>1. AppType'
  BY DEF AppInv, TypeOK, AppType
<1>2. ResultShowsTransaction' /\ CardBehindPayment'
  BY DEF AppInv, ResultShowsTransaction, CardBehindPayment
<1>3. EventKeeps
  BY <1>1, <1>2, RecordsKept DEF EventKeeps
<1>4. QED
  BY <1>3, KeptCalls

\* No event of the screens breaks the invariant.
LEMMA ScreensStep ==
  AppInv /\ (Screens \/ \E found \in SUBSET Products : ListAnswered(found)) => AppInv'
<1> SUFFICES ASSUME AppInv, Screens \/ \E found \in SUBSET Products : ListAnswered(found)
             PROVE  AppInv'
  OBVIOUS
<1>0. TypeOK
  BY DEF AppInv
<1> USE <1>0, ScreenKeeps
<1>1. CASE EnterHome
  BY <1>1, FetchTyped DEF EnterHome, FetchIfIdle, TypeOK
<1>2. CASE RetryFetch
  BY <1>2, FetchTyped DEF RetryFetch, TypeOK
<1>3. CASE ListFails
  <2>1. products.items \in SUBSET Products /\ products.fetches - 1 \in Nat
    BY <1>0, <1>3 DEF TypeOK, ListFails
  <2>2. products' \in [items: SUBSET Products, fetches: Nat,
                       status: {"idle", "loading", "succeeded", "failed"}]
    BY <1>3, <2>1 DEF ListFails
  <2>3. QED
    BY <1>3, <2>2 DEF ListFails, TypeOK
<1>4. ASSUME NEW found \in SUBSET Products, ListAnswered(found) PROVE AppInv'
  BY <1>4 DEF ListAnswered, TypeOK
<1>5. ASSUME NEW s \in Products \union {"Checkout", "History"}, OpenScreen(s) PROVE AppInv'
  BY <1>5 DEF OpenScreen, TypeOK
<1>6. CASE Back
  BY <1>6 DEF Back, TypeOK
<1>7. ASSUME NEW q \in Quantities, AddToCart(q) PROVE AppInv'
  <2>1. Top \in Products
    BY <1>7 DEF AddToCart, TypeOK
  <2>2. QED
    BY <1>7, <2>1, HomeTyped DEF AddToCart, selectProduct, TypeOK, Cart
<1>8. QED
  BY <1>1, <1>2, <1>3, <1>4, <1>5, <1>6, <1>7
     DEF Screens, OpenProduct, OpenCart, OpenHistory
--------------------------------------------------------------------------------
(* The sheet                                                                *)

\* No event of the checkout sheet breaks the invariant.
LEMMA SheetStep == AppInv /\ Sheet => AppInv'
<1> SUFFICES ASSUME AppInv, Sheet PROVE AppInv'
  OBVIOUS
<1>0. TypeOK /\ ResultShowsTransaction /\ CardBehindPayment
  BY DEF AppInv
<1>1. ASSUME NEW from \in Steps, NEW to \in Steps \ {"result"}, GoTo(from, to),
             to \in {"summary", "processing"} => card
      PROVE  AppInv'
  <2>1. AppType'
    BY <1>0, <1>1 DEF GoTo, TypeOK, AppType
  <2>2. Fit(current, history)' /\ Fit(disk.current, disk.history)'
    BY <1>1, RecordsKept DEF GoTo
  <2>3. ResultShowsTransaction' /\ CardBehindPayment'
    BY <1>1 DEF GoTo, ResultShowsTransaction, CardBehindPayment
  <2>4. EventKeeps
    BY <1>1, <2>1, <2>2, <2>3 DEF EventKeeps, GoTo
  <2>5. QED
    BY <1>1, <2>4, KeptCalls DEF GoTo
<1>2. CASE PayWithCard
  BY <1>1, <1>2 DEF PayWithCard, Steps
<1>3. CASE SubmitCard
  BY <1>1, <1>3 DEF SubmitCard, Steps
<1>4. CASE EditCard
  BY <1>1, <1>4 DEF EditCard, Steps
<1>5. CASE PressPay
  <2>1. card
    BY <1>0, <1>5 DEF PressPay, GoTo, CardBehindPayment
  <2>2. QED
    BY <1>1, <1>5, <2>1 DEF PressPay, Steps
<1>6. CASE TypeCard
  <2>1. TypeOK'
    BY <1>0, <1>6 DEF TypeCard, TypeOK
  <2>2. Fit(current, history)' /\ Fit(disk.current, disk.history)'
    BY <1>6, RecordsKept DEF TypeCard
  <2>3. \A c \in Callers : CallFits(c)'
    BY <1>6 DEF TypeCard, AppInv, CallFits
  <2>4. QED
    BY <1>0, <1>6, <2>1, <2>2, <2>3
       DEF TypeCard, AppInv, Running, ResultShowsTransaction, CardBehindPayment
<1>7. CASE CloseSheet
  <2>1. /\ UNCHANGED <<stack, disk, launched, order>> /\ resetCheckout /\ Render(call)
        /\ \/ archiveCurrentTransaction /\ clearCart /\ fetchProducts
           \/ UNCHANGED <<products, cart, current, history>>
    BY <1>7 DEF CloseSheet
  <2>2. AppType' /\ Fit(current, history)' /\ Fit(disk.current, disk.history)'
    <3>1. CASE archiveCurrentTransaction /\ clearCart /\ fetchProducts
      BY <1>0, <2>1, <3>1, ArchiveKeeps, FetchTyped
         DEF TypeOK, AppType, resetCheckout, clearCart, EmptyCart, Cart, Steps
    <3>2. CASE UNCHANGED <<products, cart, current, history>>
      BY <1>0, <2>1, <3>2, RecordsKept DEF TypeOK, AppType, resetCheckout, Steps
    <3>3. QED
      BY <2>1, <3>1, <3>2
  <2>3. EventKeeps
    BY <2>1, <2>2 DEF EventKeeps, resetCheckout, ResultShowsTransaction, CardBehindPayment
  <2>4. QED
    BY <2>1, <2>3, KeptCalls
<1>8. CASE TryAgain
  <2>1. AppType' /\ Fit(current, history)' /\ Fit(disk.current, disk.history)'
    BY <1>0, <1>8, ArchiveKeeps DEF TryAgain, TypeOK, AppType, Steps
  <2>2. EventKeeps
    BY <1>8, <2>1 DEF TryAgain, EventKeeps, ResultShowsTransaction, CardBehindPayment
  <2>3. QED
    BY <1>8, <2>2, KeptCalls DEF TryAgain
<1>9. CASE BackToHome
  <2>1. AppType' /\ Fit(current, history)' /\ Fit(disk.current, disk.history)'
    BY <1>0, <1>9, ArchiveKeeps, FetchTyped, HomeTyped
       DEF BackToHome, TypeOK, AppType, resetCheckout, clearCart, EmptyCart, Cart, Steps
  <2>2. EventKeeps
    BY <1>9, <2>1 DEF BackToHome, resetCheckout, EventKeeps, ResultShowsTransaction,
                      CardBehindPayment
  <2>3. QED
    BY <1>9, <2>2, KeptCalls DEF BackToHome
<1>10. QED
  BY <1>2, <1>3, <1>4, <1>5, <1>6, <1>7, <1>8, <1>9 DEF Sheet
--------------------------------------------------------------------------------
(* Answers                                                                  *)

\* A run that goes on, with an order that exists, keeps the invariant.
LEMMA SendsKept ==
  \A c \in Callers, kind \in {"pay", "status"}, t \in Views :
    /\ AppInv /\ Sends(c, kind, t) /\ order[t].status # "ABSENT"
    /\ UNCHANGED <<stack, products, cart, step, card, history, disk, host, launched,
                   order>>
    /\ current' \in Record \union {None}
    /\ current' # None => Fits(current)'
    /\ current # None => current' # None
    => AppInv'
<1> SUFFICES ASSUME NEW c \in Callers, NEW kind \in {"pay", "status"}, NEW t \in Views,
                    AppInv, Sends(c, kind, t), order[t].status # "ABSENT",
                    UNCHANGED <<stack, products, cart, step, card, history, disk, host,
                                launched, order>>,
                    current' \in Record \union {None},
                    current' # None => Fits(current)',
                    current # None => current' # None
             PROVE  AppInv'
  OBVIOUS
<1>0. TypeOK
  BY DEF AppInv
<1> DEFINE sent == [NoCall EXCEPT !.kind = kind, !.live = TRUE, !.txn = t]
<1>1. sent \in Call /\ sent.kind = kind /\ sent.txn = t
  BY DEF NoCall, Call
<1>2. call' = [call EXCEPT ![c] = sent] /\ work' = [work EXCEPT ![c] = "sent"]
  BY DEF Sends
<1> HIDE DEF sent
<1>3. TypeOK'
  <2>1. call' \in [Callers -> Call]
    BY <1>0, <1>1, <1>2 DEF TypeOK
  <2>2. work' \in [Callers -> Work]
    BY <1>0, <1>2 DEF TypeOK, Work
  <2>3. QED
    BY <1>0, <2>1, <2>2 DEF TypeOK
<1>4. Fit(current, history)' /\ Fit(disk.current, disk.history)'
  BY DEF AppInv, Fit, Fits, NamesProduct
<1>5. \A d \in Callers : CallFits(d)'
  <2> SUFFICES ASSUME NEW d \in Callers PROVE CallFits(d)'
    OBVIOUS
  <2>1. CASE d = c
    BY <1>0, <1>1, <1>2, <2>1 DEF CallFits, TypeOK
  <2>2. CASE d # c
    BY <1>0, <1>2, <2>2 DEF CallFits, AppInv, TypeOK
  <2>3. QED
    BY <2>1, <2>2
<1>6. QED
  BY <1>3, <1>4, <1>5
     DEF AppInv, Running, ResultShowsTransaction, CardBehindPayment

\* An answer to a view or a launch, or its failure, keeps the invariant: what it
\* writes on the current record leaves its product alone or takes it away.
LEMMA CallStep == \A c \in Callers : AppInv /\ CallEnds(c) => AppInv'
<1> SUFFICES ASSUME NEW c \in Callers, AppInv, CallEnds(c) PROVE AppInv'
  OBVIOUS
<1>0. TypeOK /\ CallFits(c) /\ Fit(current, history)
  BY DEF AppInv
<1>1. CASE c \in Views /\ CreateAnswered(c)
  <2>1. /\ order[c].status # "ABSENT" /\ order[c].product = call[c].product
        /\ order[c].qty = call[c].qty
    BY <1>0, <1>1 DEF CreateAnswered, Waiting, CallFits
  <2>2. current' \in Record
    BY <1>0, <1>1 DEF CreateAnswered, TypeOK, Call, Record, Status
  <2>3. Fits(current)'
    BY <1>1, <2>1 DEF CreateAnswered, Fits, NamesProduct
  <2>4. current' # None
    BY <2>2, NoNullRecord
  <2>5. QED
    BY <1>1, <2>1, <2>2, <2>3, <2>4, SendsKept DEF CreateAnswered
<1>2. CASE c \in Views /\ PayAnswered(c)
  <2>1. CASE current # None /\ current' = [current EXCEPT !.status = work[c]] /\ Ends(c, "result")
    <3>1. current \in Record /\ work[c] \in Status
      BY <1>0, <1>2, <2>1 DEF TypeOK, PayAnswered, Status
    <3>2. current' \in Record
      BY <2>1, <3>1 DEF Record
    <3>3. /\ current'.id = current.id /\ current'.product = current.product
          /\ current'.qty = current.qty
      BY <2>1, <3>1 DEF Record
    <3>4. order' = order
      BY <2>1 DEF Ends
    <3>5. Fits(current)'
      BY <1>0, <2>1, <3>3, <3>4 DEF Fit, Fits, NamesProduct
    <3>6. QED
      BY <2>1, <3>2, <3>5, NoNullRecord, EndsKept DEF Steps
  <2>2. CASE current = None /\ current' = current /\ Ends(c, "summary")
    BY <2>2, EndsKept DEF Steps
  <2>3. QED
    BY <1>2, <2>1, <2>2 DEF PayAnswered
<1>3. CASE c \in Views /\ PayTurnedAway(c)
  <2>1. CASE Running(c) /\ Sends(c, "status", call[c].txn)
             /\ UNCHANGED <<stack, products, cart, step, card, history, disk, host,
                            launched, order>>
    <3>1. call[c].txn \in Views /\ order[call[c].txn].status # "ABSENT"
      BY <1>0, <1>3 DEF PayTurnedAway, Waiting, CallFits
    <3>2. current' = current
      BY <1>3 DEF PayTurnedAway
    <3>3. current' # None => Fits(current)'
      BY <1>0, <2>1, <3>2 DEF Fit, Fits, NamesProduct
    <3>4. QED
      BY <1>0, <2>1, <3>1, <3>2, <3>3, SendsKept DEF TypeOK
  <2>2. CASE ~ Running(c) /\ Ends(c, step)
    <3>1. current' = current /\ order' = order
      BY <1>3, <2>2 DEF PayTurnedAway, Ends
    <3>2. current' # None => Fits(current)'
      BY <1>0, <3>1 DEF Fit, Fits, NamesProduct
    <3>3. step = "result" => current # None
      BY DEF AppInv, ResultShowsTransaction
    <3>4. QED
      BY <1>0, <2>2, <3>1, <3>2, <3>3, EndsKept DEF TypeOK
  <2>3. QED
    BY <1>3, <2>1, <2>2 DEF PayTurnedAway
<1>4. CASE StatusAnswered(c)
  <2>1. call[c].txn \in Views /\ order[call[c].txn].status # "ABSENT" /\ work[c] \in Status
    BY <1>0, <1>4 DEF StatusAnswered, Waiting, CallFits
  <2>2. order' = order /\ current' = StatusRecord(c)
    BY <1>4 DEF StatusAnswered, Ends
  <2>3. current' \in Record /\ Fits(current)'
    <3>1. CASE current # None /\ current.id = call[c].txn
      <4>1. current' = [current EXCEPT !.status = work[c]] /\ current \in Record
        BY <1>0, <2>2, <3>1 DEF StatusRecord, TypeOK
      <4>2. /\ current' \in Record /\ current'.id = current.id
            /\ current'.product = current.product /\ current'.qty = current.qty
        BY <2>1, <4>1 DEF Record
      <4>3. QED
        BY <1>0, <2>2, <3>1, <4>2 DEF Fit, Fits, NamesProduct
    <3>2. CASE ~ (current # None /\ current.id = call[c].txn)
      <4>1. current' = [id |-> call[c].txn, status |-> work[c], product |-> None, qty |-> 0]
        BY <2>2, <3>2 DEF StatusRecord
      <4>2. QED
        BY <2>1, <2>2, <4>1 DEF Record, Fits, NamesProduct
    <3>3. QED
      BY <3>1, <3>2
  <2>4. QED
    BY <1>4, <2>3, NoNullRecord, EndsKept DEF StatusAnswered, Steps
<1>5. CASE CallFails(c)
  <2>1. current' = current /\ order' = order /\ Ends(c, "summary")
    BY <1>5 DEF CallFails, Ends
  <2>2. current' # None => Fits(current)'
    BY <1>0, <2>1 DEF Fit, Fits, NamesProduct
  <2>3. QED
    BY <1>0, <2>1, <2>2, EndsKept DEF TypeOK, Steps
<1>6. QED
  BY <1>1, <1>2, <1>3, <1>4, <1>5 DEF CallEnds
--------------------------------------------------------------------------------
(* The disk, and the app's return from it                                   *)

\* Writing the snapshot keeps the invariant.
LEMMA PersistStep == AppInv /\ Persist => AppInv'
<1> SUFFICES ASSUME AppInv, Persist PROVE AppInv'
  OBVIOUS
<1>1. TypeOK'
  BY DEF AppInv, TypeOK, Persist, Snapshot
<1>2. Fit(current, history)' /\ Fit(disk.current, disk.history)'
  BY DEF AppInv, Persist, Snapshot, Fit, Fits, NamesProduct
<1>3. \A c \in Callers : CallFits(c)'
  BY DEF AppInv, Persist, CallFits
<1>4. QED
  BY <1>1, <1>2, <1>3
     DEF AppInv, Persist, Running, ResultShowsTransaction, CardBehindPayment

\* A new start brings back what fitted when it was written, and asks for an order
\* that exists.
LEMMA RelaunchStep == \A l \in Launches : AppInv /\ Relaunch(l) => AppInv'
<1> SUFFICES ASSUME NEW l \in Launches, AppInv, Relaunch(l) PROVE AppInv'
  OBVIOUS
<1> DEFINE asks == disk.current # None /\ disk.current.status = "PENDING"
           asked == [NoCall EXCEPT !.kind = "status", !.live = TRUE,
                                   !.txn = disk.current.id]
<1>0. TypeOK /\ l \in Callers /\ l \notin Views
  BY AppAssumption DEF AppInv, Callers, AppAssumption
<1>1. /\ call' = [c \in Callers |-> IF c = l /\ asks THEN asked
                                    ELSE [call[c] EXCEPT !.live = FALSE]]
      /\ work' = IF asks THEN [work EXCEPT ![l] = "sent"] ELSE work
      /\ host' = [v \in Views |-> 0]
      /\ order' = order /\ disk' = disk
      /\ current' = disk.current /\ history' = disk.history
  BY DEF Relaunch
<1>2. asks => /\ disk.current.id \in Views
              /\ order[disk.current.id].status # "ABSENT"
  BY <1>0 DEF AppInv, TypeOK, Fit, Fits, Record
<1>3. asks => asked \in Call /\ asked.kind = "status" /\ asked.txn = disk.current.id
  BY <1>2 DEF NoCall, Call
<1> HIDE DEF asks, asked
<1> DEFINE dead(c) == [call[c] EXCEPT !.live = FALSE]
<1>4. \A c \in Callers :
        /\ dead(c) \in Call /\ dead(c).kind = call[c].kind /\ dead(c).txn = call[c].txn
        /\ dead(c).product = call[c].product /\ dead(c).qty = call[c].qty
  <2> SUFFICES ASSUME NEW c \in Callers
               PROVE  /\ dead(c) \in Call /\ dead(c).kind = call[c].kind
                      /\ dead(c).txn = call[c].txn
                      /\ dead(c).product = call[c].product /\ dead(c).qty = call[c].qty
    OBVIOUS
  <2>1. call[c] \in Call
    BY <1>0 DEF TypeOK
  <2>2. QED
    BY <2>1 DEF Call
<1>5. TypeOK'
  <2>1. call' \in [Callers -> Call]
    BY <1>1, <1>3, <1>4
  <2>2. work' \in [Callers -> Work]
    BY <1>0, <1>1 DEF TypeOK, Work
  <2>3. /\ cart' \in Cart /\ current' \in Record \union {None} /\ history' \in Seq(Record)
        /\ launched' \subseteq Launches
    BY <1>0 DEF Relaunch, TypeOK
  <2>4. /\ stack' \in Seq(Products \union {"Splash", "Home", "Checkout", "History"})
        /\ products' \in [items: SUBSET Products, fetches: Nat,
                          status: {"idle", "loading", "succeeded", "failed"}]
        /\ step' \in Steps /\ card' \in BOOLEAN
    <3>1. stack' = <<"Splash">> /\ products' = NoProducts /\ resetCheckout
      BY DEF Relaunch
    <3>2. products' \in [items: SUBSET Products, fetches: Nat,
                         status: {"idle", "loading", "succeeded", "failed"}]
      BY <3>1 DEF NoProducts
    <3>3. step' \in Steps /\ card' \in BOOLEAN
      BY <3>1 DEF resetCheckout, Steps
    <3>4. QED
      BY <3>1, <3>2, <3>3
  <2>5. QED
    BY <1>0, <1>1, <2>1, <2>2, <2>3, <2>4 DEF TypeOK
<1>6. Fit(current, history)' /\ Fit(disk.current, disk.history)'
  BY <1>1 DEF AppInv, Fit, Fits, NamesProduct
<1>7. \A c \in Callers : CallFits(c)'
  <2> SUFFICES ASSUME NEW c \in Callers PROVE CallFits(c)'
    OBVIOUS
  <2>1. CASE c = l /\ asks
    BY <1>0, <1>1, <1>2, <1>3, <2>1 DEF CallFits
  <2>2. CASE ~ (c = l /\ asks)
    <3>1. call'[c] = dead(c)
      BY <1>1, <2>2
    <3>2. work'[c] = work[c] /\ order' = order
      BY <1>0, <1>1, <2>2 DEF TypeOK
    <3>3. /\ call'[c].kind = call[c].kind /\ call'[c].txn = call[c].txn
          /\ call'[c].product = call[c].product /\ call'[c].qty = call[c].qty
      BY <1>4, <3>1
    <3>4. QED
      BY <3>2, <3>3 DEF AppInv, CallFits
  <2>3. QED
    BY <2>1, <2>2
<1>8. \A v \in Views : ~ Running(v)'
  BY <1>1 DEF Running
<1>9. ResultShowsTransaction' /\ CardBehindPayment'
  BY DEF Relaunch, resetCheckout, ResultShowsTransaction, CardBehindPayment
<1>10. QED
  BY <1>5, <1>6, <1>7, <1>8, <1>9 DEF AppInv
--------------------------------------------------------------------------------
(* The service                                                              *)

\* A step of the service that keeps every order's existence and content, and
\* moves a call past "sent", keeps the invariant.
LEMMA ServiceKept ==
  \A c \in Callers, w \in Work \ {"sent", "created"} :
    /\ AppInv /\ ServiceDoes(c, w) /\ order' \in [Views -> Order]
    /\ \A t \in Views : /\ order'[t].status = "ABSENT" <=> order[t].status = "ABSENT"
                        /\ order'[t].product = order[t].product
                        /\ order'[t].qty = order[t].qty
    => AppInv'
<1> SUFFICES ASSUME NEW c \in Callers, NEW w \in Work \ {"sent", "created"},
                    AppInv, ServiceDoes(c, w), order' \in [Views -> Order],
                    \A t \in Views : /\ order'[t].status = "ABSENT" <=> order[t].status = "ABSENT"
                                     /\ order'[t].product = order[t].product
                                     /\ order'[t].qty = order[t].qty
             PROVE  AppInv'
  OBVIOUS
<1>0. TypeOK
  BY DEF AppInv
<1>1. work' = [work EXCEPT ![c] = w] /\ UNCHANGED appVars
  BY DEF ServiceDoes
<1>2. TypeOK'
  BY <1>0, <1>1 DEF TypeOK, appVars
<1>3. \A r \in Record : Fits(r) => Fits(r)'
  BY DEF Fits, NamesProduct, Record
<1>4. Fit(current, history)' /\ Fit(disk.current, disk.history)'
  BY <1>0, <1>1, <1>3 DEF AppInv, Fit, TypeOK, appVars
<1>5. \A d \in Callers : CallFits(d)'
  <2> SUFFICES ASSUME NEW d \in Callers PROVE CallFits(d)'
    OBVIOUS
  <2>1. work'[d] \in {"sent", "created"} => work'[d] = work[d]
    BY <1>0, <1>1 DEF TypeOK
  <2>2. QED
    BY <1>1, <2>1 DEF AppInv, CallFits, appVars
<1>6. QED
  BY <1>1, <1>2, <1>4, <1>5
     DEF AppInv, Running, ResultShowsTransaction, CardBehindPayment, appVars

\* No step of the service breaks the invariant.  A new order is one that nobody's
\* record names yet, and settling an order keeps what was ordered.
LEMMA ServiceStep == AppInv /\ Service => AppInv'
<1> SUFFICES ASSUME AppInv, Service PROVE AppInv'
  OBVIOUS
<1>0. TypeOK /\ Views \subseteq Callers
  BY DEF AppInv, Callers
<1>1. ASSUME NEW v \in Views, ServerCreate(v) PROVE AppInv'
  <2>1. order[v].status = "ABSENT" /\ call[v] \in Call /\ call[v].kind = "create"
    BY <1>0, <1>1 DEF ServerCreate, AppInv, CallFits, TypeOK
  <2> DEFINE made == [status |-> "PENDING", product |-> call[v].product, qty |-> call[v].qty]
  <2>2. made \in Order /\ made.status # "ABSENT" /\ made.product = call[v].product
        /\ made.qty = call[v].qty
    BY <2>1 DEF Call, Order, Status
  <2>3. /\ order' = [order EXCEPT ![v] = made] /\ work' = [work EXCEPT ![v] = "created"]
        /\ UNCHANGED appVars
    BY <1>1 DEF ServerCreate, ServiceDoes
  <2> HIDE DEF made
  <2>4. TypeOK'
    BY <1>0, <2>2, <2>3 DEF TypeOK, appVars, Work
  <2>5. \A r \in Record : Fits(r) => Fits(r)'
    BY <1>0, <2>1, <2>3 DEF TypeOK, Fits, NamesProduct, Record
  <2>6. Fit(current, history)' /\ Fit(disk.current, disk.history)'
    BY <1>0, <2>3, <2>5 DEF AppInv, Fit, TypeOK, appVars
  <2>7. \A d \in Callers : CallFits(d)'
    <3> SUFFICES ASSUME NEW d \in Callers PROVE CallFits(d)'
      OBVIOUS
    <3>1. CASE d = v
      BY <1>0, <2>1, <2>2, <2>3, <3>1 DEF TypeOK, CallFits, appVars
    <3>2. CASE d # v
      <4>1. call' = call /\ work'[d] = work[d] /\ (d \in Views => order'[d] = order[d])
        BY <1>0, <2>3, <3>2 DEF TypeOK, appVars
      <4>2. \A t \in Views : order[t].status # "ABSENT" => order'[t].status # "ABSENT"
        BY <1>0, <2>1, <2>3 DEF TypeOK
      <4>3. QED
        BY <4>1, <4>2 DEF AppInv, CallFits
    <3>3. QED
      BY <3>1, <3>2
  <2>8. QED
    BY <2>3, <2>4, <2>6, <2>7
       DEF AppInv, Running, ResultShowsTransaction, CardBehindPayment, appVars
<1>2. ASSUME NEW v \in Views, ServerLoad(v) PROVE AppInv'
  BY <1>0, <1>2, ServiceKept DEF ServerLoad, TypeOK, Work
<1>3. ASSUME NEW v \in Views, NEW s \in Finished, ServerSettle(v, s) PROVE AppInv'
  <2>1. call[v].txn \in Views /\ order[call[v].txn].status # "ABSENT"
    BY <1>0, <1>3 DEF ServerSettle, AppInv, CallFits
  <2> DEFINE o == order[call[v].txn]
  <2>2. o \in Order /\ o.status # "ABSENT"
    BY <1>0, <2>1 DEF TypeOK
  <2>3. /\ order' = [order EXCEPT ![call[v].txn] = [o EXCEPT !.status = s]]
        /\ ServiceDoes(v, s)
    BY <1>0, <1>3, <2>1 DEF ServerSettle, TypeOK
  <2>4. LET n == [o EXCEPT !.status = s] IN
          /\ n \in Order /\ n.status # "ABSENT" /\ n.product = o.product /\ n.qty = o.qty
    BY <2>2 DEF Order, Status, Finished
  <2>5. /\ order' \in [Views -> Order]
        /\ \A t \in Views : /\ order'[t].status = "ABSENT" <=> order[t].status = "ABSENT"
                            /\ order'[t].product = order[t].product
                            /\ order'[t].qty = order[t].qty
    BY <1>0, <2>1, <2>2, <2>3, <2>4 DEF TypeOK
  <2>6. QED
    BY <1>0, <2>3, <2>5, ServiceKept DEF Work, Status, Finished
<1>4. ASSUME NEW c \in Callers, ServerStatus(c) PROVE AppInv'
  <2>1. call[c].txn \in Views /\ order[call[c].txn].status # "ABSENT"
    BY <1>4 DEF ServerStatus, Waiting, AppInv, CallFits
  <2>2. order[call[c].txn].status \in Status
    BY <1>0, <2>1 DEF TypeOK, Order
  <2>3. QED
    BY <1>0, <1>4, <2>2, ServiceKept DEF ServerStatus, TypeOK, Work, Status, Finished
<1>5. QED
  BY <1>1, <1>2, <1>3, <1>4 DEF Service
--------------------------------------------------------------------------------
(* The theorems                                                             *)

\* At first there is nothing: no record, no call, no order.
LEMMA InitHolds == Init => AppInv
<1> SUFFICES ASSUME Init PROVE AppInv
  OBVIOUS
<1> USE DEF Init
<1>1. NoCall \in Call /\ NoOrder \in Order /\ EmptyCart \in Cart
  BY DEF NoCall, Call, NoOrder, Order, EmptyCart, Cart
<1>2. NoProducts \in [items: SUBSET Products, fetches: Nat,
                     status: {"idle", "loading", "succeeded", "failed"}]
  BY DEF NoProducts
<1>3. TypeOK
  <2>1. /\ stack \in Seq(Products \union {"Splash", "Home", "Checkout", "History"})
        /\ history \in Seq(Record)
    OBVIOUS
  <2>2. disk \in [cart: Cart, current: Record \union {None}, history: Seq(Record)]
    BY <1>1 DEF Snapshot
  <2>3. host \in [Views -> Nat] /\ call \in [Callers -> Call] /\ order \in [Views -> Order]
        /\ work \in [Callers -> Work]
    BY <1>1 DEF Work
  <2>4. step \in Steps /\ card \in BOOLEAN /\ cart \in Cart /\ current \in Record \union {None}
    BY <1>1 DEF Steps
  <2>5. QED
    BY <1>2, <2>1, <2>2, <2>3, <2>4 DEF TypeOK
<1>4. Fit(current, history) /\ Fit(disk.current, disk.history)
  BY DEF Fit, Snapshot
<1>5. \A c \in Callers : CallFits(c)
  BY DEF CallFits, NoCall, NoOrder
<1>6. QED
  BY <1>3, <1>4, <1>5 DEF AppInv, Running, ResultShowsTransaction, CardBehindPayment

\* A step that changes nothing keeps the invariant.
LEMMA StutterStep == AppInv /\ UNCHANGED vars => AppInv'
<1> SUFFICES ASSUME AppInv, UNCHANGED vars PROVE AppInv'
  OBVIOUS
<1> USE DEF vars, appVars
<1>1. TypeOK'
  BY DEF AppInv, TypeOK
<1>2. Fit(current, history)' /\ Fit(disk.current, disk.history)'
  BY DEF AppInv, Fit, Fits, NamesProduct
<1>3. \A c \in Callers : CallFits(c)'
  BY DEF AppInv, CallFits
<1>4. QED
  BY <1>1, <1>2, <1>3 DEF AppInv, Running, ResultShowsTransaction, CardBehindPayment

\* No event of the app and no step of the service breaks the invariant.
LEMMA NextHolds == AppInv /\ [Next]_vars => AppInv'
  BY ScreensStep, SheetStep, CallStep, PersistStep, RelaunchStep, ServiceStep, StutterStep
     DEF Next, App

\* Records, calls and orders fit together at every moment, with any number of
\* payment views mounted on any stack of screens, answers late or lost, and any
\* number of kills and new starts.
THEOREM AppInvariance == Spec => []AppInv
<1>1. QED
  BY InitHolds, NextHolds, PTL DEF Spec

\* Types: every record on screen, in the history or on disk is of an order.
THEOREM AppTypes == Spec => []TypeOK
<1>1. AppInv => TypeOK
  BY DEF AppInv
<1>2. QED
  BY <1>1, AppInvariance, PTL

\* Every receipt that names a product names what its order is for.
THEOREM ReceiptsNameOrders == Spec => []ReceiptNamesOrder
<1>1. AppInv => ReceiptNamesOrder
  <2> SUFFICES ASSUME AppInv, NEW r \in Records, NamesProduct(r)
               PROVE  r.product = order[r.id].product /\ r.qty = order[r.id].qty
    BY DEF ReceiptNamesOrder
  <2>1. Fits(r)
    BY DEF Records, AppInv, Fit
  <2>2. QED
    BY <2>1 DEF Fits
<1>2. QED
  BY <1>1, AppInvariance, PTL

\* The receipt step never comes up without a transaction.
THEOREM ResultAlwaysShows == Spec => []ResultShowsTransaction
<1>1. AppInv => ResultShowsTransaction
  BY DEF AppInv
<1>2. QED
  BY <1>1, AppInvariance, PTL

\* Nobody stands before Pay with an emptied card draft.
THEOREM CardIsBehindPayment == Spec => []CardBehindPayment
<1>1. AppInv => CardBehindPayment
  BY DEF AppInv
<1>2. QED
  BY <1>1, AppInvariance, PTL
--------------------------------------------------------------------------------
(* What was written to disk                                                  *)

\* The recent entries of a history go in front, so what was a suffix stays one.
LEMMA SuffixGrows ==
  ASSUME NEW S, NEW h \in Seq(S), NEW d \in Seq(S), NEW x \in S, IsSuffix(d, h)
  PROVE  IsSuffix(d, <<x>> \o h)
<1> DEFINE g == <<x>> \o h
<1>1. /\ g \in Seq(S) /\ Len(g) = Len(h) + 1
      /\ \A i \in 1..Len(h) : g[i + 1] = h[i]
  OBVIOUS
<1> HIDE DEF g
<1>2. \A s \in Seq(S) : /\ Reverse(s) \in Seq(S) /\ Len(Reverse(s)) = Len(s)
                        /\ \A i \in 1..Len(s) : Reverse(s)[i] = s[Len(s) - i + 1]
  BY DEF Reverse
<1>3. \A s, t \in Seq(S) :
        IsPrefix(s, t) <=> Len(s) <= Len(t) /\ \A i \in 1..Len(s) : s[i] = t[i]
  BY DEF IsPrefix
<1>4. /\ Len(d) <= Len(h)
      /\ \A i \in 1..Len(d) : Reverse(d)[i] = Reverse(h)[i]
  BY <1>2, <1>3 DEF IsSuffix
<1>5. \A i \in 1..Len(d) : Reverse(g)[i] = Reverse(h)[i]
  <2> SUFFICES ASSUME NEW i \in 1..Len(d) PROVE Reverse(g)[i] = Reverse(h)[i]
    OBVIOUS
  <2> DEFINE j == Len(h) - i + 1
  <2>1. j \in 1..Len(h) /\ Len(g) - i + 1 = j + 1 /\ i \in 1..Len(h) /\ i \in 1..Len(g)
    BY <1>1, <1>4
  <2>2. Reverse(g)[i] = g[Len(g) - i + 1] /\ Reverse(h)[i] = h[Len(h) - i + 1]
    BY <1>1, <1>2, <2>1
  <2>3. QED
    BY <1>1, <2>1, <2>2
<1>6. Len(d) <= Len(g)
  BY <1>1, <1>4
<1>7. QED
  BY <1>1, <1>2, <1>3, <1>4, <1>5, <1>6 DEF IsSuffix, g

\* An event puts the current record in front of the history or leaves it alone,
\* and only writes the disk from memory, or memory from the disk.
LEMMA DiskStep == AppInv /\ DiskIsPast /\ [Next]_vars => DiskIsPast'
<1> SUFFICES ASSUME AppInv, DiskIsPast, [Next]_vars PROVE DiskIsPast'
  OBVIOUS
<1>0. history \in Seq(Record) /\ disk.history \in Seq(Record)
      /\ current \in Record \union {None}
  BY DEF AppInv, TypeOK
<1>1. CASE disk' = disk /\ history' = history
  BY <1>1 DEF DiskIsPast
<1>2. CASE disk' = disk /\ archiveCurrentTransaction
  <2>1. CASE current = None
    BY <1>2, <2>1 DEF archiveCurrentTransaction, DiskIsPast
  <2>2. CASE current # None
    BY <1>0, <1>2, <2>2, SuffixGrows DEF archiveCurrentTransaction, DiskIsPast
  <2>3. QED
    BY <2>1, <2>2
<1>3. CASE disk'.history = history'
  <2>1. history' \in Seq(Record)
    BY NextHolds DEF AppInv, TypeOK
  <2>2. \A h \in Seq(Record) : IsSuffix(h, h)
    BY DEF IsSuffix, IsPrefix, Reverse
  <2>3. QED
    BY <1>3, <2>1, <2>2 DEF DiskIsPast
<1>4. CASE Screens
  BY <1>1, <1>4 DEF Screens, EnterHome, RetryFetch, ListFails, OpenProduct, OpenCart,
                    OpenHistory, OpenScreen, Back, AddToCart
<1>5. CASE Sheet
  BY <1>1, <1>2, <1>5 DEF Sheet, PayWithCard, TypeCard, SubmitCard, EditCard, PressPay,
                          GoTo, CloseSheet, TryAgain, BackToHome
<1>6. CASE Persist
  BY <1>3, <1>6 DEF Persist, Snapshot
<1>7. CASE \E found \in SUBSET Products : ListAnswered(found)
  BY <1>1, <1>7 DEF ListAnswered
<1>8. CASE \E c \in Callers : CallEnds(c)
  BY <1>1, <1>8 DEF CallEnds, CreateAnswered, PayAnswered, PayTurnedAway, StatusAnswered,
                    CallFails, Ends
<1>9. CASE \E l \in Launches : Relaunch(l)
  BY <1>3, <1>9 DEF Relaunch
<1>10. CASE Service
  BY <1>1, <1>10 DEF Service, ServerCreate, ServerLoad, ServerSettle, ServerStatus,
                     ServiceDoes, appVars
<1>11. CASE UNCHANGED vars
  BY <1>1, <1>11 DEF vars, appVars
<1>12. QED
  BY <1>4, <1>5, <1>6, <1>7, <1>8, <1>9, <1>10, <1>11 DEF Next, App

\* What is on disk is a past of what is in memory, through every kill, start and
\* late write: a kill loses only the latest entries of the history.
THEOREM DiskStaysBehind == Spec => []DiskIsPast
<1>1. Init => DiskIsPast
  BY DEF Init, Snapshot, DiskIsPast, IsSuffix, IsPrefix, Reverse
<1>2. QED
  BY <1>1, DiskStep, AppInvariance, PTL DEF Spec
--------------------------------------------------------------------------------
(* What an event makes of a call                                            *)

SameRequest(c) ==
  /\ call'[c].kind = call[c].kind /\ call'[c].txn = call[c].txn
  /\ call'[c].product = call[c].product /\ call'[c].qty = call[c].qty
FirstRequest(c) ==
  /\ c \in Views /\ call[c].kind = "none" /\ call'[c] = FirstCall'
  /\ step' = "processing" /\ CartProductListed'
NextRequest(c) ==
  /\ c \in Views
  /\ \/ /\ Waiting(c, "create") /\ work[c] = "created"
        /\ call'[c].kind = "pay" /\ call'[c].txn = c
     \/ /\ Waiting(c, "pay") /\ work[c] = "processed"
        /\ call'[c].kind = "status" /\ call'[c].txn = call[c].txn
LaunchRequest(c) == /\ c \in Launches \ launched /\ launched' = launched \union {c}
                    /\ call'[c].kind = "status"
Moves(c) == SameRequest(c) \/ FirstRequest(c) \/ NextRequest(c) \/ LaunchRequest(c)

\* React's reconciliation adds the first calls of new payment views, which are
\* there only at "processing" and with the cart's product on the list.
LEMMA RenderMoves ==
  ASSUME NEW calls, SameCalls(calls), Render(calls)
  PROVE  \A c \in Callers : SameRequest(c) \/ FirstRequest(c)
<1>1. PICK f \in [Hosts' \ {host[v] : v \in Views} -> Unused] :
        LET new == {f[i] : i \in DOMAIN f} IN
          call' = [c \in Callers |-> IF c \in new THEN FirstCall' ELSE calls[c]]
  BY DEF Render
<1> DEFINE new == {f[i] : i \in DOMAIN f}
<1>2. \A c \in new : /\ c \in Views /\ call[c].kind = "none"
                     /\ step' = "processing" /\ CartProductListed'
  BY DEF Unused, Hosts
<1>3. \A c \in Callers : call'[c] = IF c \in new THEN FirstCall' ELSE calls[c]
  BY <1>1
<1> HIDE DEF new
<1>4. QED
  BY <1>2, <1>3 DEF SameRequest, FirstRequest, SameCalls

\* The run of a payment view sends its next call only when the last one was
\* answered, and it never goes back.
LEMMA SendsMoves ==
  ASSUME NEW c \in Callers, NEW kind, NEW t, CallType, Sends(c, kind, t)
  PROVE  /\ call'[c].kind = kind /\ call'[c].txn = t
         /\ \A d \in Callers \ {c} : SameRequest(d)
  BY DEF Sends, CallType, NoCall, SameRequest

\* An event of the app leaves a call what it was, or makes it the next one of its run.
LEMMA CallsMove == AppInv /\ App => \A c \in Callers : Moves(c)
<1> SUFFICES ASSUME AppInv, App PROVE \A c \in Callers : Moves(c)
  OBVIOUS
<1>0. TypeOK /\ CallType
  BY TypeParts DEF AppInv
<1>1. ASSUME Render(call) PROVE \A c \in Callers : Moves(c)
  BY <1>1, RenderMoves DEF SameCalls, Moves
<1>2. ASSUME NEW c \in Callers, Render(Over(c)) PROVE \A d \in Callers : Moves(d)
  BY <1>0, <1>2, RenderMoves, OverSame DEF Moves
<1>3. ASSUME call' = call PROVE \A c \in Callers : Moves(c)
  BY <1>3 DEF Moves, SameRequest
<1>4. CASE Screens \/ \E found \in SUBSET Products : ListAnswered(found)
  BY <1>1, <1>4 DEF Screens, EnterHome, RetryFetch, ListFails, ListAnswered, OpenProduct,
                    OpenCart, OpenHistory, OpenScreen, Back, AddToCart
<1>5. CASE Sheet
  BY <1>1, <1>3, <1>5 DEF Sheet, PayWithCard, TypeCard, SubmitCard, EditCard, PressPay,
                          GoTo, CloseSheet, TryAgain, BackToHome
<1>6. CASE Persist
  BY <1>3, <1>6 DEF Persist
<1>7. ASSUME NEW c \in Callers, CallEnds(c) PROVE \A d \in Callers : Moves(d)
  <2>1. CASE c \in Views /\ CreateAnswered(c)
    <3>1. /\ Waiting(c, "create") /\ work[c] = "created" /\ Sends(c, "pay", c)
      BY <2>1 DEF CreateAnswered
    <3>2. NextRequest(c) /\ \A d \in Callers \ {c} : SameRequest(d)
      BY <1>0, <2>1, <3>1, SendsMoves DEF NextRequest
    <3>3. QED
      BY <3>2 DEF Moves
  <2>2. CASE Waiting(c, "pay") /\ work[c] = "processed" /\ c \in Views
             /\ Sends(c, "status", call[c].txn)
    <3>1. NextRequest(c) /\ \A d \in Callers \ {c} : SameRequest(d)
      BY <1>0, <2>2, SendsMoves DEF NextRequest
    <3>2. QED
      BY <3>1 DEF Moves
  <2>3. CASE \E to : Ends(c, to)
    BY <1>2, <2>3 DEF Ends
  <2>4. QED
    BY <1>7, <2>1, <2>2, <2>3 DEF CallEnds, PayAnswered, PayTurnedAway, StatusAnswered,
                                  CallFails
<1>8. ASSUME NEW l \in Launches, Relaunch(l) PROVE \A c \in Callers : Moves(c)
  <2> SUFFICES ASSUME NEW c \in Callers PROVE Moves(c)
    OBVIOUS
  <2> DEFINE asks == disk.current # None /\ disk.current.status = "PENDING"
  <2>1. call' = [d \in Callers |->
          IF d = l /\ asks
          THEN [NoCall EXCEPT !.kind = "status", !.live = TRUE, !.txn = disk.current.id]
          ELSE [call[d] EXCEPT !.live = FALSE]]
    BY <1>8 DEF Relaunch
  <2>2. CASE c = l /\ asks
    <3>1. l \notin launched /\ launched' = launched \union {l}
      BY <1>8 DEF Relaunch
    <3>2. QED
      BY <2>1, <2>2, <3>1 DEF NoCall, Moves, LaunchRequest
  <2>3. CASE ~ (c = l /\ asks)
    <3>1. call'[c] = [call[c] EXCEPT !.live = FALSE] /\ call[c] \in Call
      BY <1>0, <2>1, <2>3 DEF CallType
    <3>2. QED
      BY <3>1 DEF Call, Moves, SameRequest
  <2>4. QED
    BY <2>2, <2>3
<1>9. QED
  BY <1>4, <1>5, <1>6, <1>7, <1>8 DEF App
\* A call goes on, and the next one of a run is one that goes on.
Lives(c) == call[c].live \/ call'[c].kind # call[c].kind => call'[c].live

\* React's reconciliation ends no call.
LEMMA RenderLives ==
  ASSUME NEW calls, Render(calls), NEW c \in Callers, calls[c] = call[c]
  PROVE  Lives(c)
<1>1. PICK f \in [Hosts' \ {host[v] : v \in Views} -> Unused] :
        LET new == {f[i] : i \in DOMAIN f} IN
          call' = [d \in Callers |-> IF d \in new THEN FirstCall' ELSE calls[d]]
  BY DEF Render
<1>2. call'[c] = call[c] \/ call'[c] = FirstCall'
  BY <1>1
<1>3. FirstCall'.live
  BY DEF FirstCall, NoCall
<1>4. QED
  BY <1>2, <1>3 DEF Lives

\* A press, the list's answer or a write to the disk ends no call; the end of a call
\* ends no other; and neither is a new start.
LEMMA CallsGoOn ==
  /\ AppInv /\ (Screens \/ Sheet \/ Persist \/ \E found \in SUBSET Products : ListAnswered(found))
       => UNCHANGED launched /\ \A c \in Callers : Lives(c)
  /\ \A c \in Callers : AppInv /\ CallEnds(c) =>
       /\ UNCHANGED launched
       /\ \A d \in Callers \ {c} : Lives(d)
       /\ Lives(c) \/ call'[c].kind = call[c].kind
<1>1. ASSUME Render(call) PROVE \A c \in Callers : Lives(c)
  BY <1>1, RenderLives
<1>2. ASSUME call' = call PROVE \A c \in Callers : Lives(c)
  BY <1>2 DEF Lives
<1>3. Screens \/ (\E found \in SUBSET Products : ListAnswered(found)) =>
        UNCHANGED launched /\ Render(call)
  BY DEF Screens, EnterHome, RetryFetch, ListFails, ListAnswered, OpenProduct,
         OpenCart, OpenHistory, OpenScreen, Back, AddToCart
<1>4. Sheet \/ Persist => UNCHANGED launched /\ (Render(call) \/ call' = call)
  BY DEF Sheet, PayWithCard, TypeCard, SubmitCard, EditCard, PressPay, GoTo, CloseSheet,
         TryAgain, BackToHome, Persist
<1>5. ASSUME NEW c \in Callers, AppInv, CallEnds(c)
      PROVE  /\ UNCHANGED launched
             /\ \A d \in Callers \ {c} : Lives(d)
             /\ Lives(c) \/ call'[c].kind = call[c].kind
  <2>0. CallType
    BY <1>5, TypeParts DEF AppInv
  <2>1. UNCHANGED launched
    BY <1>5 DEF CallEnds, CreateAnswered, PayAnswered, PayTurnedAway, StatusAnswered,
                CallFails, Ends
  <2>2. ASSUME Render(Over(c))
        PROVE  /\ \A d \in Callers \ {c} : Lives(d)
               /\ Lives(c) \/ call'[c].kind = call[c].kind
    <3>1. \A d \in Callers \ {c} : Over(c)[d] = call[d]
      BY <2>0 DEF Over, CallType
    <3>2. SameRequest(c) \/ FirstRequest(c)
      BY <2>0, <2>2, RenderMoves, OverSame
    <3>3. FirstRequest(c) => call'[c].live
      BY DEF FirstRequest, FirstCall, NoCall
    <3>4. QED
      BY <2>2, <3>1, <3>2, <3>3, RenderLives DEF SameRequest, Lives
  <2>3. ASSUME NEW kind, NEW t, Sends(c, kind, t)
        PROVE  \A d \in Callers : Lives(d)
    <3>1. call'[c].live /\ \A d \in Callers \ {c} : call'[d] = call[d]
      BY <2>0, <2>3 DEF Sends, CallType, NoCall
    <3>2. QED
      BY <3>1 DEF Lives
  <2>4. QED
    BY <1>5, <2>1, <2>2, <2>3 DEF CallEnds, CreateAnswered, PayAnswered, PayTurnedAway,
         StatusAnswered, CallFails, Ends
<1>6. QED
  BY <1>1, <1>2, <1>3, <1>4, <1>5

\* Launches that have happened are not undone.
LEMMA LaunchedStays == App => launched \subseteq launched'
  BY DEF App, Screens, EnterHome, RetryFetch, ListFails, ListAnswered, OpenProduct,
         OpenCart, OpenHistory, OpenScreen, Back, AddToCart, Sheet, PayWithCard, TypeCard,
         SubmitCard, EditCard, PressPay, GoTo, CloseSheet, TryAgain, BackToHome, Persist,
         CallEnds, CreateAnswered, PayAnswered, PayTurnedAway, StatusAnswered, CallFails,
         Ends, Relaunch
--------------------------------------------------------------------------------
(* What the app asks for                                                    *)

\* No event puts anything in the cart but what was listed and chosen.
LEMMA CartStep ==
  AppInv /\ AsksForGoods /\ Next => InCart(cart)' /\ InCart(disk.cart)'
<1> SUFFICES ASSUME AppInv, AsksForGoods, Next PROVE InCart(cart)' /\ InCart(disk.cart)'
  OBVIOUS
<1>0. TypeOK /\ InCart(cart) /\ InCart(disk.cart)
  BY DEF AppInv, AsksForGoods
<1> USE DEF InCart, EmptyCart
<1>1. CASE disk' = disk /\ cart' = cart
  BY <1>0, <1>1
<1>2. CASE disk' = disk /\ clearCart
  BY <1>0, <1>2 DEF clearCart
<1>3. ASSUME NEW q \in Quantities, AddToCart(q) PROVE InCart(cart)' /\ InCart(disk.cart)'
  <2>1. Top \in Products /\ cart' = [product |-> Top, qty |-> q] /\ disk' = disk
    BY <1>0, <1>3 DEF AddToCart, selectProduct, TypeOK
  <2>2. QED
    BY <1>0, <2>1
<1>4. CASE Screens \/ \E found \in SUBSET Products : ListAnswered(found)
  BY <1>1, <1>3, <1>4 DEF Screens, EnterHome, RetryFetch, ListFails, ListAnswered,
                          OpenProduct, OpenCart, OpenHistory, OpenScreen, Back
<1>5. CASE Sheet
  BY <1>1, <1>2, <1>5 DEF Sheet, PayWithCard, TypeCard, SubmitCard, EditCard, PressPay,
                          GoTo, CloseSheet, TryAgain, BackToHome
<1>6. CASE Persist
  BY <1>0, <1>6 DEF Persist, Snapshot
<1>7. CASE \E c \in Callers : CallEnds(c)
  BY <1>1, <1>7 DEF CallEnds, CreateAnswered, PayAnswered, PayTurnedAway, StatusAnswered,
                    CallFails, Ends
<1>8. CASE \E l \in Launches : Relaunch(l)
  BY <1>0, <1>8 DEF Relaunch
<1>9. CASE Service
  BY <1>1, <1>9 DEF Service, ServerCreate, ServerLoad, ServerSettle, ServerStatus,
                    ServiceDoes, appVars
<1>10. QED
  BY <1>4, <1>5, <1>6, <1>7, <1>8, <1>9 DEF Next, App

\* So a new create request names goods, and an old one still does.
LEMMA GoodsAsked == AppInv /\ AsksForGoods /\ [Next]_vars => AsksForGoods'
<1> SUFFICES ASSUME AppInv, AsksForGoods, [Next]_vars PROVE AsksForGoods'
  OBVIOUS
<1>1. CASE UNCHANGED vars
  BY <1>1 DEF vars, appVars, AsksForGoods, InCart, EmptyCart
<1>2. CASE Next
  <2>1. InCart(cart)' /\ InCart(disk.cart)' /\ AppInv'
    BY <1>2, CartStep, NextHolds
  <2>2. \A c \in Callers : Moves(c)
    <3>1. CASE App
      BY <3>1, CallsMove
    <3>2. CASE Service
      BY <3>2 DEF Service, ServerCreate, ServerLoad, ServerSettle, ServerStatus,
                  ServiceDoes, appVars, Moves, SameRequest
    <3>3. QED
      BY <1>2, <3>1, <3>2 DEF Next
  <2>3. ASSUME NEW c \in Callers, call'[c].kind = "create"
        PROVE  call'[c].product \in Products /\ call'[c].qty \in Quantities
    <3>1. CASE FirstRequest(c)
      <4>1. FirstCall'.kind = "create"
        BY <2>3, <3>1 DEF FirstRequest
      <4>2. FirstCall'.product = cart'.product /\ FirstCall'.qty = cart'.qty
        BY <4>1 DEF FirstCall, NoCall
      <4>3. cart'.product \in Products
        BY <2>1, <3>1 DEF FirstRequest, CartProductListed, AppInv, TypeOK
      <4>4. cart'.product # None
        BY <4>3, AppAssumption DEF AppAssumption
      <4>5. cart'.qty \in Quantities
        BY <2>1, <4>4 DEF InCart, EmptyCart
      <4>6. QED
        BY <3>1, <4>2, <4>3, <4>5 DEF FirstRequest
    <3>2. CASE SameRequest(c)
      BY <2>3, <3>2 DEF SameRequest, AsksForGoods
    <3>3. QED
      BY <2>2, <2>3, <3>1, <3>2 DEF Moves, NextRequest, LaunchRequest
  <2>4. QED
    BY <2>1, <2>3 DEF AsksForGoods
<1>3. QED
  BY <1>1, <1>2

\* At first the cart is empty and nothing has been asked.
LEMMA GoodsInit == Init => AsksForGoods
  BY DEF Init, Snapshot, AsksForGoods, InCart, NoCall

\* Every create request the app ever sends names a product that was listed and a
\* quantity of the stepper, also from a cart that came back from the disk while the
\* list was fetched anew.
THEOREM AppAsksForGoods == Spec => []AsksForGoods
<1>1. QED
  BY GoodsInit, GoodsAsked, AppInvariance, PTL DEF Spec
--------------------------------------------------------------------------------
(* The app that is never killed, with version 6's navigate('Home')          *)

\* While the sheet has a step it is on the screen.
LEMMA SheetUp ==
  CalmScreens /\ step # "idle" =>
    /\ Top = "Checkout" /\ SheetShown /\ CheckoutScreens = {2}
    /\ products.status = "succeeded" /\ ~ (products.fetches > 0)
<1> SUFFICES ASSUME CalmScreens, step # "idle"
             PROVE  /\ Top = "Checkout" /\ SheetShown /\ CheckoutScreens = {2}
                    /\ products.status = "succeeded" /\ ~ (products.fetches > 0)
  OBVIOUS
<1>1. stack = <<"Home", "Checkout">> /\ CartProductListed
  BY DEF CalmScreens
<1>2. CheckoutScreens = {2}
  BY <1>1 DEF CheckoutScreens
<1>3. products.status = "succeeded"
  BY DEF CalmScreens
<1>4. ~ (products.fetches > 0)
  BY <1>3 DEF CalmScreens
<1>5. QED
  BY <1>1, <1>2, <1>3, <1>4 DEF Top, SheetShown

\* Without a payment step nothing is under way.
LEMMA NobodyRuns ==
  AppInv /\ CalmViews /\ step # "processing" =>
    (\A c \in Callers : ~ call[c].live) /\ (\A v \in Views : host[v] = 0)
  BY DEF AppInv, CalmViews, Running

\* After an event that leads to no payment step the reconciliation mounts nothing
\* and unmounts what there is.
LEMMA RendersNothing ==
  ASSUME NEW calls, CallType, Render(calls), step' # "processing"
  PROVE  /\ \A v \in Views : host'[v] = 0
         /\ \A c \in Callers : call'[c] = calls[c] /\ work'[c] = work[c]
<1>1. PICK f \in [Hosts' \ {host[v] : v \in Views} -> Unused] :
        /\ host' = [v \in Views |->
             IF \E i \in DOMAIN f : f[i] = v THEN CHOOSE i \in DOMAIN f : f[i] = v
             ELSE IF host[v] \in Hosts' THEN host[v] ELSE 0]
        /\ LET new == {f[i] : i \in DOMAIN f} IN
           /\ call' = [c \in Callers |-> IF c \in new THEN FirstCall' ELSE calls[c]]
           /\ work' = [c \in Callers |-> IF c \in new THEN "sent" ELSE work[c]]
  BY DEF Render
<1>2. Hosts' = {}
  BY DEF Hosts
<1>3. DOMAIN f = {}
  BY <1>2
<1>4. QED
  BY <1>1, <1>2, <1>3

\* The records an event takes over, by the id and the outcome they have.
KeepsRecords ==
  /\ \A r \in Records : \E s \in Records' : s.id = r.id
  /\ \A r \in Records' : r.status \in Finished =>
       \/ r \in Records
       \/ \E c \in Callers : /\ call[c].kind \in {"pay", "status"}
                             /\ call[c].txn = r.id /\ work[c] = r.status

\* An event that leaves no call under way keeps the invariant.
LEMMA QuietKept ==
  ASSUME NEW calls, AppInv, CalmInv, Calm, SameCalls(calls), Render(calls),
         \A c \in Callers : ~ calls[c].live,
         step' # "processing", order' = order, CalmScreens',
         current' # None /\ step' # "result" => current'.status = "PENDING",
         ResultIsFinal', KeepsRecords
  PROVE  CalmInv'
<1>1. CallType /\ CalmCalls /\ HonestReceipts /\ SettledIsKnown
  BY TypeParts DEF AppInv, CalmInv
<1>2. /\ \A v \in Views : host'[v] = 0
      /\ \A c \in Callers : call'[c] = calls[c] /\ work'[c] = work[c]
  BY <1>1, RendersNothing
<1>3. \A c \in Callers :
        /\ call'[c].kind = call[c].kind /\ call'[c].txn = call[c].txn
        /\ work'[c] = work[c] /\ ~ call'[c].live
  BY <1>2 DEF SameCalls
<1>4. CalmViews'
  BY <1>2, <1>3 DEF CalmViews, Running, NeverAbandoned
<1>5. CalmRecords'
  BY <1>3 DEF CalmRecords, Waiting
<1>6. CalmCalls'
  BY <1>1, <1>3 DEF CalmCalls, KeepsRecords
<1>7. HonestReceipts'
  BY <1>1, <1>3 DEF HonestReceipts, KeepsRecords
<1>8. SettledIsKnown'
  BY <1>1 DEF SettledIsKnown, KeepsRecords
<1>9. QED
  BY <1>4, <1>5, <1>6, <1>7, <1>8 DEF CalmInv

\* What touches no record keeps the records.
LEMMA RecordsStay == UNCHANGED <<current, history>> => KeepsRecords /\ Records' = Records
  BY DEF KeepsRecords, Records

\* Archiving moves a record from one place to the other.
LEMMA RecordsMove ==
  AppInv /\ archiveCurrentTransaction => Records' = Records /\ KeepsRecords
<1> SUFFICES ASSUME AppInv, archiveCurrentTransaction PROVE Records' = Records /\ KeepsRecords
  OBVIOUS
<1>1. Records' = Records
  <2>1. CASE current = None
    BY <2>1 DEF archiveCurrentTransaction, Records
  <2>2. CASE current # None
    <3>1. history \in Seq(Record) /\ current \in Record
      BY <2>2 DEF AppInv, TypeOK
    <3>2. history' = <<current>> \o history /\ current' = None
      BY <2>2 DEF archiveCurrentTransaction
    <3>3. /\ DOMAIN history = 1..Len(history) /\ DOMAIN history' = 1..(Len(history) + 1)
          /\ Len(history) \in Nat
          /\ history'[1] = current
          /\ \A i \in 1..Len(history) : history'[i + 1] = history[i]
      BY <3>1, <3>2
    <3>4. \A i \in DOMAIN history' : history'[i] \in {history[j] : j \in DOMAIN history} \union {current}
      <4> SUFFICES ASSUME NEW i \in DOMAIN history', i # 1
                   PROVE  history'[i] \in {history[j] : j \in DOMAIN history}
        BY <3>3
      <4>1. i - 1 \in 1..Len(history) /\ (i - 1) + 1 = i
        BY <3>3
      <4>2. QED
        BY <3>3, <4>1
    <3>5. \A j \in DOMAIN history : history[j] \in {history'[i] : i \in DOMAIN history'}
      <4> SUFFICES ASSUME NEW j \in DOMAIN history
                   PROVE  \E i \in DOMAIN history' : history'[i] = history[j]
        OBVIOUS
      <4>1. j + 1 \in DOMAIN history' /\ history'[j + 1] = history[j]
        BY <3>3
      <4>2. QED
        BY <4>1
    <3>6. current \in {history'[i] : i \in DOMAIN history'}
      BY <3>3
    <3>7. None \notin {history'[i] : i \in DOMAIN history'} /\ current # None
      BY <2>2, <3>1, <3>4, NoNullRecord
    <3> DEFINE before == {history[i] : i \in DOMAIN history}
               after  == {history'[i] : i \in DOMAIN history'}
    <3>8. Records = before \union ({current} \ {None}) /\ Records' = after \union ({current'} \ {None})
      BY DEF Records
    <3>9. after \subseteq before \union {current} /\ before \subseteq after /\ current \in after
      BY <3>4, <3>5, <3>6
    <3> HIDE DEF before, after
    <3>10. QED
      BY <3>2, <3>7, <3>8, <3>9
  <2>3. QED
    BY <2>1, <2>2
<1>2. QED
  BY <1>1 DEF KeepsRecords

\* A stack of one or two screens.
LEMMA Stacks ==
  ASSUME NEW s
  PROVE  /\ Len(<<"Home", s>>) = 2 /\ <<"Home", s>>[2] = s /\ Len(<<"Home">>) = 1
         /\ SubSeq(<<"Home", s>>, 1, 2 - 1) = <<"Home">>
         /\ Append(<<"Home">>, s) = <<"Home", s>>
<1>1. Len(<<"Home", s>>) = 2 /\ <<"Home", s>>[2] = s /\ Len(<<"Home">>) = 1
  OBVIOUS
<1> DEFINE S == {"Home", s}
           two == <<"Home", s>>
           one == <<"Home">>
<1>2. /\ two \in Seq(S) /\ one \in Seq(S) /\ Len(two) = 2 /\ Len(one) = 1
      /\ one[1] = "Home" /\ two[1] = "Home" /\ two[2] = s /\ s \in S
  OBVIOUS
<1> HIDE DEF S, two, one
<1>3. SubSeq(two, 1, 2 - 1) = one
  <2>1. \A i \in 1..1 : two[i] \in S
    BY <1>2
  <2>2. /\ SubSeq(two, 1, 1) \in Seq(S) /\ Len(SubSeq(two, 1, 1)) = 1
        /\ \A i \in 1..1 : SubSeq(two, 1, 1)[i] = two[1 + i - 1]
    BY <2>1, SubSeqProperties
  <2>3. SubSeq(two, 1, 1) = one
    BY <1>2, <2>2, SeqEqual
  <2>4. QED
    BY <2>3
<1>4. Append(one, s) = two
  <2>1. /\ Append(one, s) \in Seq(S)
        /\ Len(Append(one, s)) = Len(one) + 1
        /\ \A i \in 1..Len(one) : Append(one, s)[i] = one[i]
        /\ Append(one, s)[Len(one) + 1] = s
    <3>1. one \in Seq(S) /\ s \in S
      BY <1>2
    <3>2. QED
      BY <3>1, AppendProperties
  <2>2. \A i \in 1..Len(Append(one, s)) : Append(one, s)[i] = two[i]
    BY <1>2, <2>1
  <2>3. QED
    BY <1>2, <2>1, <2>2, SeqEqual
<1>5. QED
  BY <1>1, <1>3, <1>4 DEF one, two

\* The events of the screens: none comes while the sheet has a step, and none puts
\* a second screen above Home.
LEMMA CalmScreensStep ==
  /\ AppInv /\ CalmInv /\ Calm
  /\ Screens \/ \E found \in SUBSET Products : ListAnswered(found)
  => CalmInv'
<1> SUFFICES ASSUME AppInv, CalmInv, Calm,
                    Screens \/ \E found \in SUBSET Products : ListAnswered(found)
             PROVE  CalmInv'
  OBVIOUS
<1>0. /\ TypeOK /\ CalmScreens /\ CalmViews /\ CalmRecords
      /\ Products \intersect {"Splash", "Home", "Checkout", "History"} = {}
  BY AppAssumption DEF AppInv, CalmInv, AppAssumption
<1>1. ASSUME UNCHANGED <<step, current, history, order>>, Render(call), CalmScreens',
             step = "idle"
      PROVE  CalmInv'
  <2>1. \A c \in Callers : ~ call[c].live
    BY <1>0, <1>1, NobodyRuns
  <2>2. ResultIsFinal' /\ (current' # None /\ step' # "result" => current'.status = "PENDING")
    BY <1>0, <1>1 DEF CalmRecords, ResultIsFinal
  <2>3. SameCalls(call)
    BY DEF SameCalls
  <2>4. QED
    BY <1>1, <2>1, <2>2, <2>3, QuietKept, RecordsStay
<1>2. CASE EnterHome
  <2>1. step = "idle"
    BY <1>0, <1>2, SheetUp DEF EnterHome
  <2>2. stack = <<"Splash">> /\ stack' = <<"Home">>
    <3>1. stack[Len(stack)] = "Splash" /\ stack' = <<"Home">>
      BY <1>2 DEF EnterHome, Top
    <3>2. \A s \in Products \union {"Checkout", "History"} :
            stack = <<"Home", s>> => stack[Len(stack)] # "Splash"
      BY <1>0
    <3>3. stack = <<"Home">> => stack[Len(stack)] # "Splash"
      OBVIOUS
    <3> QED
      BY <1>0, <3>1, <3>2, <3>3 DEF CalmScreens
  <2>3. CalmScreens'
    BY <1>0, <1>2, <2>1, <2>2
       DEF EnterHome, FetchIfIdle, fetchProducts, CalmScreens, Top, TypeOK
  <2>4. QED
    BY <1>1, <1>2, <2>1, <2>3 DEF EnterHome
<1>3. CASE RetryFetch
  <2>1. step = "idle" /\ stack' = stack /\ Top = "Home"
    BY <1>0, <1>3, SheetUp DEF RetryFetch
  <2>2. CalmScreens'
    BY <1>0, <1>3, <2>1 DEF RetryFetch, fetchProducts, CalmScreens, Top, TypeOK
  <2>3. QED
    BY <1>1, <1>3, <2>1, <2>2 DEF RetryFetch
<1>4. CASE ListFails
  <2>1. step = "idle" /\ stack' = stack /\ products.fetches = 1
    BY <1>0, <1>4, SheetUp DEF ListFails, CalmScreens
  <2>2. CalmScreens'
    BY <1>0, <1>4, <2>1 DEF ListFails, CalmScreens, Top
  <2>3. QED
    BY <1>1, <1>4, <2>1, <2>2 DEF ListFails
<1>5. ASSUME NEW found \in SUBSET Products, ListAnswered(found) PROVE CalmInv'
  <2>1. step = "idle" /\ stack' = stack /\ products.fetches = 1
    BY <1>0, <1>5, SheetUp DEF ListAnswered, CalmScreens
  <2>2. CalmScreens'
    BY <1>0, <1>5, <2>1 DEF ListAnswered, CalmScreens, Top
  <2>3. QED
    BY <1>1, <1>5, <2>1, <2>2 DEF ListAnswered
<1>6. ASSUME NEW s \in Products \union {"Checkout", "History"}, OpenScreen(s),
             s \in Products => products.status = "succeeded"
      PROVE  CalmInv'
  <2>1. step = "idle" /\ Top = "Home"
    BY <1>0, <1>6, SheetUp DEF OpenScreen
  <2>2. stack = <<"Home">>
    <3>1. \A x \in Products \union {"Checkout", "History"} : x # "Home"
      BY <1>0
    <3>2. \A x \in Products \union {"Checkout", "History"} : stack = <<"Home", x>> => Top = x
      BY Stacks DEF Top
    <3>3. stack # <<"Splash">>
      BY <2>1 DEF Top
    <3>4. QED
      BY <1>0, <2>1, <3>1, <3>2, <3>3 DEF CalmScreens
  <2>3. stack' = <<"Home", s>>
    BY <1>6, <2>2, Stacks DEF OpenScreen
  <2>4. CalmScreens'
    BY <1>0, <1>6, <2>1, <2>3 DEF OpenScreen, CalmScreens, Top
  <2>5. QED
    BY <1>1, <1>6, <2>1, <2>4 DEF OpenScreen
<1>7. CASE Back
  <2>1. step = "idle"
    BY <1>0, <1>7, SheetUp DEF Back
  <2>2. PICK s \in Products \union {"Checkout", "History"} : stack = <<"Home", s>>
    BY <1>0, <1>7 DEF Back, CalmScreens
  <2>3. stack' = <<"Home">>
    <3>1. stack' = SubSeq(<<"Home", s>>, 1, 2 - 1)
      BY <1>7, <2>2, Stacks DEF Back
    <3>2. QED
      BY <3>1, Stacks
  <2>4. CalmScreens'
    <3>1. UNCHANGED <<products, cart, step>>
      BY <1>7 DEF Back
    <3>2. Top' = "Home"
      BY <2>3 DEF Top
    <3>3. QED
      BY <1>0, <2>1, <2>3, <3>1, <3>2 DEF CalmScreens
  <2>5. QED
    BY <1>1, <1>7, <2>1, <2>4 DEF Back
<1>8. ASSUME NEW q \in Quantities, AddToCart(q) PROVE CalmInv'
  <2>1. step = "idle" /\ Top \in Products
    BY <1>0, <1>8, SheetUp DEF AddToCart, TypeOK
  <2>2. products.status = "succeeded" /\ stack' = <<"Home">> /\ products' = products
    BY <1>0, <1>8, <2>1 DEF AddToCart, CalmScreens, NavigateHome, Calm
  <2>3. CalmScreens'
    BY <1>0, <1>8, <2>1, <2>2 DEF AddToCart, CalmScreens, Top
  <2>4. QED
    BY <1>1, <1>8, <2>1, <2>3 DEF AddToCart
<1>9. QED
  BY <1>0, <1>2, <1>3, <1>4, <1>5, <1>6, <1>7, <1>8
     DEF Screens, OpenProduct, ProductShown, OpenCart, OpenHistory

\* Pay mounts one payment view, on the one Checkout screen there is.
LEMMA Mounts ==
  ASSUME AppInv, CalmInv, Calm, PressPay
  PROVE  \E v \in Views :
           /\ call[v].kind = "none" /\ host'[v] = 2
           /\ \A w \in Views \ {v} : host'[w] = 0
           /\ call'[v] = FirstCall' /\ work'[v] = "sent"
           /\ \A c \in Callers \ {v} : call'[c] = call[c] /\ work'[c] = work[c]
<1>1. /\ step = "summary" /\ step' = "processing" /\ Render(call)
      /\ UNCHANGED <<stack, products, cart>>
  BY DEF PressPay, GoTo
<1>2. CheckoutScreens = {2} /\ CartProductListed
  BY <1>1, SheetUp DEF CalmInv, CalmScreens
<1>3. Hosts' = {2}
  BY <1>1, <1>2 DEF Hosts, CheckoutScreens, CartProductListed
<1>4. \A v \in Views : host[v] = 0
  BY <1>1, NobodyRuns DEF CalmInv
<1> DEFINE fresh == Hosts' \ {host[v] : v \in Views}
<1>5. fresh = {2}
  BY <1>3, <1>4
<1>6. PICK f \in [{2} -> Unused] :
        /\ host' = [v \in Views |->
             IF \E i \in DOMAIN f : f[i] = v THEN CHOOSE i \in DOMAIN f : f[i] = v
             ELSE IF host[v] \in Hosts' THEN host[v] ELSE 0]
        /\ LET new == {f[i] : i \in DOMAIN f} IN
           /\ call' = [c \in Callers |-> IF c \in new THEN FirstCall' ELSE call[c]]
           /\ work' = [c \in Callers |-> IF c \in new THEN "sent" ELSE work[c]]
  <2> DEFINE Shows(f) ==
        /\ host' = [v \in Views |->
             IF \E i \in DOMAIN f : f[i] = v THEN CHOOSE i \in DOMAIN f : f[i] = v
             ELSE IF host[v] \in Hosts' THEN host[v] ELSE 0]
        /\ LET new == {f[i] : i \in DOMAIN f} IN
           /\ call' = [c \in Callers |-> IF c \in new THEN FirstCall' ELSE call[c]]
           /\ work' = [c \in Callers |-> IF c \in new THEN "sent" ELSE work[c]]
  <2>1. \E f \in [fresh -> Unused] : Shows(f)
    BY <1>1 DEF Render
  <2> HIDE DEF Shows, fresh
  <2>2. \E f \in [{2} -> Unused] : Shows(f)
    BY <1>5, <2>1
  <2> QED
    BY <2>2 DEF Shows
<1> HIDE DEF fresh
<1> DEFINE v == f[2]
<1>7. v \in Views /\ v \in Callers /\ call[v].kind = "none"
  BY DEF Unused, Callers
<1>8. {f[i] : i \in DOMAIN f} = {v} /\ DOMAIN f = {2}
  OBVIOUS
<1>9. host'[v] = 2
  <2>1. \E i \in DOMAIN f : f[i] = v
    BY <1>8
  <2>2. host'[v] = CHOOSE i \in DOMAIN f : f[i] = v
    BY <1>6, <1>7, <2>1
  <2>3. QED
    BY <1>8, <2>1, <2>2
<1>10. \A w \in Views \ {v} : host'[w] = 0
  <2> SUFFICES ASSUME NEW w \in Views \ {v} PROVE host'[w] = 0
    OBVIOUS
  <2>1. ~ \E i \in DOMAIN f : f[i] = w
    BY <1>8
  <2>2. QED
    BY <1>3, <1>4, <1>6, <2>1
<1>11. /\ call'[v] = FirstCall' /\ work'[v] = "sent"
       /\ \A c \in Callers \ {v} : call'[c] = call[c] /\ work'[c] = work[c]
  BY <1>6, <1>7, <1>8
<1>12. QED
  BY <1>7, <1>9, <1>10, <1>11

\* Then the view's run begins, with the PENDING order on record or a new one.
LEMMA PressPayKept == AppInv /\ CalmInv /\ Calm /\ PressPay => CalmInv'
<1> SUFFICES ASSUME AppInv, CalmInv, Calm, PressPay PROVE CalmInv'
  OBVIOUS
<1>0. /\ CalmScreens /\ CalmViews /\ CalmRecords /\ CalmCalls /\ HonestReceipts
      /\ SettledIsKnown
  BY DEF CalmInv
<1>1. /\ step = "summary" /\ step' = "processing"
      /\ UNCHANGED <<stack, products, cart, card, current, history, disk, launched, order>>
  BY DEF PressPay, GoTo
<1>2. PICK v \in Views :
        /\ call[v].kind = "none" /\ host'[v] = 2
        /\ \A w \in Views \ {v} : host'[w] = 0
        /\ call'[v] = FirstCall' /\ work'[v] = "sent"
        /\ \A c \in Callers \ {v} : call'[c] = call[c] /\ work'[c] = work[c]
  BY Mounts
<1>3. \A c \in Callers : ~ call[c].live
  BY <1>0, <1>1, NobodyRuns
<1>4. /\ call'[v].live
      /\ IF current = None THEN call'[v].kind = "create"
         ELSE call'[v].kind = "pay" /\ call'[v].txn = current.id
  <2>1. current # None => current.status = "PENDING"
    BY <1>0, <1>1 DEF CalmRecords
  <2>2. FirstCall' = IF current # None THEN [NoCall EXCEPT !.kind = "pay", !.live = TRUE, !.txn = current.id]
                     ELSE [NoCall EXCEPT !.kind = "create", !.live = TRUE,
                                         !.product = cart.product, !.qty = cart.qty]
    BY <1>1, <2>1 DEF FirstCall, NoCall
  <2>3. QED
    BY <1>2, <2>2 DEF NoCall
<1>5. Records' = Records /\ v \in Callers
  BY <1>1, RecordsStay DEF Callers
<1>6. CalmScreens'
  <2>1. stack = <<"Home", "Checkout">> /\ CartProductListed
    BY <1>0, <1>1 DEF CalmScreens
  <2>2. QED
    BY <1>0, <1>1, <2>1, SheetUp DEF CalmScreens, CartProductListed, Top
<1>7. CalmViews'
  BY <1>2, <1>3, <1>4 DEF CalmViews, Running, NeverAbandoned
<1>8. CalmRecords'
  <2>1. current' # None /\ step' # "result" => current'.status = "PENDING"
    BY <1>0, <1>1 DEF CalmRecords
  <2>2. ResultIsFinal'
    BY <1>1 DEF ResultIsFinal
  <2>3. \A c \in Callers : call'[c].live => c = v
    BY <1>2, <1>3
  <2>4. QED
    BY <1>1, <1>4, <2>1, <2>2, <2>3 DEF CalmRecords, Waiting
<1>9. CalmCalls'
  <2> SUFFICES ASSUME NEW c \in Callers
               PROVE  /\ call'[c].kind \in {"pay", "status"} =>
                           \E r \in Records' : r.id = call'[c].txn
                      /\ call'[c].kind = "status" => work'[c] \in Finished \union {"sent"}
                      /\ call'[c].kind = "status"
                           \/ (call'[c].kind = "pay" /\ work'[c] = "processed") =>
                           order'[call'[c].txn].status \in Finished
    BY DEF CalmCalls
  <2>1. CASE c = v
    BY <1>2, <1>4, <1>5, <2>1 DEF Records
  <2>2. CASE c # v
    BY <1>0, <1>1, <1>2, <1>5, <2>2 DEF CalmCalls
  <2>3. QED
    BY <2>1, <2>2
<1>10. HonestReceipts'
  BY <1>0, <1>2, <1>5 DEF HonestReceipts
<1>11. SettledIsKnown'
  BY <1>0, <1>1, <1>5 DEF SettledIsKnown
<1>12. QED
  BY <1>6, <1>7, <1>8, <1>9, <1>10, <1>11 DEF CalmInv

\* The other events of the sheet leave nothing under way, and keep every record.
LEMMA CalmSheetStep == AppInv /\ CalmInv /\ Calm /\ Sheet => CalmInv'
<1> SUFFICES ASSUME AppInv, CalmInv, Calm, Sheet PROVE CalmInv'
  OBVIOUS
<1>0. /\ TypeOK /\ CalmScreens /\ CalmViews /\ CalmRecords /\ CalmCalls
      /\ HonestReceipts /\ SettledIsKnown /\ SameCalls(call)
      /\ Products \intersect {"Splash", "Home", "Checkout", "History"} = {}
  BY AppAssumption DEF AppInv, CalmInv, AppAssumption, SameCalls
<1>1. ASSUME NEW from \in {"idle", "card-info", "summary"},
             NEW to \in {"card-info", "summary"}, GoTo(from, to),
             stack = <<"Home", "Checkout">>, CartProductListed
      PROVE  CalmInv'
  <2>1. /\ step = from /\ step' = to /\ Render(call)
        /\ UNCHANGED <<stack, products, cart, card, current, history, disk, launched, order>>
    BY <1>1 DEF GoTo
  <2>2. \A c \in Callers : ~ call[c].live
    BY <1>0, <2>1, NobodyRuns
  <2>3. products.status = "succeeded"
    <3>1. cart.product # None
      BY <1>0, <1>1, AppAssumption DEF AppAssumption, CartProductListed, TypeOK
    <3>2. QED
      BY <1>0, <3>1 DEF CalmScreens, EmptyCart
  <2>4. CalmScreens'
    BY <1>0, <1>1, <2>1, <2>3 DEF CalmScreens, CartProductListed
  <2>5. /\ current' # None /\ step' # "result" => current'.status = "PENDING"
        /\ ResultIsFinal'
    BY <1>0, <2>1 DEF CalmRecords, ResultIsFinal
  <2>6. QED
    BY <1>0, <2>1, <2>2, <2>4, <2>5, QuietKept, RecordsStay
<1>2. SheetShown => stack = <<"Home", "Checkout">> /\ CartProductListed
  BY <1>0 DEF SheetShown, CalmScreens
<1>3. CASE PayWithCard
  <2>1. stack = <<"Home", "Checkout">>
    <3>1. Top = "Checkout"
      BY <1>3 DEF PayWithCard
    <3>2. PICK x \in Products \union {"Checkout", "History"} : stack = <<"Home", x>>
      BY <1>0, <3>1 DEF CalmScreens, Top
    <3>3. QED
      BY <3>1, <3>2, Stacks DEF Top
  <2>2. QED
    BY <1>1, <1>3, <2>1 DEF PayWithCard
<1>4. CASE SubmitCard
  BY <1>1, <1>2, <1>4 DEF SubmitCard
<1>5. CASE EditCard
  BY <1>1, <1>2, <1>5 DEF EditCard
<1>6. CASE PressPay
  BY <1>6, PressPayKept
<1>7. CASE TypeCard
  <2>1. UNCHANGED <<stack, products, cart, step, current, history, disk, host, call,
                    launched, order, work>>
    BY <1>7 DEF TypeCard
  <2>2. QED
    BY <1>0, <2>1
       DEF CalmInv, CalmScreens, CalmViews, CalmRecords, CalmCalls, HonestReceipts,
           SettledIsKnown, CartProductListed, Top, Running, NeverAbandoned, ResultIsFinal,
           Waiting, Records
<1>8. ASSUME step \in {"card-info", "summary", "result"}, SheetShown, Render(call),
             UNCHANGED <<disk, launched, order>>, CalmScreens',
             step' \in {"idle", "card-info"},
             \/ archiveCurrentTransaction
             \/ step # "result" /\ UNCHANGED <<current, history>>
      PROVE  CalmInv'
  <2>1. \A c \in Callers : ~ call[c].live
    BY <1>0, <1>8, NobodyRuns
  <2>2. /\ current' # None /\ step' # "result" => current'.status = "PENDING"
        /\ ResultIsFinal'
    BY <1>0, <1>8 DEF CalmRecords, ResultIsFinal, archiveCurrentTransaction
  <2>3. KeepsRecords
    BY <1>8, RecordsStay, RecordsMove
  <2>4. step' # "processing" /\ order' = order
    BY <1>8
  <2>5. QED
    BY <1>0, <1>8, <2>1, <2>2, <2>3, <2>4, QuietKept
<1>9. step \in Steps /\ (SheetShown => step # "idle")
  BY <1>0 DEF TypeOK, SheetShown
<1>10. ASSUME fetchProducts, clearCart, step' = "idle", Top' \notin Products,
              step # "idle",
              stack' = <<"Home">> \/ stack' = <<"Home", "Checkout">>
       PROVE  CalmScreens'
  <2>1. ~ (products.fetches > 0) /\ products.fetches \in Nat
    BY <1>0, <1>10, SheetUp DEF TypeOK
  <2>2. products'.fetches = 1 /\ products'.status = "loading"
    BY <1>10, <2>1 DEF fetchProducts
  <2>3. QED
    BY <1>10, <2>2 DEF CalmScreens, clearCart
<1>11. CASE CloseSheet
  <2>1. /\ SheetShown /\ step # "processing" /\ resetCheckout /\ Render(call)
        /\ UNCHANGED <<stack, disk, launched, order>>
        /\ IF step = "result" THEN archiveCurrentTransaction /\ clearCart /\ fetchProducts
           ELSE UNCHANGED <<products, cart, current, history>>
    BY <1>11 DEF CloseSheet
  <2>2. /\ stack = <<"Home", "Checkout">> /\ Top = "Checkout" /\ step' = "idle"
        /\ step \in {"card-info", "summary", "result"} /\ products.status = "succeeded"
    BY <1>0, <1>2, <1>9, <2>1, SheetUp DEF resetCheckout, Steps
  <2>3. CalmScreens'
    <3>1. Top' = Top /\ Top \notin Products
      BY <1>0, <2>1, <2>2 DEF Top
    <3>2. CASE step = "result"
      BY <1>10, <2>1, <2>2, <3>1, <3>2
    <3>3. CASE step # "result"
      BY <1>0, <2>1, <2>2, <3>1, <3>3 DEF CalmScreens
    <3>4. QED
      BY <3>2, <3>3
  <2>4. QED
    BY <1>8, <2>1, <2>2, <2>3
<1>12. CASE TryAgain
  <2>1. /\ SheetShown /\ step = "result" /\ step' = "card-info" /\ Render(call)
        /\ archiveCurrentTransaction
        /\ UNCHANGED <<stack, products, cart, disk, launched, order>>
    BY <1>12 DEF TryAgain, ReceiptShown
  <2>2. stack = <<"Home", "Checkout">> /\ products.status = "succeeded" /\ CartProductListed
    BY <1>2, <2>1, SheetUp, <1>0
  <2>3. CalmScreens'
    BY <1>0, <2>1, <2>2 DEF CalmScreens, CartProductListed
  <2>4. QED
    BY <1>8, <2>1, <2>3
<1>13. CASE BackToHome
  <2>1. /\ SheetShown /\ step = "result" /\ step' = "idle" /\ Render(call)
        /\ archiveCurrentTransaction /\ clearCart /\ fetchProducts
        /\ NavigateHome /\ UNCHANGED <<disk, launched, order>>
    BY <1>13 DEF BackToHome, ReceiptShown, resetCheckout
  <2>2. stack' = <<"Home">>
    BY <1>0, <2>1, SheetUp DEF NavigateHome, Calm
  <2>3. Top' \notin Products
    BY <1>0, <2>2 DEF Top
  <2>4. CalmScreens'
    BY <1>10, <2>1, <2>2, <2>3
  <2>5. QED
    BY <1>8, <2>1, <2>4
<1>14. QED
  BY <1>3, <1>4, <1>5, <1>6, <1>7, <1>11, <1>12, <1>13 DEF Sheet

\* What the end of a call leaves of the calls, when one view runs.
LEMMA LastCallOver ==
  ASSUME NEW c \in Callers, AppInv, CalmViews, call[c].live
  PROVE  /\ c \in Views /\ Running(c) /\ step = "processing"
         /\ SameCalls(Over(c)) /\ \A d \in Callers : ~ Over(c)[d].live
<1>1. c \in Views /\ Running(c) /\ step = "processing"
  BY DEF AppInv, CalmViews
<1>2. SameCalls(Over(c)) /\ CallType
  BY OverSame, TypeParts DEF AppInv
<1>3. \A d \in Callers : call[d].live => d = c
  BY <1>1 DEF CalmViews
<1>4. \A d \in Callers : ~ Over(c)[d].live
  BY <1>2, <1>3 DEF Over, CallType, Call
<1>5. QED
  BY <1>1, <1>2, <1>4

\* The end of the one run there is: the step moves, and with it the record.
LEMMA RunEnds ==
  ASSUME NEW c \in Callers, NEW to \in {"summary", "result"},
         AppInv, CalmInv, Calm, call[c].live, Ends(c, to), KeepsRecords,
         current' # None /\ to # "result" => current'.status = "PENDING",
         to = "result" => current'.status \in Finished
  PROVE  CalmInv'
<1>1. CalmScreens /\ CalmViews
  BY DEF CalmInv
<1>2. /\ Running(c) /\ step = "processing"
      /\ SameCalls(Over(c)) /\ \A d \in Callers : ~ Over(c)[d].live
  BY <1>1, LastCallOver
<1>3. /\ step' = to /\ Render(Over(c)) /\ order' = order
      /\ UNCHANGED <<stack, products, cart>>
  BY <1>2 DEF Ends
<1>4. CalmScreens'
  <2>1. stack = <<"Home", "Checkout">> /\ CartProductListed /\ products.status = "succeeded"
    BY <1>1, <1>2 DEF CalmScreens
  <2>2. QED
    BY <1>1, <1>3, <2>1 DEF CalmScreens, CartProductListed
<1>5. ResultIsFinal' /\ (current' # None /\ step' # "result" => current'.status = "PENDING")
  BY <1>3 DEF ResultIsFinal
<1>6. QED
  BY <1>2, <1>3, <1>4, <1>5, QuietKept

\* A final answer is written on the record of the order it is about.
LEMMA AnswerKept ==
  ASSUME NEW c \in Callers, AppInv, CalmInv, Calm,
         Waiting(c, "pay") \/ Waiting(c, "status"), work[c] \in Finished,
         current' = [current EXCEPT !.status = work[c]], Ends(c, "result")
  PROVE  CalmInv'
<1>1. current # None /\ current.id = call[c].txn
  BY DEF CalmInv, CalmRecords
<1>2. current \in Record
  BY <1>1 DEF AppInv, TypeOK
<1>3. current'.id = current.id /\ current'.status = work[c] /\ current' \in Record
  BY <1>2 DEF Record, Finished, Status
<1>4. current' # None
  BY <1>3, NoNullRecord
<1>5. history' = history
  BY DEF Ends
<1>6. current' \in Records' /\ \A r \in Records' : r \in Records \/ r = current'
  BY <1>4, <1>5 DEF Records
<1>7. \A r \in Records : r \in Records' \/ r = current
  BY <1>5, NoNullRecord DEF Records
<1>8. KeepsRecords
  <2>1. \A r \in Records : \E s \in Records' : s.id = r.id
    BY <1>3, <1>6, <1>7
  <2>2. \A r \in Records' : r.status \in Finished =>
          \/ r \in Records
          \/ \E d \in Callers : /\ call[d].kind \in {"pay", "status"}
                                /\ call[d].txn = r.id /\ work[d] = r.status
    BY <1>1, <1>3, <1>6 DEF Waiting
  <2>3. QED
    BY <2>1, <2>2 DEF KeepsRecords
<1>9. QED
  BY <1>3, <1>8, RunEnds DEF Waiting

\* The run goes on with its next call.
LEMMA RunGoesOn ==
  ASSUME NEW v \in Views, NEW kind \in {"pay", "status"}, NEW t,
         AppInv, CalmInv, Calm, call[v].live, work[v] \notin Finished, Sends(v, kind, t),
         UNCHANGED <<stack, products, cart, step, card, history, disk, host, launched,
                     order>>,
         current' # None, current'.id = t, current'.status = "PENDING",
         Records' = Records \union {current'},
         kind = "status" => order[t].status \in Finished
  PROVE  CalmInv'
<1>0. /\ CalmScreens /\ CalmViews /\ CalmRecords /\ CalmCalls /\ HonestReceipts
      /\ SettledIsKnown /\ CallType /\ v \in Callers
  BY TypeParts DEF AppInv, CalmInv, Callers
<1>1. /\ call'[v].kind = kind /\ call'[v].live /\ call'[v].txn = t /\ work'[v] = "sent"
      /\ \A c \in Callers \ {v} : call'[c] = call[c] /\ work'[c] = work[c]
  BY <1>0 DEF Sends, CallType, NoCall
<1>2. Running(v) /\ step = "processing" /\ \A c \in Callers : call[c].live => c = v
  BY <1>0 DEF CalmViews, AppInv
<1>3. CalmScreens'
  BY <1>0 DEF CalmScreens, CartProductListed, Top
<1>4. CalmViews'
  <2>1. \A c \in Callers : call'[c].live <=> call[c].live
    BY <1>0, <1>1
  <2>2. QED
    BY <1>0, <2>1 DEF CalmViews, Running, NeverAbandoned, Callers
<1>5. CalmRecords'
  <2>1. \A c \in Callers : call'[c].live => c = v
    BY <1>1, <1>2
  <2>2. ResultIsFinal'
    BY <1>2 DEF ResultIsFinal
  <2>3. QED
    BY <1>1, <2>1, <2>2 DEF CalmRecords, Waiting
<1>6. CalmCalls'
  <2> SUFFICES ASSUME NEW c \in Callers
               PROVE  /\ call'[c].kind \in {"pay", "status"} =>
                           \E r \in Records' : r.id = call'[c].txn
                      /\ call'[c].kind = "status" => work'[c] \in Finished \union {"sent"}
                      /\ call'[c].kind = "status"
                           \/ (call'[c].kind = "pay" /\ work'[c] = "processed") =>
                           order'[call'[c].txn].status \in Finished
    BY DEF CalmCalls
  <2>1. CASE c = v
    BY <1>1, <2>1
  <2>2. CASE c # v
    BY <1>0, <1>1, <2>2 DEF CalmCalls
  <2>3. QED
    BY <2>1, <2>2
<1>7. HonestReceipts'
  <2> SUFFICES ASSUME NEW r \in Records, r.status \in Finished
               PROVE  \E c \in Callers : /\ call'[c].kind \in {"pay", "status"}
                                         /\ call'[c].txn = r.id /\ work'[c] = r.status
    BY DEF HonestReceipts, Finished
  <2>1. PICK c \in Callers : /\ call[c].kind \in {"pay", "status"}
                             /\ call[c].txn = r.id /\ work[c] = r.status
    BY <1>0 DEF HonestReceipts
  <2>2. c # v
    BY <2>1
  <2>3. QED
    BY <1>1, <2>1, <2>2
<1>8. SettledIsKnown'
  BY <1>0 DEF SettledIsKnown
<1>9. QED
  BY <1>3, <1>4, <1>5, <1>6, <1>7, <1>8 DEF CalmInv

\* Answers and failures find the one view that runs.
LEMMA CalmCallStep ==
  \A c \in Callers : AppInv /\ CalmInv /\ Calm /\ CallEnds(c) => CalmInv'
<1> SUFFICES ASSUME NEW c \in Callers, AppInv, CalmInv, Calm, CallEnds(c)
             PROVE  CalmInv'
  OBVIOUS
<1>0. TypeOK /\ CalmViews /\ CalmRecords /\ CalmCalls
  BY DEF AppInv, CalmInv
<1>1. CASE c \in Views /\ CreateAnswered(c)
  <2>1. /\ Waiting(c, "create") /\ work[c] = "created" /\ Sends(c, "pay", c)
        /\ current' = [id |-> c, status |-> "PENDING", product |-> call[c].product,
                       qty |-> call[c].qty]
        /\ UNCHANGED <<stack, products, cart, step, card, history, disk, host, launched,
                       order>>
    BY <1>1 DEF CreateAnswered
  <2>2. current = None
    BY <1>0, <2>1 DEF CalmRecords
  <2>3. current' \in Record
    BY <1>0, <1>1, <2>1 DEF TypeOK, Call, Record, Status
  <2>4. current' # None
    BY <2>3, NoNullRecord
  <2>5. Records' = Records \union {current'}
    BY <2>1, <2>2, <2>4 DEF Records
  <2>6. QED
    BY <1>1, <2>1, <2>4, <2>5, RunGoesOn DEF Waiting, Finished
<1>2. CASE c \in Views /\ PayAnswered(c)
  <2>1. Waiting(c, "pay") /\ work[c] \in Finished
    BY <1>2 DEF PayAnswered
  <2>2. current # None
    BY <1>0, <2>1 DEF CalmRecords
  <2>3. current' = [current EXCEPT !.status = work[c]] /\ Ends(c, "result")
    BY <1>2, <2>2 DEF PayAnswered
  <2>4. QED
    BY <2>1, <2>3, AnswerKept
<1>3. CASE c \in Views /\ PayTurnedAway(c)
  <2>1. Waiting(c, "pay") /\ work[c] = "processed" /\ current' = current
    BY <1>3 DEF PayTurnedAway
  <2>2. Running(c) /\ step = "processing"
    BY <1>0, <2>1, LastCallOver DEF Waiting
  <2>3. /\ Sends(c, "status", call[c].txn)
        /\ UNCHANGED <<stack, products, cart, step, card, history, disk, host, launched,
                       order>>
    BY <1>3, <2>2 DEF PayTurnedAway
  <2>4. current # None /\ current.id = call[c].txn /\ current.status = "PENDING"
    BY <1>0, <2>1, <2>2 DEF CalmRecords
  <2>5. order[call[c].txn].status \in Finished
    BY <1>0, <2>1 DEF CalmCalls, Waiting
  <2>6. Records' = Records \union {current'}
    BY <2>1, <2>3, <2>4 DEF Records
  <2>7. QED
    BY <1>3, <2>1, <2>3, <2>4, <2>5, <2>6, RunGoesOn DEF Waiting, Finished
<1>4. CASE StatusAnswered(c)
  <2>1. /\ Waiting(c, "status") /\ work[c] \in Status /\ current' = StatusRecord(c)
        /\ Ends(c, "result")
    BY <1>4 DEF StatusAnswered
  <2>2. work[c] \in Finished
    BY <1>0, <2>1 DEF CalmCalls, Waiting, Status, Finished
  <2>3. current # None /\ current.id = call[c].txn
    BY <1>0, <2>1 DEF CalmRecords
  <2>4. current' = [current EXCEPT !.status = work[c]]
    BY <2>1, <2>3 DEF StatusRecord
  <2>5. QED
    BY <2>1, <2>2, <2>4, AnswerKept
<1>5. CASE CallFails(c)
  <2>1. call[c].live /\ current' = current /\ Ends(c, "summary")
    BY <1>5 DEF CallFails
  <2>2. KeepsRecords
    BY <2>1, RecordsStay DEF Ends
  <2>3. step = "processing"
    BY <1>0, <2>1, LastCallOver
  <2>4. current' # None => current'.status = "PENDING"
    BY <1>0, <2>1, <2>3 DEF CalmRecords
  <2>5. QED
    BY <2>1, <2>2, <2>4, RunEnds
<1>6. QED
  BY <1>1, <1>2, <1>3, <1>4, <1>5 DEF CallEnds

\* The service moves one call on, settles only orders that are known, and does not
\* unsettle any.
LEMMA CalmServiceKept ==
  ASSUME NEW c \in Callers, NEW w, AppInv, CalmInv, Calm, ServiceDoes(c, w),
         work[c] \notin Finished,
         call[c].kind = "status" => w \in Finished,
         call[c].kind = "pay" /\ w = "processed" => order[call[c].txn].status \in Finished,
         \A t \in Views : order[t].status \in Finished => order'[t].status \in Finished,
         \A t \in Views : order'[t].status \in Finished =>
           order[t].status \in Finished \/ \E r \in Records : r.id = t
  PROVE  CalmInv'
<1>0. /\ CalmScreens /\ CalmViews /\ CalmRecords /\ CalmCalls /\ HonestReceipts
      /\ SettledIsKnown /\ TypeOK
  BY DEF AppInv, CalmInv
<1>1. UNCHANGED appVars /\ work'[c] = w /\ \A d \in Callers \ {c} : work'[d] = work[d]
  BY <1>0 DEF ServiceDoes, TypeOK
<1>2. Records' = Records
  BY <1>1 DEF Records, appVars
<1>3. CalmScreens' /\ CalmViews' /\ CalmRecords'
  BY <1>0, <1>1 DEF CalmScreens, CalmViews, CalmRecords, CartProductListed, Top, Running,
                    NeverAbandoned, ResultIsFinal, Waiting, appVars
<1>4. CalmCalls'
  <2> SUFFICES ASSUME NEW d \in Callers
               PROVE  /\ call'[d].kind \in {"pay", "status"} =>
                           \E r \in Records' : r.id = call'[d].txn
                      /\ call'[d].kind = "status" => work'[d] \in Finished \union {"sent"}
                      /\ call'[d].kind = "status"
                           \/ (call'[d].kind = "pay" /\ work'[d] = "processed") =>
                           order'[call'[d].txn].status \in Finished
    BY DEF CalmCalls
  <2>1. call'[d].kind \in {"pay", "status"} => call[d].txn \in Views
    BY <1>1 DEF AppInv, CallFits, appVars
  <2>2. CASE d = c
    BY <1>0, <1>1, <1>2, <2>1, <2>2 DEF CalmCalls, appVars
  <2>3. CASE d # c
    BY <1>0, <1>1, <1>2, <2>1, <2>3 DEF CalmCalls, appVars
  <2>4. QED
    BY <2>2, <2>3
<1>5. HonestReceipts'
  <2> SUFFICES ASSUME NEW r \in Records, r.status \in Finished
               PROVE  \E d \in Callers : /\ call'[d].kind \in {"pay", "status"}
                                         /\ call'[d].txn = r.id /\ work'[d] = r.status
    BY <1>2 DEF HonestReceipts
  <2>1. PICK d \in Callers : /\ call[d].kind \in {"pay", "status"}
                             /\ call[d].txn = r.id /\ work[d] = r.status
    BY <1>0 DEF HonestReceipts
  <2>2. d # c
    BY <2>1
  <2>3. QED
    BY <1>1, <2>1, <2>2 DEF appVars
<1>6. SettledIsKnown'
  BY <1>0, <1>2 DEF SettledIsKnown
<1>7. QED
  BY <1>3, <1>4, <1>5, <1>6 DEF CalmInv

\* No step of the service disturbs the calm app.
LEMMA CalmServiceStep == AppInv /\ CalmInv /\ Calm /\ Service => CalmInv'
<1> SUFFICES ASSUME AppInv, CalmInv, Calm, Service PROVE CalmInv'
  OBVIOUS
<1>0. TypeOK /\ Views \subseteq Callers /\ CalmCalls
  BY DEF AppInv, Callers, CalmInv
<1> USE DEF Finished
<1>1. ASSUME NEW v \in Views, ServerCreate(v) PROVE CalmInv'
  <2>1. order[v].status = "ABSENT" /\ call[v].kind = "create" /\ work[v] = "sent"
    BY <1>0, <1>1 DEF ServerCreate, AppInv, CallFits
  <2>2. /\ ServiceDoes(v, "created") /\ order'[v].status = "PENDING"
        /\ \A t \in Views \ {v} : order'[t] = order[t]
    BY <1>0, <1>1 DEF ServerCreate, TypeOK
  <2>3. QED
    BY <1>0, <2>1, <2>2, CalmServiceKept
<1>2. ASSUME NEW v \in Views, ServerLoad(v) PROVE CalmInv'
  BY <1>0, <1>2, CalmServiceKept DEF ServerLoad
<1>3. ASSUME NEW v \in Views, NEW s \in Finished, ServerSettle(v, s) PROVE CalmInv'
  <2>1. /\ call[v].kind = "pay" /\ work[v] = "accepted" /\ ServiceDoes(v, s)
        /\ call[v].txn \in Views
    BY <1>0, <1>3 DEF ServerSettle, AppInv, CallFits
  <2>2. /\ order'[call[v].txn].status = s
        /\ \A t \in Views \ {call[v].txn} : order'[t] = order[t]
    BY <1>0, <1>3, <2>1 DEF ServerSettle, TypeOK, Order
  <2>3. \E r \in Records : r.id = call[v].txn
    BY <1>0, <2>1 DEF CalmCalls
  <2>4. QED
    BY <1>0, <2>1, <2>2, <2>3, CalmServiceKept
<1>4. ASSUME NEW c \in Callers, ServerStatus(c) PROVE CalmInv'
  <2>1. /\ call[c].kind = "status" /\ work[c] = "sent" /\ order' = order
        /\ ServiceDoes(c, order[call[c].txn].status)
    BY <1>4 DEF ServerStatus, Waiting
  <2>2. order[call[c].txn].status \in Finished
    BY <1>0, <2>1 DEF CalmCalls
  <2>3. QED
    BY <2>1, <2>2, CalmServiceKept
<1>5. QED
  BY <1>1, <1>2, <1>3, <1>4 DEF Service

\* Without a kill nothing disturbs the calm app.
LEMMA CalmStep == AppInv /\ CalmInv /\ [Next]_vars => CalmInv'
<1> SUFFICES ASSUME AppInv, CalmInv, [Next]_vars, Calm' PROVE CalmInv'
  BY DEF CalmInv
<1>1. CASE launched' = launched
  <2>1. Calm
    BY <1>1 DEF Calm
  <2>2. CASE Persist
    BY <2>1, <2>2
       DEF Persist, CalmInv, CalmScreens, CalmViews, CalmRecords, CalmCalls,
           HonestReceipts, SettledIsKnown, CartProductListed, Top, Running,
           NeverAbandoned, ResultIsFinal, Waiting, Records
  <2>3. CASE UNCHANGED vars
    BY <2>1, <2>3
       DEF vars, appVars, CalmInv, CalmScreens, CalmViews, CalmRecords, CalmCalls,
           HonestReceipts, SettledIsKnown, CartProductListed, Top, Running,
           NeverAbandoned, ResultIsFinal, Waiting, Records
  <2>4. ASSUME NEW l \in Launches, Relaunch(l) PROVE FALSE
    BY <1>1, <2>4 DEF Relaunch
  <2>5. QED
    BY <2>1, <2>2, <2>3, <2>4, CalmScreensStep, CalmSheetStep, CalmCallStep,
       CalmServiceStep DEF Next, App
<1>2. CASE launched' # launched
  <2>1. \E l \in Launches : Relaunch(l)
    BY <1>2 DEF Next, App, Screens, EnterHome, RetryFetch, ListFails, ListAnswered,
         OpenProduct, OpenCart, OpenHistory, OpenScreen, Back, AddToCart, Sheet,
         PayWithCard, TypeCard, SubmitCard, EditCard, PressPay, GoTo, CloseSheet,
         TryAgain, BackToHome, Persist, CallEnds, CreateAnswered, PayAnswered,
         PayTurnedAway, StatusAnswered, CallFails, Ends, Service, ServerCreate,
         ServerLoad, ServerSettle, ServerStatus, ServiceDoes, vars, appVars
  <2>2. launched' # {}
    BY <2>1 DEF Relaunch
  <2>3. QED
    BY <2>2 DEF Calm
<1>3. QED
  BY <1>1, <1>2

\* Before the first event the app is calm.
LEMMA CalmInit == Init => CalmInv
<1> SUFFICES ASSUME Init, Calm PROVE CalmInv
  BY DEF CalmInv
<1>0. Top = "Splash" /\ "Splash" \notin Products
  BY AppAssumption DEF Init, Top, AppAssumption
<1>1. CalmScreens
  BY <1>0 DEF Init, CalmScreens, NoProducts
<1>2. CalmViews /\ CalmRecords /\ CalmCalls
  BY DEF Init, CalmViews, CalmRecords, CalmCalls, NoCall, Running, NeverAbandoned,
         ResultIsFinal, Waiting
<1>3. HonestReceipts /\ SettledIsKnown
  BY DEF Init, HonestReceipts, SettledIsKnown, Records, NoOrder, Finished
<1>4. QED
  BY <1>1, <1>2, <1>3 DEF CalmInv

\* An app that is never killed and whose navigate('Home') returns to the Home below
\* stays calm.
THEOREM CalmInvariance == Spec => []CalmInv
<1>1. QED
  BY CalmInit, CalmStep, AppInvariance, PTL DEF Spec

\* In such an app the step is at "processing" only while a payment view is mounted
\* that will lead to the outcome.
THEOREM CalmNeverAbandons == Spec => [](Calm => NeverAbandoned)
<1>1. CalmInv => (Calm => NeverAbandoned)
  BY DEF CalmInv, CalmViews
<1>2. QED
  BY <1>1, CalmInvariance, PTL

\* Its receipt always shows an outcome.
THEOREM CalmResultIsFinal == Spec => [](Calm => ResultIsFinal)
<1>1. CalmInv => (Calm => ResultIsFinal)
  BY DEF CalmInv, CalmRecords
<1>2. QED
  BY <1>1, CalmInvariance, PTL

\* And the outcome on any of its records, archived or not, is one the service gave
\* for the very order of the record.
THEOREM CalmReceiptsAreHonest == Spec => [](Calm => HonestReceipts)
<1>1. CalmInv => (Calm => HonestReceipts)
  BY DEF CalmInv
<1>2. QED
  BY <1>1, CalmInvariance, PTL

\* Nor does it lose sight of an order the service has settled, however many answers
\* were lost and however often Pay was pressed again.
THEOREM CalmSettledIsKnown == Spec => [](Calm => SettledIsKnown)
<1>1. CalmInv => (Calm => SettledIsKnown)
  BY DEF CalmInv
<1>2. QED
  BY <1>1, CalmInvariance, PTL
================================================================================
