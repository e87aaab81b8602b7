----------------------- MODULE PaymentBackendSerialProofs -----------------------
(* Theorems about PaymentBackendSerial: what the backend guarantees to       *)
(* clients that pay a transaction one request at a time.                     *)
EXTENDS PaymentBackendSerial, PaymentBackendProofs

\* A client that waits takes steps the backend knows anyway (POST :id/pay).
LEMMA SerialIsNext == SerialNext => Next
  BY DEF SerialNext, PayArrivesAlone, Next

\* No continuation of a request brings a request to life or changes whom it
\* pays for, and only LoadTransaction takes hold of a row, a PENDING one.
LEMMA PayFrame ==
  ASSUME IInv, NEW r \in Pays, PayStep(r)
  PROVE  /\ PayLive(r) /\ pay'[r].txn = pay[r].txn /\ pay[r].txn \in Txns
         /\ \A o \in Pays \ {r} : pay'[o] = pay[o]
         /\ pay'[r].pc \in Holding =>
              /\ UNCHANGED row
              /\ pay[r].pc \in Holding \/ row[pay[r].txn].status = "PENDING"
<1>1. TypeOK /\ pay[r] \in Pay /\ PayOK(r, pay[r])
  BY DEF IInv, CoreInv, TypeOK, PaysOK
<1>2. /\ pay'[r].txn = pay[r].txn /\ \A o \in Pays \ {r} : pay'[o] = pay[o]
      /\ PayLive(r)
  <2>1. CASE \E d : <<pay[r].pc, d>> \in Straight /\ Turned(r, d)
    BY <2>1 DEF Turned, Straight, PayLive
  <2>2. CASE Loaded(r) \/ Polled(r)
    BY <2>2 DEF Loaded, Polled, PayLive
  <2>3. CASE pay[r].pc = "sleep" /\ Turned(r, "poll")
    BY <2>3 DEF Turned, PayLive
  <2> QED
    BY <1>1, <2>1, <2>2, <2>3, PayWays
<1>3. pay[r].txn \in Txns
  BY <1>1, <1>2 DEF PayOK, PayLive
<1>4. ASSUME pay'[r].pc \in Holding
      PROVE  pay[r].pc \in Holding \/ row[pay[r].txn].status = "PENDING"
  <2>1. PayStep(r) => [Next]_vars
    BY DEF Next, Work
  <2> QED
    BY <1>1, <1>4, <2>1, HeldChanges
<1>5. ASSUME pay'[r].pc \in Holding PROVE UNCHANGED row
  <2>1. ASSUME SettleApproved(r) \/ SettleRejected(r)
        PROVE  pay'[r].pc \in {"done", "saved"}
    <3>1. (\E code : PayAnswer(r, code)) \/ (\E code : Saved(r, code))
      BY <2>1 DEF SettleApproved, SettleRejected
    <3> QED
      BY <1>1, <3>1, PayTurns DEF Turned
  <2>2. UNCHANGED row \/ SettleApproved(r) \/ SettleRejected(r)
    BY DEF PayStep, LoadTransaction, LoadProduct, Tokenized, ChargeCreated, ChargeFails,
       Poll, Wake, DatabaseFails, Respond, dbVars
  <2> QED
    BY <1>5, <2>1, <2>2 DEF Holding
<1> QED
  BY <1>2, <1>3, <1>4, <1>5

\* Which steps write a row, and how: an insert where there was none, or the save
\* of the request that holds it.
LEMMA RowFrame ==
  ASSUME IInv, [SerialNext]_vars
  PROVE  \/ UNCHANGED <<row, deliveries>>
         \/ \E t \in Txns : CreateSave(t)
         \/ \E r \in Pays : SettleApproved(r) \/ SettleRejected(r)
  BY DEF SerialNext, PayArrivesAlone, Work, CreateStep, PayStep, dbVars, vars,
         CreateFindProduct, CreateFails, PayArrives, LoadTransaction, LoadProduct,
         Tokenized, ChargeCreated, ChargeFails, Poll, Wake,
         DatabaseFails, Respond, Restart, PspAccept, PspDecide

\* If nobody pays twice at once, nobody ever does (the clients of POST :id/pay).
LEMMA OnePayerStep ==
  ASSUME IInv, OnePayer, [SerialNext]_vars
  PROVE  OnePayer'
<1> USE DEF OnePayer
<1>1. CASE UNCHANGED pay
  BY <1>1 DEF PayLive
<1>2. ASSUME NEW r \in Pays, PayStep(r)
      PROVE  OnePayer'
  BY <1>2, PayFrame DEF PayLive
<1>3. ASSUME NEW r \in Pays, NEW t \in Txns, PayArrivesAlone(r, t)
      PROVE  OnePayer'
  <2>1. /\ pay'[r].txn = t
        /\ \A o \in Pays \ {r} : pay'[o] = pay[o]
        /\ \A o \in Pays : PayLive(o) => pay[o].txn # t
    BY <1>3 DEF PayArrivesAlone, PayArrives, NobodyPays, IInv, CoreInv, TypeOK, Pay
  <2> QED
    BY <2>1 DEF PayLive
<1>4. CASE Restart
  <2>1. \A r \in Pays : ~ PayLive(r)'
    BY <1>4 DEF Restart, PayLive, IInv, CoreInv, TypeOK, Pay
  <2> QED
    BY <2>1
<1> QED
  BY <1>1, <1>2, <1>3, <1>4
     DEF SerialNext, Work, CreateStep, vars, CreateFindProduct, CreateSave,
         CreateFails, PspAccept, PspDecide

\* The copy of the transaction a request holds stays PENDING in the table: the
\* only request that could settle it is the one that holds it.
LEMMA HeldStep ==
  ASSUME IInv, OnePayer, HeldIsPending, [SerialNext]_vars
  PROVE  HeldIsPending'
<1> SUFFICES ASSUME NEW o \in Pays, pay'[o].pc \in Holding
             PROVE  row'[pay'[o].txn].status = "PENDING"
  BY DEF HeldIsPending
<1> USE DEF IInv, CoreInv, TypeOK, HeldIsPending
<1>1. \/ /\ UNCHANGED pay
         /\ UNCHANGED row \/ \E t \in Txns : CreateSave(t)
      \/ \E r \in Pays : PayStep(r)
      \/ \E r \in Pays, t \in Txns : PayArrives(r, t)
      \/ Restart
  BY DEF SerialNext, PayArrivesAlone, Work, CreateStep, dbVars, vars,
         CreateFindProduct, CreateSave, CreateFails, PspAccept, PspDecide
<1>2. CASE UNCHANGED <<pay, row>>
  BY <1>2
<1>3. ASSUME NEW t \in Txns, CreateSave(t), UNCHANGED pay
      PROVE  row'[pay'[o].txn].status = "PENDING"
  <2>1. row[t].status = "ABSENT" /\ row[pay[o].txn].status = "PENDING"
    BY <1>3 DEF CreateSave, CreatesOK
  <2> QED
    BY <1>3, <2>1 DEF CreateSave
<1>4. ASSUME NEW r \in Pays, PayStep(r)
      PROVE  row'[pay'[o].txn].status = "PENDING"
  <2>1. CASE UNCHANGED row
    BY <1>4, <2>1, PayFrame
  <2>2. CASE ~ UNCHANGED row
    <3>1. SettleApproved(r) \/ SettleRejected(r)
      BY <1>4, <2>2 DEF PayStep, dbVars, LoadTransaction, LoadProduct, Tokenized,
         ChargeCreated, ChargeFails, Poll, Wake, DatabaseFails, Respond
    <3>2. /\ o # r /\ pay'[o] = pay[o] /\ PayLive(o) /\ PayLive(r)
      BY <1>4, <2>2, PayFrame DEF PayLive, Holding
    <3>3. pay[o].txn # pay[r].txn /\ pay[o].txn \in Txns
      BY <3>2 DEF OnePayer, PaysOK, PayOK, Holding
    <3>4. row'[pay[o].txn] = row[pay[o].txn]
      BY <3>1, <3>3 DEF SettleApproved, SettleRejected, ShipOut, dbVars
    <3> QED
      BY <3>2, <3>4
  <2> QED
    BY <2>1, <2>2
<1>5. ASSUME NEW r \in Pays, NEW t \in Txns, PayArrives(r, t)
      PROVE  row'[pay'[o].txn].status = "PENDING"
  <2>1. UNCHANGED row /\ pay'[r].pc = "load"
        /\ \A p \in Pays \ {r} : pay'[p] = pay[p]
    BY <1>5 DEF PayArrives, dbVars, Pay
  <2> QED
    BY <2>1 DEF Holding
<1>6. CASE Restart
  <2>1. \A r \in Pays : pay'[r].pc \notin Holding
    BY <1>6 DEF Restart, PayLive, Pay, Holding
  <2> QED
    BY <2>1
<1> QED
  BY <1>1, <1>2, <1>3, <1>4, <1>5, <1>6

\* A settling request writes over the PENDING row it holds, so it neither
\* unships nor unsettles anything.
LEMMA SettleOverPending ==
  ASSUME IInv, HeldIsPending, NEW r \in Pays,
         SettleApproved(r) \/ SettleRejected(r), ~ UNCHANGED <<row, deliveries>>
  PROVE  /\ pay[r].txn \in Txns /\ row[pay[r].txn].status = "PENDING"
         /\ \A t \in Txns : t # pay[r].txn => row'[t] = row[t]
         /\ \/ /\ row'[pay[r].txn].status = "APPROVED"
               /\ \E d : d.txn = pay[r].txn /\ deliveries' = deliveries \union {d}
            \/ /\ row'[pay[r].txn].status # "APPROVED"
               /\ UNCHANGED deliveries
<1>1. pay[r].pc = "settle"
  BY DEF SettleApproved, SettleRejected
<1>2. row[pay[r].txn].status = "PENDING"
  BY <1>1 DEF HeldIsPending, Holding
<1>3. CASE SettleApproved(r)
  <2>1. ShipOut(r) /\ pay[r].product \in catalog
    BY <1>3 DEF SettleApproved, StockGuard, dbVars
  <2>2. /\ pay[r].txn \in Txns /\ row'[pay[r].txn].status = "APPROVED"
        /\ \A t \in Txns : t # pay[r].txn => row'[t] = row[t]
    <3>1. Overwrites(r, "APPROVED") /\ "APPROVED" \in Finished
      BY <2>1 DEF ShipOut, Overwrites, Finished
    <3> QED
      BY <1>1, <2>1, <3>1, SavesOwn, SavedRow
  <2> DEFINE d == [id |-> r, txn |-> pay[r].txn, product |-> pay[r].product,
                   qty |-> pay[r].qty]
  <2>3. d.txn = pay[r].txn /\ deliveries' = deliveries \union {d}
    BY <2>1 DEF ShipOut
  <2> HIDE DEF d
  <2> QED
    BY <1>2, <2>2, <2>3
<1>4. CASE SettleRejected(r)
  <2>1. /\ row' = [row EXCEPT ![pay[r].txn] = Entity(r, pay[r].outcome)]
        /\ pay[r].outcome \in {"DECLINED", "ERROR"} /\ UNCHANGED deliveries
        /\ pay[r].product \in catalog
    BY <1>4 DEF SettleRejected, dbVars
  <2>2. /\ CoreInv /\ SavesItsOwn
        /\ pay[r].outcome \in Finished /\ pay[r].outcome # "APPROVED"
        /\ Overwrites(r, pay[r].outcome)
    BY <2>1, SavesOwn DEF Finished, Overwrites
  <2>3. /\ pay[r].txn \in Txns /\ row'[pay[r].txn].status = pay[r].outcome
        /\ \A t \in Txns : t # pay[r].txn => row'[t] = row[t]
    BY <1>1, <2>1, <2>2, SavedRow
  <2> QED
    BY <1>2, <2>1, <2>2, <2>3
<1> QED
  BY <1>3, <1>4

\* Shipping and approving coincide after every step (saveApprovedPayment and
\* transactionRepository.save write over PENDING rows only).
LEMMA ShippedStep ==
  ASSUME IInv, HeldIsPending, ShippedIffApproved, [SerialNext]_vars
  PROVE  ShippedIffApproved'
<1> USE DEF ShippedIffApproved
<1>1. CASE UNCHANGED <<row, deliveries>>
  BY <1>1
<1>2. ASSUME NEW t \in Txns, CreateSave(t)
      PROVE  ShippedIffApproved'
  <2>1. row[t].status = "ABSENT" /\ row \in [Txns -> Row]
    BY <1>2 DEF CreateSave, IInv, CoreInv, CreatesOK, TypeOK
  <2>2. \A o \in Txns : row'[o].status = "APPROVED" <=> row[o].status = "APPROVED"
    BY <1>2, <2>1 DEF CreateSave
  <2> QED
    BY <1>2, <2>2 DEF CreateSave
<1>3. ASSUME NEW r \in Pays, SettleApproved(r) \/ SettleRejected(r),
             ~ UNCHANGED <<row, deliveries>>
      PROVE  ShippedIffApproved'
  BY <1>3, SettleOverPending
<1> QED
  BY <1>1, <1>2, <1>3, RowFrame

\* No step touches a finished row (Transaction.assertPending, but in the table).
LEMMA FinalStep ==
  IInv /\ HeldIsPending /\ [SerialNext]_vars => [FinalIsFinal]_vars
<1> SUFFICES ASSUME IInv, HeldIsPending, [SerialNext]_vars,
                    NEW t \in Txns, row[t].status \in Finished
             PROVE  row'[t] = row[t]
  BY DEF FinalIsFinal
<1>1. CASE UNCHANGED <<row, deliveries>>
  BY <1>1
<1>2. ASSUME NEW o \in Txns, CreateSave(o)
      PROVE  row'[t] = row[t]
  BY <1>2 DEF CreateSave, IInv, CoreInv, CreatesOK, TypeOK, Finished
<1>3. ASSUME NEW r \in Pays, SettleApproved(r) \/ SettleRejected(r),
             ~ UNCHANGED <<row, deliveries>>
      PROVE  row'[t] = row[t]
  BY <1>3, SettleOverPending DEF Finished
<1> QED
  BY <1>1, <1>2, <1>3, RowFrame

\* What the step of a pay request does to it once the PSP may know of it: it keeps
\* its hold of the order, or settles it, or has gone wrong after the charge
\* (PspPaymentGateway.charge and what execute does after it).
LEMMA ChargeSteps ==
  ASSUME IInv, NEW r \in Pays, PayStep(r), psp'[r] # "none"
  PROVE  \/ pay'[r].pc \in Holding
         \/ pay'[r].reply \in DatabaseError \union {"INSUFFICIENT_STOCK"}
         \/ row'[pay[r].txn].status \in Finished
         \/ pay[r].pc = "saved" /\ Respond(r)
<1>1. /\ pay[r] \in Pay /\ pay \in [Pays -> Pay] /\ PayOK(r, pay[r])
      /\ psp \in [Pays -> PspStatus \union {"none", "requested"}]
      /\ row \in [Txns -> Row]
  BY DEF IInv, CoreInv, TypeOK, PaysOK
<1>2. \A code : PayAnswer(r, code) => pay'[r].reply = code
  BY <1>1 DEF PayAnswer, Pay
<1>3. \A s : ChargeResult(r, s) => pay'[r].pc = "settle"
  BY <1>1 DEF ChargeResult, Pay
<1> USE DEF Holding
<1>4. CASE LoadTransaction(r) \/ LoadProduct(r)
  <2>1. psp'[r] = "none"
    BY <1>1, <1>4 DEF LoadTransaction, LoadProduct, PayOK
  <2> QED
    BY <2>1
<1>5. CASE Tokenized(r)
  BY <1>1, <1>5 DEF Tokenized, Pay
<1>6. CASE ChargeCreated(r)
  BY <1>1, <1>6 DEF ChargeCreated, Pay
<1>7. CASE ChargeFails(r)
  BY <1>3, <1>7 DEF ChargeFails
<1>8. CASE Poll(r)
  <2>1. CASE pay' = [pay EXCEPT ![r] = [@ EXCEPT !.pc = "sleep", !.polls = pay[r].polls + 1]]
    BY <1>1, <2>1 DEF Pay
  <2> QED
    BY <1>3, <1>8, <2>1 DEF Poll
<1>9. CASE Wake(r)
  <2>1. CASE pay' = [pay EXCEPT ![r] = [@ EXCEPT !.pc = "poll"]]
    BY <1>1, <2>1 DEF Pay
  <2> QED
    BY <1>3, <1>9, <2>1 DEF Wake
<1>10. CASE SettleApproved(r) \/ SettleRejected(r)
  <2>1. CASE \E code \in {"INSUFFICIENT_STOCK", "INTERNAL_ERROR"} : PayAnswer(r, code)
    BY <1>2, <2>1 DEF DatabaseError
  <2>2. ASSUME NEW s \in Finished, row' = [row EXCEPT ![pay[r].txn] = Entity(r, s)],
               pay[r].pc = "settle"
        PROVE  row'[pay[r].txn].status \in Finished
    BY <1>1, <2>2 DEF Entity, PayOK
  <2> QED
    BY <1>10, <2>1, <2>2 DEF SettleApproved, SettleRejected, ShipOut, Finished
<1>11. CASE DatabaseFails(r)
  BY <1>2, <1>11 DEF DatabaseFails
<1>12. CASE Respond(r)
  BY <1>12 DEF Respond
<1> QED
  BY <1>4, <1>5, <1>6, <1>7, <1>8, <1>9, <1>10, <1>11, <1>12 DEF PayStep

\* What another step may do to a pay request.
LEMMA OthersStep ==
  ASSUME IInv, [Next]_vars, NEW r \in Pays, ~ PayStep(r)
  PROVE  \/ pay'[r] = pay[r]
         \/ pay[r].pc = "idle" /\ psp[r] = "none" /\ UNCHANGED psp
         \/ pay'[r].pc = "dropped" /\ pay'[r].txn = pay[r].txn /\ UNCHANGED psp
<1>1. /\ pay[r] \in Pay /\ pay \in [Pays -> Pay] /\ PayOK(r, pay[r])
  BY DEF IInv, CoreInv, TypeOK, PaysOK
<1>2. ASSUME NEW o \in Pays, PayStep(o) PROVE pay'[r] = pay[r]
  BY <1>2, PayFrame
<1>3. ASSUME NEW o \in Pays, NEW t \in Txns, PayArrives(o, t)
      PROVE  pay'[r] = pay[r] \/ (pay[r].pc = "idle" /\ psp[r] = "none" /\ UNCHANGED psp)
  BY <1>1, <1>3 DEF PayArrives, PayOK
<1>4. CASE Restart
  BY <1>1, <1>4 DEF Restart, Pay
<1>5. CASE UNCHANGED pay
  BY <1>5
<1> QED
  BY <1>2, <1>3, <1>4, <1>5
     DEF Next, Work, CreateStep, CreateSave, CreateFails, CreateFindProduct, PspAccept,
         PspDecide, vars

\* The PSP knows of a request only by what the request itself asked.
LEMMA PspAsked ==
  ASSUME IInv, [Next]_vars, NEW r \in Pays, psp[r] = "none", psp'[r] # "none"
  PROVE  Tokenized(r)
<1>1. psp \in [Pays -> PspStatus \union {"none", "requested"}]
  BY DEF IInv, CoreInv, TypeOK
<1>2. \E o \in Pays : Tokenized(o) \/ PspAccept(o) \/ PspDecide(o)
  BY DEF Next, Work, CreateStep, PayStep, vars, CreateFindProduct,
         CreateSave, CreateFails, PayArrives, LoadTransaction, LoadProduct,
         ChargeCreated, ChargeFails, Poll, Wake, SettleApproved,
         SettleRejected, DatabaseFails, Respond, Restart
<1> QED
  BY <1>1, <1>2 DEF Tokenized, PspAccept, PspDecide

\* Every payment the PSP knows of is under way, has settled its order, or is known
\* to have gone wrong; with any clients.
LEMMA BookedStep == IInv /\ ChargeBooked /\ [Next]_vars => ChargeBooked'
<1> SUFFICES ASSUME IInv, ChargeBooked, [Next]_vars,
                    NEW r \in Pays, psp'[r] # "none", ~ Unbooked(r)'
             PROVE  pay'[r].pc \in Holding \/ row'[pay'[r].txn].status \in Finished
  BY DEF ChargeBooked
<1>1. /\ pay[r] \in Pay /\ pay \in [Pays -> Pay] /\ PayOK(r, pay[r])
      /\ \A t \in Txns : row[t].status \in Finished => row'[t].status \in Finished
  BY SavesOwn, FinishedStep DEF IInv, CoreInv, TypeOK, PaysOK
<1>2. CASE PayStep(r)
  <2>1. pay'[r].txn = pay[r].txn /\ pay[r].txn \in Txns
    BY <1>2, PayFrame
  <2>2. CASE pay[r].pc = "saved" /\ Respond(r)
    <3>1. psp[r] # "none" /\ pay'[r].reply = pay[r].reply
      BY <1>1, <2>2 DEF Respond, Pay
    <3>2. row[pay[r].txn].status \in Finished
      BY <2>2, <3>1 DEF ChargeBooked, Unbooked, Holding
    <3> QED
      BY <1>1, <2>1, <3>2
  <2> QED
    BY <1>2, <2>1, <2>2, ChargeSteps DEF Unbooked
<1>3. CASE ~ PayStep(r)
  <2>1. psp[r] # "none"
    BY <1>3, PspAsked DEF PayStep
  <2>2. pay'[r] = pay[r]
    BY <1>3, <2>1, OthersStep DEF Unbooked
  <2>3. CASE pay[r].pc \in Holding
    BY <2>2, <2>3
  <2>4. CASE row[pay[r].txn].status \in Finished
    <3>1. pay[r].txn \in Txns
      BY <1>1, <2>1 DEF PayOK
    <3> QED
      BY <1>1, <2>2, <2>4, <3>1
  <2> QED
    BY <2>1, <2>2, <2>3, <2>4 DEF ChargeBooked, Unbooked
<1> QED
  BY <1>2, <1>3

\* What went wrong stays so, and a request keeps the order it pays for.
LEMMA UnbookedStays ==
  ASSUME IInv, [Next]_vars, NEW r \in Pays, psp[r] # "none"
  PROVE  /\ pay'[r].txn = pay[r].txn
         /\ Unbooked(r) => Unbooked(r)'
<1>1. PayOK(r, pay[r]) /\ pay[r] \in Pay
  BY DEF IInv, CoreInv, TypeOK, PaysOK
<1>2. CASE PayStep(r)
  <2>1. pay'[r].txn = pay[r].txn /\ PayLive(r)
    BY <1>2, PayFrame
  <2>2. ASSUME Unbooked(r) PROVE Unbooked(r)'
    <3>1. /\ pay[r].reply \in DatabaseError \union {"INSUFFICIENT_STOCK"}
          /\ pay[r].reply # "none"
      BY <2>1, <2>2 DEF Unbooked, PayLive, DatabaseError
    <3>2. pay[r].pc \notin Holding \union {"idle", "load"}
      BY <1>1, <3>1 DEF PayOK
    <3>3. Respond(r)
      BY <1>2, <3>2 DEF PayStep, LoadTransaction, LoadProduct, Tokenized, ChargeCreated,
           ChargeFails, Poll, Wake, SettleApproved, SettleRejected, DatabaseFails, Holding
    <3>4. pay'[r].reply = pay[r].reply
      BY <1>1, <3>3 DEF Respond, IInv, CoreInv, TypeOK, Pay
    <3> QED
      BY <3>1, <3>4 DEF Unbooked
  <2> QED
    BY <2>1, <2>2
<1>3. CASE ~ PayStep(r)
  BY <1>3, OthersStep DEF Unbooked
<1> QED
  BY <1>2, <1>3

\* A new charge is asked for by the one request that holds the PENDING order, when
\* any earlier payment of it has gone wrong.
LEMMA ApartStep ==
  ASSUME IInv, OnePayer, HeldIsPending, ChargeBooked, ChargedApart, [SerialNext]_vars
  PROVE  ChargedApart'
<1>0. [Next]_vars
  BY SerialIsNext
<1> SUFFICES ASSUME NEW r \in Pays, NEW o \in Pays, psp'[r] # "none", psp'[o] # "none",
                    pay'[r].txn = pay'[o].txn, r # o
             PROVE  Unbooked(r)' \/ Unbooked(o)'
  BY DEF ChargedApart
<1>1. ASSUME NEW x \in Pays, NEW y \in Pays, x # y, psp[x] = "none", psp'[x] # "none",
             psp'[y] # "none", pay'[x].txn = pay'[y].txn
      PROVE  Unbooked(y)'
  <2>1. Tokenized(x)
    BY <1>0, <1>1, PspAsked
  <2>2. /\ PayLive(x) /\ pay[x].pc \in Holding /\ pay'[x].txn = pay[x].txn
        /\ pay'[y] = pay[y]
    BY <1>1, <2>1, PayFrame DEF PayStep, Tokenized, Holding
  <2>3. psp[y] # "none"
    BY <1>1, <2>1 DEF Tokenized, IInv, CoreInv, TypeOK
  <2>4. pay[y].pc \notin Holding
    BY <1>1, <2>2 DEF OnePayer, PayLive, Holding
  <2>5. row[pay[y].txn].status = "PENDING"
    BY <1>1, <2>2 DEF HeldIsPending
  <2>6. Unbooked(y)
    BY <2>3, <2>4, <2>5 DEF ChargeBooked, Finished
  <2> QED
    BY <2>2, <2>6 DEF Unbooked
<1>2. CASE psp[r] # "none" /\ psp[o] # "none"
  <2>1. Unbooked(r) \/ Unbooked(o)
    BY <1>0, <1>2, UnbookedStays DEF ChargedApart
  <2> QED
    BY <1>0, <1>2, <2>1, UnbookedStays
<1> QED
  BY <1>1, <1>2

\* Nobody pays at the start and no row exists.
LEMMA SerialInit == Init => SerialInv
  BY DEF Init, NoRow, SerialInv, OnePayer, HeldIsPending, ShippedIffApproved,
         PayLive, Holding, ChargeBooked, ChargedApart

\* The serial invariant is kept by every step of clients that wait.
LEMMA SerialStep == IInv /\ SerialInv /\ [SerialNext]_vars => SerialInv'
<1>1. [SerialNext]_vars => [Next]_vars
  BY SerialIsNext
<1> QED
  BY <1>1, OnePayerStep, HeldStep, ShippedStep, BookedStep, ApartStep DEF SerialInv

\* The serial invariant: one live payer, the row PENDING under it, shipped
\* exactly when APPROVED (ProcessPaymentUseCase under well-behaved clients).
THEOREM SerialInvariance == SerialSpec => [](IInv /\ SerialInv)
<1>1. Init => IInv /\ SerialInv
  BY InvInit, SerialInit
<1>2. IInv /\ SerialInv /\ [SerialNext]_vars => (IInv /\ SerialInv)'
  BY SerialIsNext, InvStep, SerialStep
<1> QED
  BY <1>1, <1>2, PTL DEF SerialSpec

\* One payment at a time, a transaction has a delivery exactly when its status
\* says APPROVED (TypeOrmTransactionRepository.save never hides a shipment).
THEOREM SerialShippedIffApproved == SerialSpec => []ShippedIffApproved
<1>1. SerialInv => ShippedIffApproved
  BY DEF SerialInv
<1> QED
  BY SerialInvariance, <1>1, PTL

\* One payment at a time, a final status is final: what assertPending checks in
\* memory is then true of the row as well (Transaction.assertPending).
THEOREM SerialFinalIsFinal == SerialSpec => FinalStatusIsFinal
<1>1. SerialInv => HeldIsPending
  BY DEF SerialInv
<1> QED
  BY SerialInvariance, <1>1, FinalStep, PTL DEF SerialSpec, FinalStatusIsFinal

\* One payment at a time, the PSP is asked to charge for an order again only after
\* an earlier payment could not be booked or was lost in a restart: a retry of a
\* payment that was booked is turned away before the charge ("409" of POST :id/pay).
THEOREM SerialChargedApart == SerialSpec => []ChargedApart
<1>1. SerialInv => ChargedApart
  BY DEF SerialInv
<1> QED
  BY SerialInvariance, <1>1, PTL
================================================================================
