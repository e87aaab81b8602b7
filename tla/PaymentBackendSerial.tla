-------------------------- MODULE PaymentBackendSerial --------------------------
(***************************************************************************)
(* The same backend, given clients that never send a pay request for a      *)
(* transaction while the process still works on an earlier one for it.      *)
(* Nothing in the backend enforces this; under it the in-memory entity a    *)
(* request saves is never out of date, and the last-writer-wins save of     *)
(* TypeOrmTransactionRepository is harmless.  Restarts, database failures   *)
(* and a slow PSP are all still there.                                      *)
(***************************************************************************)
EXTENDS PaymentBackend

NobodyPays(t) == \A o \in Pays : PayLive(o) => pay[o].txn # t

PayArrivesAlone(r, t) == NobodyPays(t) /\ PayArrives(r, t)

SerialNext == Work \/ \E r \in Pays, t \in Txns : PayArrivesAlone(r, t)

SerialSpec == Init /\ [][SerialNext]_vars

\* A final status is final: no later step of a pay request changes the status
\* or the PSP id of a finished transaction (Transaction.assertPending guards
\* only the copy in memory).
FinalIsFinal ==
  \A t \in Txns : row[t].status \in Finished => row'[t] = row[t]

FinalStatusIsFinal == [][FinalIsFinal]_vars

\* With one payment at a time a transaction has shipped exactly when it is
\* APPROVED: in particular "On DECLINED/ERROR the stock is untouched".
ShippedIffApproved ==
  \A t \in Txns :
    row[t].status = "APPROVED" <=> \E d \in deliveries : d.txn = t

\* Why: at most one live pay request per transaction, and while it holds its
\* copy of the transaction the row still is the PENDING row it loaded.
OnePayer ==
  \A r, o \in Pays :
    PayLive(r) /\ PayLive(o) /\ pay[r].txn = pay[o].txn => r = o

HeldIsPending ==
  \A r \in Pays : pay[r].pc \in Holding => row[pay[r].txn].status = "PENDING"

\* The PSP was asked to charge, and then the payment could not be booked, or was
\* lost in a restart.
Unbooked(r) == \/ pay[r].reply \in DatabaseError \union {"INSUFFICIENT_STOCK"}
               \/ pay[r].pc = "dropped"

\* Any other payment the PSP knows of is under way or has settled its order.
ChargeBooked ==
  \A r \in Pays : psp[r] # "none" /\ ~ Unbooked(r) =>
    pay[r].pc \in Holding \/ row[pay[r].txn].status \in Finished

\* So the PSP is asked twice for the same order only after it went unbooked.
ChargedApart ==
  \A r, o \in Pays :
    psp[r] # "none" /\ psp[o] # "none" /\ pay[r].txn = pay[o].txn
      => r = o \/ Unbooked(r) \/ Unbooked(o)

SerialInv == OnePayer /\ HeldIsPending /\ ShippedIffApproved /\ ChargeBooked /\ ChargedApart
================================================================================
