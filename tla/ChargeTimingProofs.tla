--------------------------- MODULE ChargeTimingProofs ---------------------------
(* Proofs about ChargeTiming, for timeouts of any length.                     *)
EXTENDS ChargeTiming, TLAPS

USE TimingAssumption DEF TimingAssumption

\* Limit, case by case.
LEMMA Limits ==
  /\ Limit("out") = Latency /\ Limit("load") = DbTime /\ Limit("save") = DbTime
  /\ \A c \in Calls : Limit(c) = CallTimeout
  /\ Limit("sleep") = PollInterval
  BY DEF Limit, Calls

\* The inductive invariant holds at first.
LEMMA TimingInit == Init => TimingInv
  BY Limits DEF Init, TimingInv, TypeOK, Reached, Phases, Calls, Answers

\* And every step keeps it.
LEMMA TimingStep == TimingInv /\ [Next]_timingVars => TimingInv'
<1> SUFFICES ASSUME TimingInv, [Next]_timingVars PROVE TimingInv'
  OBVIOUS
<1> USE Limits DEF TimingInv, TypeOK, Reached, Phases, Calls, Answers
<1>1. CASE Second
  BY <1>1 DEF Second
<1>2. CASE Backend
  <2> USE DEF Goes, To, Respond
  <2>1. CASE Arrive
    BY <2>1 DEF Arrive
  <2>2. CASE Loaded
    BY <2>2 DEF Loaded
  <2>3. CASE Refused
    BY <2>3 DEF Refused
  <2>4. CASE Tokenized
    BY <2>4 DEF Tokenized
  <2>5. CASE Created
    BY <2>5 DEF Created
  <2>6. CASE Pending
    BY <2>6 DEF Pending
  <2>7. CASE Fails
    BY <2>7 DEF Fails
  <2>8. CASE Wake
    BY <2>8 DEF Wake
  <2>9. CASE Saved
    BY <2>9 DEF Saved
  <2>10. CASE Found
    BY <2>10 DEF Found
  <2>11. QED
    BY <1>2, <2>10, <2>1, <2>2, <2>3, <2>4, <2>5, <2>6, <2>7, <2>8, <2>9 DEF Backend
<1>3. CASE ProxyTimesOut
  BY <1>3 DEF ProxyTimesOut
<1>4. CASE AnswerArrives
  BY <1>4 DEF AnswerArrives
<1>5. CASE ClientTimesOut
  BY <1>5 DEF ClientTimesOut
<1>6. CASE UNCHANGED timingVars
  BY <1>6 DEF timingVars
<1>7. QED
  BY <1>1, <1>2, <1>3, <1>4, <1>5, <1>6 DEF Next

\* The invariant of the clocks, for timeouts of any length.
THEOREM TimingInvariance == Spec => []TimingInv
  BY TimingInit, TimingStep, PTL DEF Spec

\* The backend is done with every payment within the sum of its timeouts.
THEOREM DoneWithinTimeouts == Spec => []DoneInTime
<1>1. TimingInv => DoneInTime
  BY DEF TimingInv, TypeOK, Reached, Limit, DoneInTime, Longest, Phases, Calls
<1>2. QED
  BY <1>1, TimingInvariance, PTL

\* With a payment the app outlives the proxy if its timeout exceeds the proxy's by the way there
\* and back.
THEOREM Outlives ==
  ASSUME ProxyTimeout + 2 * Latency < ClientTimeout
  PROVE  Spec => []ClientOutlivesProxy
<1>1. Init => ClientOutlivesProxy
  BY DEF Init, ClientOutlivesProxy
<1>2. TimingInv /\ ClientOutlivesProxy /\ [Next]_timingVars => ClientOutlivesProxy'
  <2> SUFFICES ASSUME TimingInv, ClientOutlivesProxy, [Next]_timingVars
               PROVE  ClientOutlivesProxy'
    OBVIOUS
  <2>1. ~ (kind = "pay" /\ ClientTimesOut)
    <3> SUFFICES ASSUME kind = "pay", ClientTimesOut PROVE FALSE
      OBVIOUS
    <3>1. CASE answer = "none"
      BY <3>1 DEF ClientTimesOut, Timer, TimingInv, TypeOK, Limit
    <3>2. CASE answer # "none"
      BY <3>2 DEF ClientTimesOut, Timer, TimingInv, TypeOK
    <3>3. QED
      BY <3>1, <3>2
  <2>2. QED
    BY <2>1 DEF Next, Second, Backend, Arrive, Loaded, Found, Refused, Tokenized, Created,
         Pending, Fails, Wake, Saved, Goes, To, Respond, ProxyTimesOut, AnswerArrives,
         ClientTimesOut, timingVars, ClientOutlivesProxy, TimingInv, TypeOK, Answers
<1>3. QED
  BY <1>1, <1>2, TimingInvariance, PTL DEF Spec

\* What would make the answer the backend's: timeouts whose sum stays below the
\* proxy's.
THEOREM ToldIfShorter ==
  ASSUME Longest < ProxyTimeout
  PROVE  Spec => []ToldByBackend
<1> DEFINE Own == answer # "gateway" /\ client # "gateway"
<1>1. Init => Own
  BY DEF Init
<1>2. TimingInv /\ Own /\ [Next]_timingVars => Own'
  <2> SUFFICES ASSUME TimingInv, Own, [Next]_timingVars PROVE Own'
    OBVIOUS
  <2>1. ~ ProxyTimesOut
    BY DEF ProxyTimesOut, TimingInv, TypeOK, Reached, Limit, Longest, Phases, Calls
  <2>2. QED
    BY <2>1 DEF Next, Second, Backend, Arrive, Loaded, Found, Refused, Tokenized, Created,
         Pending, Fails, Wake, Saved, Goes, To, Respond, AnswerArrives,
         ClientTimesOut, timingVars, TimingInv, TypeOK, Answers
<1>3. Own => ToldByBackend
  BY DEF ToldByBackend
<1>4. QED
  BY <1>1, <1>2, <1>3, TimingInvariance, PTL DEF Spec
================================================================================
