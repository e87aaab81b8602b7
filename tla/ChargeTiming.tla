------------------------------ MODULE ChargeTiming ------------------------------
(***************************************************************************)
(* The clocks around one request of the app, in seconds: the app's abort    *)
(* timer, the reverse proxy's read timeout and, for POST                    *)
(* /transactions/:id/pay, the ten seconds of each call to the PSP, the      *)
(* deadline and the pauses of the poll loop.  What the calls do is          *)
(* PaymentBackend's; here only how long each may take matters.              *)
(***************************************************************************)
EXTENDS Naturals

CONSTANTS ClientTimeout,  \* PAY_REQUEST_TIMEOUT_MS: 65
          RequestTimeout, \* REQUEST_TIMEOUT_MS: 15
          ProxyTimeout,   \* proxy_read_timeout: 60
          CallTimeout,    \* PspClient's timeoutMs: 10
          PollTimeout,    \* pollTimeoutMs: 30
          PollInterval,   \* POLL_INTERVAL_MS: 2
          DbTime,         \* longest stay in the database (assumed)
          Latency         \* longest way between app and proxy (assumed)

ASSUME TimingAssumption ==
  /\ ClientTimeout \in Nat /\ RequestTimeout \in Nat /\ ProxyTimeout \in Nat /\ CallTimeout \in Nat
  /\ PollTimeout \in Nat \ {0} /\ PollInterval \in Nat
  /\ DbTime \in Nat /\ Latency \in Nat

VARIABLES kind,    \* a payment, or any other of the app's requests
          age,     \* since the app sent the request
          atProxy, \* since the proxy passed it on
          phase,   \* where the backend is with it
          since,   \* since it got there
          polling, \* since the poll loop began: Date.now() - deadline + 30 s
          answer,  \* what the proxy has sent back
          flight,  \* since it did
          client   \* what the app has of it

timingVars == <<kind, age, atProxy, phase, since, polling, answer, flight, client>>

Calls  == {"tokenize", "create", "poll"}
Phases == Calls \union {"out", "load", "sleep", "save", "done"}
Answers == {"none", "backend", "gateway"}

TypeOK ==
  /\ age \in Nat /\ atProxy \in Nat /\ since \in Nat /\ polling \in Nat /\ flight \in Nat
  /\ kind \in {"pay", "other"}
  /\ phase \in Phases
  /\ answer \in Answers
  /\ client \in Answers \union {"aborted"}

Init ==
  /\ kind \in {"pay", "other"}
  /\ age = 0 /\ atProxy = 0 /\ since = 0 /\ polling = 0 /\ flight = 0
  /\ phase = "out" /\ answer = "none" /\ client = "none"

\* The longest the request stays in a phase.
Limit(p) ==
  CASE p = "out"              -> Latency
    [] p \in {"load", "save"} -> DbTime
    [] p \in Calls            -> CallTimeout
    [] p = "sleep"            -> PollInterval
    [] OTHER                  -> 0

\* What the app's abort timer is set to.
Timer == IF kind = "pay" THEN ClientTimeout ELSE RequestTimeout

\* Time passes unless some timer is due.
Second ==
  /\ phase # "done" \/ client = "none"
  /\ phase = "done" \/ since < Limit(phase)
  /\ (phase # "out" /\ answer = "none") => atProxy < ProxyTimeout
  /\ client = "none" => age < Timer /\ (answer # "none" => flight < Latency)
  /\ age' = age + 1 /\ since' = since + 1
  /\ atProxy' = IF phase = "out" THEN 0 ELSE atProxy + 1
  /\ polling' = IF phase \in {"poll", "sleep"} THEN polling + 1 ELSE polling
  /\ flight' = IF answer = "none" THEN 0 ELSE flight + 1
  /\ UNCHANGED <<kind, phase, answer, client>>
--------------------------------------------------------------------------------
(* The backend                                                              *)

To(p) == phase' = p /\ since' = 0 /\ UNCHANGED <<kind, age, atProxy, client>>
Goes(from, p) == phase = from /\ To(p) /\ UNCHANGED <<polling, answer, flight>>

\* The request's last step; the proxy passes the answer on if it still waits.
Respond(from) ==
  /\ phase = from /\ To("done") /\ UNCHANGED polling
  /\ IF answer = "none" THEN answer' = "backend" /\ flight' = 0
     ELSE UNCHANGED <<answer, flight>>

Arrive   == Goes("out", "load")
Loaded   == kind = "pay" /\ Goes("load", "tokenize")
\* POST /transactions: the product is there, the order is saved.
Found    == kind = "other" /\ Goes("load", "save")
\* Turned away, or nothing but read.
Refused  == Respond("load")
Tokenized == Goes("tokenize", "create")
Created  ==
  /\ phase = "create" /\ To("poll") /\ polling' = 0
  /\ UNCHANGED <<answer, flight>>
Pending  == Goes("poll", "sleep")
\* The call failed or timed out, or the PSP has decided.
Fails    == \E c \in Calls : Goes(c, "save")

\* Mutant: the deadline is reckoned from the last poll.
WakeExtended ==
  /\ phase = "sleep" /\ since = PollInterval
  /\ polling' = 0
  /\ To(IF polling < PollTimeout THEN "poll" ELSE "save")
  /\ UNCHANGED <<answer, flight>>

\* The deadline is looked at between two polls only.
Wake ==
  /\ since = PollInterval
  /\ Goes("sleep", IF polling < PollTimeout THEN "poll" ELSE "save")

Saved    == Respond("save")
--------------------------------------------------------------------------------
(* The proxy and the app                                                    *)

\* 504: the backend goes on all the same.
ProxyTimesOut ==
  /\ phase \notin {"out", "done"} /\ answer = "none" /\ atProxy = ProxyTimeout
  /\ answer' = "gateway" /\ flight' = 0
  /\ UNCHANGED <<kind, age, atProxy, phase, since, polling, client>>

AnswerArrives ==
  /\ client = "none" /\ answer # "none"
  /\ client' = answer
  /\ UNCHANGED <<kind, age, atProxy, phase, since, polling, answer, flight>>

\* Mutant: a payment is given the timeout of the other requests.
ClientTimesOutEarly ==
  /\ client = "none" /\ age >= RequestTimeout
  /\ client' = "aborted"
  /\ UNCHANGED <<kind, age, atProxy, phase, since, polling, answer, flight>>

\* The AbortController's timer, cleared once fetch has its answer.
ClientTimesOut ==
  /\ client = "none" /\ age >= Timer
  /\ client' = "aborted"
  /\ UNCHANGED <<kind, age, atProxy, phase, since, polling, answer, flight>>

Backend == \/ Arrive \/ Loaded \/ Found \/ Refused \/ Tokenized \/ Created \/ Pending
           \/ Fails \/ Wake \/ Saved

Next == Second \/ Backend \/ ProxyTimesOut \/ AnswerArrives \/ ClientTimesOut

Spec == Init /\ [][Next]_timingVars
--------------------------------------------------------------------------------
(* Properties                                                               *)

\* The longest the backend may be with a payment: two database calls, the two
\* tokens at once, the charge, polls that begin before the deadline, the last of
\* which may take its ten seconds and be followed by a pause.
Longest == 2 * DbTime + 3 * CallTimeout + PollTimeout + PollInterval

\* The backend is done with a payment within the sum of its timeouts: the poll
\* loop's deadline holds although it is only looked at between two polls.
DoneInTime == phase # "done" => atProxy <= Longest

\* "Para que el cliente nunca abandone antes que el servidor" (mobile/README): the
\* app never gives up a payment while the proxy has an answer to give.
ClientOutlivesProxy == kind = "pay" => client # "aborted"

\* The inductive invariant of the proofs: how far along the request can be in each
\* phase, and how much older than that it can be for the app.
Reached ==
  /\ phase = "load"     => atProxy <= since
  /\ phase = "tokenize" => atProxy <= DbTime + since
  /\ phase = "create"   => atProxy <= DbTime + CallTimeout + since
  /\ phase = "poll"     => polling <= PollTimeout + since
  /\ phase = "sleep"    => polling <= PollTimeout + CallTimeout + since
  /\ phase \in {"poll", "sleep"} => atProxy <= DbTime + 2 * CallTimeout + polling
  /\ phase = "save" =>
       atProxy <= DbTime + 3 * CallTimeout + PollTimeout + PollInterval + since

TimingInv ==
  /\ TypeOK
  /\ phase # "done" => since <= Limit(phase)
  /\ Reached
  /\ phase = "out" => atProxy = 0 /\ answer = "none" /\ age <= since
  /\ phase = "done" => answer # "none"
  /\ phase # "done" /\ answer = "none" => atProxy <= ProxyTimeout
  /\ client = "none" /\ answer = "none" => age <= Latency + atProxy
  /\ client = "none" /\ answer # "none" =>
       flight <= Latency /\ age <= Latency + ProxyTimeout + flight
  /\ client = "gateway" => answer = "gateway"

\* "The client always outlives the server-side answer" (config.ts): what the app
\* is told of a payment is what the backend made of it.
ToldByBackend == client # "gateway"
================================================================================
