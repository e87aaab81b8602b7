------------------------------ MODULE MCCardForm ------------------------------
(* A small instance of CardForm for TLC.  To keep it small, the customer    *)
(* first fills in the whole form and then goes on in one of its fields: the *)
(* fields meet only in Continue.                                            *)
EXTENDS CardForm

CONSTANT Fields

VARIABLE focus \* the field that is edited, "none" while the form is filled in

mcVars == <<formVars, focus>>

Day(y, m, d) == [year |-> y, month |-> m, day |-> d]

\* Both ends of months of every length, a leap day, New Year's Eve, and the ends
\* of the century the form assumes.
Boundaries ==
  <<Day(2000, 1, 1), Day(2020, 2, 1), Day(2020, 2, 29), Day(2020, 5, 1), Day(2021, 2, 28),
    Day(2021, 4, 30), Day(2021, 5, 31), Day(2021, 12, 1), Day(2021, 12, 31),
    Day(2022, 1, 1), Day(2022, 1, 31), Day(2099, 12, 31)>>

Filled ==
  /\ card' = [number |-> <<4, 2, 2>>, month |-> <<0, 5>>, year |-> <<2, 0, 2, 1>>,
              cvc |-> <<0, 1, 2>>, holder |-> TRUE, installments |-> 1]
  /\ email' = TRUE
  /\ typed' = [number |-> <<4, 2, 2>>, expiry |-> <<0, 5, 2, 1>>]
  /\ UNCHANGED now

MCInit == Init /\ focus = "none"

MCNext ==
  \/ focus = "none" /\ focus' \in Fields /\ Filled
  \/ focus = "number" /\ TypeNumber /\ UNCHANGED focus
  \/ focus = "expiry" /\ TypeExpiry /\ UNCHANGED focus
  \/ focus = "cvc" /\ TypeCvc /\ UNCHANGED focus
  \/ focus = "rest" /\ (TypeHolder \/ TypeEmail \/ Step) /\ UNCHANGED focus
  \/ focus # "none" /\ Midnight /\ UNCHANGED focus

MCSpec == MCInit /\ [][MCNext]_mcVars
================================================================================
