--------------------------- MODULE MCCheckoutSystem ---------------------------
(* Small instances of CheckoutSystem for TLC.                                *)
EXTENDS CheckoutSystem, TLC

Units2 == [p \in ProductIds |-> 2]
OneCent == [p \in ProductIds |-> 1]

\* Kills are tried with one payment view; with two the app lives on, and writes
\* nothing that nobody is going to read.
KilledWithOnePayment ==
  \/ Cardinality({v \in Txns : call[v].kind # "none"}) <= 1
  \/ launched = {} /\ disk = [cart |-> App!EmptyCart, current |-> None, history |-> << >>]

Symmetry == Permutations(Txns)
================================================================================
